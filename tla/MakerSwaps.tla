------------------------------ MODULE MakerSwaps ------------------------------
(***************************************************************************)
(* The maker server's swap table (`ongoing_swaps`) and every thread that   *)
(* reads or writes it: connection handlers working on a private copy of a  *)
(* swap's state, keepalive connections, the idle checker, the recovery     *)
(* threads it spawns, and a restart that keeps only what is on disk.       *)
(*                                                                         *)
(* One step is one lock acquisition, one disk write or one broadcast, so   *)
(* every interleaving the mutexes of the code allow is a behaviour here.   *)
(* Amounts, keys, scripts and signatures are abstracted; which message is  *)
(* accepted in which phase, and what it leaves behind, is not.             *)
(***************************************************************************)
EXTENDS Naturals, FiniteSets

CONSTANTS
  Swaps,      \* swap ids
  Taproot,    \* the swaps negotiated as Taproot; the others are Legacy
  Conns,      \* protocol connections (one handler thread each)
  Beats,      \* keepalive connections (WaitingFundingConfirmation)
  NumTx,      \* tx_count: outgoing contracts per swap
  MaxSets,    \* bound: how often a swap's outgoing contracts are rebuilt
  MaxSwaps,   \* MAX_CONCURRENT_SWAPS
  None

ASSUME SizesAssumption ==
  /\ Taproot \subseteq Swaps
  /\ NumTx \in Nat \ {0}
  /\ MaxSets \in Nat
  /\ MaxSwaps \in Nat
  /\ None \notin Swaps

VARIABLES
  ongoing,    \* ongoing_swaps: swap id -> SwapState, or None
  conn,       \* per connection: the handler's step and its ConnectionState copy
  beat,       \* per keepalive connection: the entry it has read, or None
  recs,       \* recover_from_swap threads that may still discard the swap
  watched,    \* swaps a recovery thread is monitoring on chain
  walletIn,   \* on disk: the incoming swapcoins of a swap: absent, plain, keyed
  walletOut,  \* on disk: the outgoing swapcoins
  tracker,    \* on disk: no swap tracker record, or one whose funding_broadcast
              \* is true ("funded") or false ("unfunded")
  net,        \* outgoing contracts whose funding the network has accepted
  late,       \* swaps whose refund deadline the chain has passed
  gens,       \* outgoing contract sets built so far for a swap
  admitted,   \* history: swaps a SwapDetails was accepted for
  given       \* history: swaps whose outgoing private keys the taker was sent

table   == <<ongoing, conn, beat>>
disk    == <<walletIn, walletOut, tracker>>
threads == <<recs, watched>>
history == <<admitted, given>>
rest    == <<net, late, gens, history>>
vars    == <<table, disk, threads, rest>>

Phases == {"AwaitingHello", "AwaitingSwapDetails",
           "AwaitingContractData", "AwaitingSignaturesOrPreimage",
           "AwaitingPrivateKeyHandover", "Completed"}

\* Phases in which a connection has been admitted to a swap.
Admitted == Phases \ {"AwaitingHello", "AwaitingSwapDetails"}

\* An outgoing contract: the i-th of the g-th set built for swap s.
Coins == [swap : Swaps, set : 1..MaxSets, i : 1..NumTx]
CoinsOf(s, g) == {k \in Coins : k.swap = s /\ k.set = g}

\* What a ConnectionState and a SwapState have in common.  `out` is the number of
\* the outgoing set held (0: none), `key` says the incoming coins carry the
\* counterparty's private key.
ConnState == [swap : Swaps \cup {None}, phase : Phases, inc : BOOLEAN,
              out : 0..MaxSets, pend : BOOLEAN, fb : BOOLEAN, key : BOOLEAN]

NewState == [swap |-> None, phase |-> "AwaitingHello", inc |-> FALSE, out |-> 0,
             pend |-> FALSE, fb |-> FALSE, key |-> FALSE]

\* SwapState: `fresh` while last_activity is within the idle timeout, `conf` once
\* funding_confirmation_height is recorded.
Entry == [cs : ConnState, fresh : BOOLEAN, conf : BOOLEAN]

\* Where a handler thread stands.  "ready" reads the next message.
Steps == {"ready", "admit", "confirm", "saveIn", "saveOut", "broadcast",
          "store", "respond", "remove", "sweep"}

\* A connection slot between two connections, or just connected.
Fresh == [pc |-> "ready", st |-> NewState, n |-> 0]

Init ==
  /\ ongoing = [s \in Swaps |-> None]
  /\ conn = [c \in Conns |-> Fresh]
  /\ beat = [b \in Beats |-> None]
  /\ recs = {}
  /\ watched = {}
  /\ walletIn = [s \in Swaps |-> "absent"]
  /\ walletOut = {}
  /\ tracker = [s \in Swaps |-> "none"]
  /\ net = {}
  /\ late = {}
  /\ gens = [s \in Swaps |-> 0]
  /\ admitted = {}
  /\ given = {}

-----------------------------------------------------------------------------
(* The table *)

\* past_refund_deadline: Legacy counts from the recorded confirmation height.
PastDeadline(s) ==
  /\ ongoing[s] # None
  /\ s \in late
  /\ s \in Taproot \/ ongoing[s].conf

\* store_connection_state(.., admission = false): an upsert that refreshes the
\* idle timer and leaves the recorded confirmation height alone.
Upsert(s, cs) ==
  ongoing' = [ongoing EXCEPT ![s] =
    [cs |-> cs, fresh |-> TRUE,
     conf |-> IF ongoing[s] = None THEN FALSE ELSE ongoing[s].conf]]

ActiveSwaps == {s \in Swaps : ongoing[s] # None /\ ongoing[s].cs.phase # "Completed"}

\* restore_state_if_needed: a connection that holds no outgoing contracts takes
\* over the stored state of the swap the message names.
Restored(c, s) ==
  IF conn[c].st.out = 0 /\ ongoing[s] # None THEN ongoing[s].cs ELSE conn[c].st

\* The connection is reading, and the state it works on after restoring belongs
\* to swap s and is in one of the given phases.
Accepts(c, s, phases) ==
  /\ conn[c].pc = "ready"
  /\ Restored(c, s).swap = s
  /\ Restored(c, s).phase \in phases

Goto(c, pc, st) == conn' = [conn EXCEPT ![c] = [pc |-> pc, st |-> st, n |-> 0]]

-----------------------------------------------------------------------------
(* Connection handlers *)

\* The thread ends: disconnect, timeout, a message refused by a guard, or an
\* error returned anywhere before the handler's last store.  The slot is free for
\* the next connection.
Close(c) ==
  /\ conn[c].pc \in {"ready", "confirm", "saveIn", "saveOut", "broadcast", "respond"}
  /\ conn' = [conn EXCEPT ![c] = Fresh]
  /\ UNCHANGED <<ongoing, beat, disk, threads, rest>>

\* TakerHello, then GetOffer: only the connection's own phase moves.
Greet(c) ==
  /\ conn[c].pc = "ready" /\ conn[c].st.phase = "AwaitingHello"
  /\ Goto(c, "ready", [conn[c].st EXCEPT !.phase = "AwaitingSwapDetails"])
  /\ UNCHANGED <<ongoing, beat, disk, threads, rest>>

\* handle_swap_details up to the store: parameters validated (a Taproot timelock
\* must still leave time to sweep), the connection's copy filled in.
SwapDetails(c, s) ==
  /\ conn[c].pc = "ready" /\ conn[c].st.phase = "AwaitingSwapDetails"
  /\ s \in Taproot => s \notin late
  /\ Goto(c, "admit", [conn[c].st EXCEPT !.swap = s, !.phase = "AwaitingContractData"])
  /\ UNCHANGED <<ongoing, beat, disk, threads, rest>>

\* store_connection_state(.., admission = true): a new swap needs a free slot; a
\* known one with the same parameters only has its idle timer refreshed.
Admit(c) ==
  LET st == conn[c].st IN
  /\ conn[c].pc = "admit"
  /\ \/ /\ ongoing[st.swap] = None
        /\ Cardinality(ActiveSwaps) < MaxSwaps
        /\ Upsert(st.swap, st)
     \/ /\ ongoing[st.swap] # None
        /\ ongoing' = [ongoing EXCEPT ![st.swap].fresh = TRUE]
  /\ Goto(c, "ready", st)
  /\ admitted' = admitted \cup {st.swap}
  /\ UNCHANGED <<beat, disk, threads, net, late, gens, given>>

\* Mutant of RejectAdmission: the refused connection keeps the swap it asked for.
RejectKeepsSwap(c) ==
  /\ conn[c].pc = "admit"
  /\ Goto(c, "ready", conn[c].st)
  /\ UNCHANGED <<ongoing, beat, disk, threads, rest>>

\* TooManySwaps, SwapParamMismatch or InsufficientLiquidity: the connection is
\* put back to where it was before the message.
RejectAdmission(c) ==
  /\ conn[c].pc = "admit"
  /\ Goto(c, "ready", [NewState EXCEPT !.phase = "AwaitingSwapDetails"])
  /\ UNCHANGED <<ongoing, beat, disk, threads, rest>>

\* Mutant of ReqContractSigsForSender: signing moves the swap on to the next phase.
SignAndAdvance(c, s) ==
  /\ s \notin Taproot
  /\ Accepts(c, s, {"AwaitingContractData", "AwaitingSignaturesOrPreimage"})
  /\ Goto(c, "store", [Restored(c, s) EXCEPT !.phase = "AwaitingSignaturesOrPreimage"])
  /\ UNCHANGED <<ongoing, beat, disk, threads, rest>>

\* process_req_contract_sigs_for_sender: signs, then stores its copy.
ReqContractSigsForSender(c, s) ==
  /\ s \notin Taproot
  /\ Accepts(c, s, {"AwaitingContractData", "AwaitingSignaturesOrPreimage"})
  /\ Goto(c, "store", Restored(c, s))
  /\ UNCHANGED <<ongoing, beat, disk, threads, rest>>

\* process_proof_of_funding / process_taproot_contract up to the wait for the
\* incoming funding's confirmations.
ProofOfFunding(c, s) ==
  /\ s \notin Taproot
  /\ Accepts(c, s, {"AwaitingContractData", "AwaitingSignaturesOrPreimage"})
  /\ Goto(c, "confirm", Restored(c, s))
  /\ UNCHANGED <<ongoing, beat, disk, threads, rest>>

TaprootContractData(c, s) ==
  /\ s \in Taproot
  /\ Accepts(c, s, {"AwaitingContractData"})
  /\ s \notin late
  /\ Goto(c, "confirm", Restored(c, s))
  /\ UNCHANGED <<ongoing, beat, disk, threads, rest>>

\* The funding has confirmed: verify_proof_of_funding records the height in the
\* table if the entry is still there, the outgoing contracts are built, and the
\* handler goes on to store its copy.
BuildLegacy(c) ==
  LET s == conn[c].st.swap IN
  /\ conn[c].pc = "confirm" /\ s \notin Taproot
  /\ gens[s] < MaxSets
  /\ gens' = [gens EXCEPT ![s] = @ + 1]
  /\ ongoing' = IF ongoing[s] = None THEN ongoing
                ELSE [ongoing EXCEPT ![s].conf = TRUE]
  /\ Goto(c, "store", [conn[c].st EXCEPT !.inc = TRUE, !.out = gens[s] + 1, !.pend = TRUE,
                         !.phase = "AwaitingSignaturesOrPreimage"])
  /\ UNCHANGED <<beat, disk, threads, net, late, history>>

\* The same with an error after the height was recorded (no funds to build with, the
\* watchtower down): the thread ends and only the height stays behind.
BuildLegacyFails(c) ==
  LET s == conn[c].st.swap IN
  /\ conn[c].pc = "confirm" /\ s \notin Taproot
  /\ ongoing[s] # None
  /\ ongoing' = [ongoing EXCEPT ![s].conf = TRUE]
  /\ conn' = [conn EXCEPT ![c] = Fresh]
  /\ UNCHANGED <<beat, disk, threads, rest>>

\* The Taproot handler re-checks the sweep margin, builds its contracts in its own
\* copy only, and goes straight on to save and broadcast them.
BuildTaproot(c) ==
  LET s == conn[c].st.swap IN
  /\ conn[c].pc = "confirm" /\ s \in Taproot
  /\ s \notin late
  /\ gens[s] < MaxSets
  /\ gens' = [gens EXCEPT ![s] = @ + 1]
  /\ Goto(c, "saveIn", [conn[c].st EXCEPT !.inc = TRUE, !.out = gens[s] + 1])
  /\ UNCHANGED <<ongoing, beat, disk, threads, net, late, history>>

\* process_resp_contract_sigs_for_recvr_and_sender up to the first save.
RespContractSigs(c, s) ==
  /\ s \notin Taproot
  /\ Accepts(c, s, {"AwaitingSignaturesOrPreimage"})
  /\ Goto(c, "saveIn", Restored(c, s))
  /\ UNCHANGED <<ongoing, beat, disk, threads, rest>>

\* save_incoming_swapcoin: replaces what the wallet file holds for these coins.
SaveIncoming(c) ==
  LET st == conn[c].st IN
  /\ conn[c].pc = "saveIn"
  /\ walletIn' = [walletIn EXCEPT ![st.swap] = IF st.key THEN "keyed" ELSE "plain"]
  /\ Goto(c, "saveOut", st)
  /\ UNCHANGED <<ongoing, beat, walletOut, tracker, threads, rest>>

\* save_outgoing_swapcoin, one coin at a time.
SaveOutgoing(c) ==
  LET st == conn[c].st
      i  == conn[c].n + 1
  IN
  /\ conn[c].pc = "saveOut"
  /\ walletOut' = walletOut \cup {[swap |-> st.swap, set |-> st.out, i |-> i]}
  /\ conn' = [conn EXCEPT ![c] = [pc |-> IF i = NumTx THEN "broadcast" ELSE "saveOut",
                                  st |-> st, n |-> IF i = NumTx THEN 0 ELSE i]]
  /\ UNCHANGED <<ongoing, beat, walletIn, tracker, threads, rest>>

\* Mutant of Broadcast: one transaction more than the set holds.
BroadcastPastLast(c) ==
  LET st == conn[c].st
      i  == conn[c].n + 1
      done == [st EXCEPT !.pend = FALSE, !.fb = TRUE, !.phase = "AwaitingPrivateKeyHandover"]
  IN
  /\ conn[c].pc = "broadcast"
  /\ net' = net \cup {[swap |-> st.swap, set |-> st.out, i |-> i]}
  /\ conn' = [conn EXCEPT ![c] = IF i > NumTx THEN [pc |-> "store", st |-> done, n |-> 0]
                                 ELSE [pc |-> "broadcast", st |-> st, n |-> i]]
  /\ UNCHANGED <<ongoing, beat, disk, threads, late, gens, history>>

\* broadcast_transaction, one funding transaction at a time; one the network
\* already has counts as done.
Broadcast(c) ==
  LET st == conn[c].st
      i  == conn[c].n + 1
      done == [st EXCEPT !.pend = FALSE, !.fb = TRUE, !.phase = "AwaitingPrivateKeyHandover"]
  IN
  /\ conn[c].pc = "broadcast"
  /\ net' = net \cup {[swap |-> st.swap, set |-> st.out, i |-> i]}
  /\ conn' = [conn EXCEPT ![c] = IF i = NumTx THEN [pc |-> "store", st |-> done, n |-> 0]
                                 ELSE [pc |-> "broadcast", st |-> st, n |-> i]]
  /\ UNCHANGED <<ongoing, beat, disk, threads, late, gens, history>>

\* The handler's last call, store_connection_state(.., admission = false).  A
\* thread whose swap is Completed ends with it.
StoreState(c) ==
  LET st == conn[c].st IN
  /\ conn[c].pc = "store"
  /\ Upsert(st.swap, st)
  /\ IF st.phase = "Completed" THEN conn' = [conn EXCEPT ![c] = Fresh]
     ELSE Goto(c, "ready", st)
  /\ UNCHANGED <<beat, disk, threads, rest>>

\* process_req_contract_sigs_for_recvr signs and changes nothing else.
ReqContractSigsForRecvr(c, s) ==
  /\ s \notin Taproot
  /\ Accepts(c, s, {"AwaitingPrivateKeyHandover"})
  /\ Goto(c, "ready", Restored(c, s))
  /\ UNCHANGED <<ongoing, beat, disk, threads, rest>>

\* What the two handover handlers do: the received keys go to disk, and only the
\* connection's own copy becomes Completed.
PrivateKeyHandover(c, s) ==
  /\ Accepts(c, s, {"AwaitingPrivateKeyHandover"})
  /\ walletIn' = [walletIn EXCEPT ![s] = "keyed"]
  /\ Goto(c, "respond", [Restored(c, s) EXCEPT !.key = TRUE, !.phase = "Completed"])
  /\ UNCHANGED <<ongoing, beat, walletOut, tracker, threads, rest>>

LegacyHandover(c, s) == s \notin Taproot /\ PrivateKeyHandover(c, s)

TaprootHandover(c, s) == s \in Taproot /\ PrivateKeyHandover(c, s)

\* The response with our private keys is on the wire.
SendPrivkeys(c) ==
  /\ conn[c].pc = "respond"
  /\ given' = given \cup {conn[c].st.swap}
  /\ Goto(c, "remove", conn[c].st)
  /\ UNCHANGED <<ongoing, beat, disk, threads, net, late, gens, admitted>>

RemoveCompleted(c) ==
  /\ conn[c].pc = "remove"
  /\ ongoing' = [ongoing EXCEPT ![conn[c].st.swap] = None]
  /\ Goto(c, "sweep", conn[c].st)
  /\ UNCHANGED <<beat, disk, threads, rest>>

\* Every incoming coin swept and confirmed: settlement is complete.
SweepSettles(c) ==
  LET s == conn[c].st.swap IN
  /\ conn[c].pc = "sweep" /\ walletIn[s] = "keyed"
  /\ walletIn' = [walletIn EXCEPT ![s] = "absent"]
  /\ conn' = [conn EXCEPT ![c] = Fresh]
  /\ UNCHANGED <<ongoing, beat, walletOut, tracker, threads, rest>>

\* The sweep failed or was partial: the completed state goes back to the table.
SweepFails(c) ==
  /\ conn[c].pc = "sweep"
  /\ Goto(c, "store", conn[c].st)
  /\ UNCHANGED <<ongoing, beat, disk, threads, rest>>

-----------------------------------------------------------------------------
(* Keepalives: get_connection_state, then store_connection_state *)

\* Mutant of BeatRead: the refund deadline does not refuse a keepalive.
BeatReadAlways(b, s) ==
  /\ beat[b] = None /\ ongoing[s] # None
  /\ beat' = [beat EXCEPT ![b] = ongoing[s].cs]
  /\ UNCHANGED <<ongoing, conn, disk, threads, rest>>

\* A keepalive past the refund deadline is refused.  The check and the read take the
\* lock one after the other; as one step they lose only a deadline that passes between.
BeatRead(b, s) ==
  /\ beat[b] = None /\ ongoing[s] # None /\ ~PastDeadline(s)
  /\ beat' = [beat EXCEPT ![b] = ongoing[s].cs]
  /\ UNCHANGED <<ongoing, conn, disk, threads, rest>>

\* What was read goes back as it was, whatever the table holds by now.
BeatStore(b) ==
  /\ beat[b] # None
  /\ Upsert(beat[b].swap, beat[b])
  /\ beat' = [beat EXCEPT ![b] = None]
  /\ UNCHANGED <<conn, disk, threads, rest>>

-----------------------------------------------------------------------------
(* The idle checker *)

\* An admitted swap without funding material.
Releasable(s) ==
  LET cs == ongoing[s].cs IN
  /\ cs.phase = "AwaitingContractData" /\ ~cs.inc /\ cs.out = 0 /\ ~cs.pend /\ ~cs.fb
  /\ ~ongoing[s].fresh

\* A swap whose outgoing contracts recovery has to look at.
Stale(s, heightKnown) ==
  /\ ongoing[s].cs.out # 0
  /\ ~ongoing[s].fresh \/ (heightKnown /\ PastDeadline(s))

Recovery == [swap : Swaps, inc : BOOLEAN, out : SUBSET Coins, pc : {"start", "discard"}]

Thread(s, inc, out) == [swap |-> s, inc |-> inc, out |-> out, pc |-> "start"]

\* One cycle of check_for_idle_states: drain_idle_swaps under one lock (the height
\* may be unknown this cycle), then for every stale swap the TakerDropped record
\* and the recovery thread.
DrainIdle(heightKnown) ==
  LET held     == {s \in Swaps : ongoing[s] # None}
      released == {s \in held : Releasable(s)}
      stale    == {s \in held : Stale(s, heightKnown)}
  IN
  /\ released \cup stale # {}
  /\ ongoing' = [s \in Swaps |-> IF s \in released \cup stale THEN None ELSE ongoing[s]]
  /\ tracker' = [s \in Swaps |-> IF s \notin stale THEN tracker[s]
                                ELSE IF ongoing[s].cs.fb THEN "funded" ELSE "unfunded"]
  /\ recs' = recs \cup {Thread(s, ongoing[s].cs.inc, CoinsOf(s, ongoing[s].cs.out)) : s \in stale}
  /\ UNCHANGED <<conn, beat, watched, walletIn, walletOut, rest>>

-----------------------------------------------------------------------------
(* recover_from_swap, as far as the discard decision *)

\* Mutant of RecoverDiscards: a missing record is taken for "never broadcast".
DiscardUnlessFunded(r) ==
  /\ r \in recs /\ r.pc = "start"
  /\ tracker[r.swap] # "funded"
  /\ recs' = (recs \ {r}) \cup {[r EXCEPT !.pc = "discard"]}
  /\ UNCHANGED <<table, disk, watched, rest>>

\* A record that says the funding was never broadcast: nothing to recover.
RecoverDiscards(r) ==
  /\ r \in recs /\ r.pc = "start"
  /\ tracker[r.swap] = "unfunded"
  /\ recs' = (recs \ {r}) \cup {[r EXCEPT !.pc = "discard"]}
  /\ UNCHANGED <<table, disk, watched, rest>>

\* Funded, or no record at all: the monitoring loop, which module MakerRecovery
\* models, takes over.
RecoverMonitors(r) ==
  /\ r \in recs /\ r.pc = "start"
  /\ tracker[r.swap] # "unfunded"
  /\ recs' = recs \ {r}
  /\ watched' = watched \cup {r.swap}
  /\ UNCHANGED <<table, disk, rest>>

\* The swapcoins of the swap leave the wallet file.
DiscardSwapcoins(r) ==
  /\ r \in recs /\ r.pc = "discard"
  /\ walletOut' = walletOut \ r.out
  /\ walletIn' = IF r.inc THEN [walletIn EXCEPT ![r.swap] = "absent"] ELSE walletIn
  /\ recs' = recs \ {r}
  /\ UNCHANGED <<table, tracker, watched, rest>>

-----------------------------------------------------------------------------
(* Time and restarts *)

\* The idle timeout passes without a store for this swap.
GoQuiet(s) ==
  /\ ongoing[s] # None /\ ongoing[s].fresh
  /\ ongoing' = [ongoing EXCEPT ![s].fresh = FALSE]
  /\ UNCHANGED <<conn, beat, disk, threads, rest>>

\* Blocks arrive: timelock + REFUND_LOCKTIME_STEP is closer than the reaction time.
\* Legacy's timelock runs from the confirmation of the incoming funding.
DeadlinePasses(s) ==
  /\ s \notin late
  /\ s \notin Taproot => gens[s] > 0 \/ (ongoing[s] # None /\ ongoing[s].conf)
  /\ late' = late \cup {s}
  /\ UNCHANGED <<table, disk, threads, net, gens, history>>

\* Mutant of Unfinished: a swap whose incoming coins are keyed counts as finished.
UnfinishedUnkeyed ==
  {Thread(s, TRUE, {k \in walletOut : k.swap = s}) : s \in {t \in Swaps : walletIn[t] = "plain"}}

\* find_unfinished_swapcoins, grouped by swap; a group without outgoing coins has
\* no timelock and its thread ends at once.
Unfinished ==
  {Thread(s, walletIn[s] = "plain", {k \in walletOut : k.swap = s}) :
     s \in {t \in Swaps : \E k \in walletOut : k.swap = t}}

\* Crash and start_server: memory is lost, the disk and the chain are not.
Restart ==
  /\ ongoing' = [s \in Swaps |-> None]
  /\ conn' = [c \in Conns |-> Fresh]
  /\ beat' = [b \in Beats |-> None]
  /\ recs' = Unfinished
  /\ watched' = {}
  /\ UNCHANGED <<disk, rest>>

Handler(c) ==
  \/ Close(c) \/ Greet(c)
  \/ Admit(c) \/ RejectAdmission(c)
  \/ BuildLegacy(c) \/ BuildLegacyFails(c) \/ BuildTaproot(c)
  \/ SaveIncoming(c) \/ SaveOutgoing(c) \/ Broadcast(c) \/ StoreState(c)
  \/ SendPrivkeys(c) \/ RemoveCompleted(c) \/ SweepSettles(c) \/ SweepFails(c)

Message(c, s) ==
  \/ SwapDetails(c, s) \/ ReqContractSigsForSender(c, s)
  \/ ProofOfFunding(c, s) \/ TaprootContractData(c, s) \/ RespContractSigs(c, s)
  \/ ReqContractSigsForRecvr(c, s) \/ LegacyHandover(c, s) \/ TaprootHandover(c, s)

Recover(r) == RecoverDiscards(r) \/ RecoverMonitors(r) \/ DiscardSwapcoins(r)

Next ==
  \/ \E c \in Conns : Handler(c)
  \/ \E c \in Conns, s \in Swaps : Message(c, s)
  \/ \E b \in Beats, s \in Swaps : BeatRead(b, s)
  \/ \E b \in Beats : BeatStore(b)
  \/ \E h \in BOOLEAN : DrainIdle(h)
  \/ \E r \in recs : Recover(r)
  \/ \E s \in Swaps : GoQuiet(s) \/ DeadlinePasses(s)
  \/ Restart

Spec == Init /\ [][Next]_vars

\* A handler past its message goes on; the idle checker and every recovery thread
\* keep running; blocks keep coming; a Taproot swap past its deadline is refused
\* every refresh, so its idle timer runs out.  Nothing is assumed of the taker, nor
\* that restarts stop.
Fairness ==
  /\ \A c \in Conns : WF_vars(Admit(c) \/ StoreState(c) \/ RemoveCompleted(c))
  /\ \A b \in Beats : WF_vars(BeatStore(b))
  /\ WF_vars(DrainIdle(TRUE))
  /\ \A s \in Swaps : WF_vars(\E r \in recs : r.swap = s /\ Recover(r))
  /\ \A s \in Swaps : WF_vars(DeadlinePasses(s))
  /\ \A s \in Taproot : WF_vars(s \in late /\ GoQuiet(s))

FairSpec == Spec /\ Fairness

-----------------------------------------------------------------------------
(* Properties *)

\* Every variable has its type; in particular a handler never saves or broadcasts a
\* contract its set does not have.
TypeOK ==
  /\ ongoing \in [Swaps -> Entry \cup {None}]
  /\ conn \in [Conns -> [pc : Steps, st : ConnState, n : 0..NumTx]]
  /\ beat \in [Beats -> ConnState \cup {None}]
  /\ recs \subseteq Recovery
  /\ watched \subseteq Swaps
  /\ walletIn \in [Swaps -> {"absent", "plain", "keyed"}]
  /\ walletOut \subseteq Coins
  /\ tracker \in [Swaps -> {"none", "funded", "unfunded"}]
  /\ net \subseteq Coins
  /\ late \subseteq Swaps
  /\ gens \in [Swaps -> 0..MaxSets]
  /\ admitted \subseteq Swaps /\ given \subseteq Swaps

\* drain_idle_swaps removes two kinds of entries: a bare reservation and one that holds
\* outgoing contracts.  No entry is of neither kind, whatever copies the handlers and
\* keepalives write back: such an entry would hold its admission slot for ever.
EntryReclaimable ==
  \A s \in Swaps :
    ongoing[s] # None /\ ongoing[s].cs.out = 0 =>
      /\ ongoing[s].cs.phase = "AwaitingContractData"
      /\ ~ongoing[s].cs.inc /\ ~ongoing[s].cs.pend /\ ~ongoing[s].cs.fb

\* The handlers persist the outgoing swapcoins before they broadcast the funding, so
\* that a crash at any point leaves the maker what it needs for the refund: a contract
\* on the network is in the wallet file unless a recovery thread has worked on a
\* tracker record of its swap.
FundedOnDisk == \A k \in net : k \in walletOut \/ tracker[k.swap] # "none"

\* No thread funds a swap that admission (the concurrency cap, the parameter match and
\* the liquidity check of store_connection_state) did not accept.
OnlyAdmittedFunded == \A k \in net : k.swap \in admitted

\* No thread holds a copy of the swap's state that is older than the table's.
NoStaleCopy(s) ==
  LET copies == {beat[b] : b \in Beats} \cup {conn[c].st : c \in Conns}
      cs     == ongoing[s].cs
  IN \A x \in copies \ {None} :
       x.swap = s => (cs.out # 0 => x.out # 0) /\ (cs.fb => x.fb)

\* The swap's entry is bound to pass its refund deadline.
Expiring(s) ==
  ongoing[s] # None /\ (s \in Taproot \/ (ongoing[s].conf /\ NoStaleCopy(s)))

\* An entry does not occupy its slot for ever: past the refund deadline keepalives are
\* refused and the idle checker drains it, whatever the taker sends.
SlotReleased ==
  \A s \in Swaps :
    Expiring(s) /\ (s \in Taproot \/ ongoing[s].cs.out # 0) ~> ongoing[s] = None

\* A funded swap is not forgotten: a recovery thread monitors its contracts, or the
\* taker got the private keys in return for the maker's, or a record says the funding
\* was never broadcast; across restarts, and as long as no thread still holds an older
\* copy of the entry (see ReleasedUnfunded for what such a copy does).
FundedPickedUp ==
  \A s \in Swaps :
    Expiring(s) /\ ongoing[s].cs.fb /\ NoStaleCopy(s)
      ~> s \in watched \/ s \in given \/ tracker[s] = "unfunded"

\* recover_from_swap discards the swapcoins of swaps whose record says the funding was
\* never broadcast: then none of the contracts is on the network.
DiscardSafe == \A r \in recs : r.pc = "discard" => r.out \cap net = {}

\* What drain_idle_swaps drops without recovery has nothing on chain to recover.
ReleasedUnfunded ==
  \A s \in Swaps : ongoing[s] # None /\ Releasable(s) => ~\E k \in net : k.swap = s
=============================================================================
