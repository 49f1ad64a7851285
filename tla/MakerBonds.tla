----------------------------- MODULE MakerBonds -----------------------------
(***************************************************************************)
(* The life of a maker's fidelity bonds: set up at the start of the server *)
(* (adopt a pending bond, use the best one, or create one), announced on   *)
(* nostr, served to takers, redeemed and renewed when they expire; against *)
(* a chain that evicts and reorganises, a wallet file that may be older    *)
(* than memory, and crashes.                                               *)
(*                                                                         *)
(* Bond b is the b-th bond transaction the maker ever made.  It spends one *)
(* coin of the wallet, which comes back when the bond is redeemed or its   *)
(* transaction is dropped by the network.                                  *)
(***************************************************************************)
EXTENDS Integers, Sequences

CONSTANTS
  NCoins,            \* bound: coins of a bond's amount sent to the wallet
  Timelock,          \* config.fidelity_timelock
  MinLock, MaxLock,  \* MIN_FIDELITY_TIMELOCK, MAX_FIDELITY_TIMELOCK
  MaxHeight,         \* bound: blocks
  MaxBonds,          \* bound: bonds ever made
  MaxFaults          \* bound: failing calls, timeouts, evictions, reorgs, crashes

ASSUME BondAssumption ==
  /\ MinLock \in Nat /\ MaxLock \in Nat /\ Timelock \in MinLock..MaxLock
  /\ MaxHeight \in Nat /\ MaxBonds \in Nat /\ MaxFaults \in Nat /\ NCoins \in Nat

VARIABLES
  height, owned,  \* the tip; how many coins the operator has sent to the wallet
  made,           \* the bond transactions made: coin, lock_time, status, height mined at,
                  \* and what became of the output
  bonds, disk,    \* store.fidelity_bond in memory and in the wallet file
  cache,          \* bonds whose output is in the wallet's UTXO cache
  proof,          \* highest_fidelity_proof: bond and confirmation height, 0 for none
  pc,             \* where setup_fidelity_bond or the renewal loop is
  startup,        \* is this the setup of start_server?
  queue,          \* pending bonds still to be finalized
  target,         \* the new bond's lock_time
  busy,           \* a swap is under way
  heard,          \* the bond the nostr thread announced last, 0 for none
  skipped,        \* ghost: bonds whose confirmation was given up
  sent,           \* ghost: bonds sent since the wallet last synced
  moved,          \* ghost: bonds or redemptions the network took back
  fatal,          \* ghost: why setup failed last
  faults

chain  == <<height, owned, made>>
wallet == <<bonds, disk, cache>>
setup  == <<pc, startup, queue, target>>
ghosts == <<skipped, sent, moved, fatal>>
vars == <<chain, wallet, proof, setup, busy, heard, ghosts, faults>>

Bonds == 1..Len(made)
Live(b) == made[b].status \in {"mempool", "mined"}
Taken == {made[b].coin : b \in {c \in Bonds : Live(c) /\ made[c].out = "unspent"}}
Expired(b) == height > made[b].lock
Up == pc # "down"

\* list_unspent with zero confirmations, as check_if_fidelity recognises the bonds.
Unspent == {b \in Bonds : /\ Live(b) /\ made[b].out = "unspent"
                          /\ \E i \in 1..Len(bonds) : bonds[i].bond = b}

Init ==
  /\ height = 0 /\ owned = 0 /\ made = <<>>
  /\ bonds = <<>> /\ disk = <<>> /\ cache = {} /\ proof = [bond |-> 0, conf |-> 0]
  /\ pc = "down" /\ startup = TRUE /\ queue = {} /\ target = 0
  /\ busy = FALSE /\ heard = 0 /\ skipped = {} /\ sent = {} /\ moved = {}
  /\ fatal = "none" /\ faults = 0

Fault == faults < MaxFaults /\ faults' = faults + 1

-----------------------------------------------------------------------------
(* The chain.                                                              *)

chainFrame == <<wallet, proof, setup, busy, heard, skipped, sent, fatal>>

\* A block with any of the waiting transactions.
NewBlock ==
  /\ height < MaxHeight /\ height' = height + 1
  /\ \E S \in SUBSET Bonds :
       /\ \A b \in S : made[b].status = "mempool"
       /\ made' = [b \in Bonds |-> IF b \in S THEN [made[b] EXCEPT !.status = "mined", !.at = height + 1]
                                   ELSE made[b]]
  /\ UNCHANGED <<chainFrame, owned, moved, faults>>

\* The mempool drops an unconfirmed bond.
Evict(b) ==
  /\ Fault /\ made[b].status = "mempool" /\ made' = [made EXCEPT ![b].status = "evicted"]
  /\ UNCHANGED <<chainFrame, height, owned, moved>>

\* The tip is replaced by a block without the bond.
Reorg(b) ==
  /\ Fault /\ made[b].status = "mined" /\ made[b].at = height /\ made[b].out = "unspent"
  /\ made' = [made EXCEPT ![b].status = "mempool"] /\ moved' = moved \cup {b}
  /\ UNCHANGED <<chainFrame, height, owned>>

\* The mempool drops the redemption of a bond, which pays the lowest fee.
DropRedeem(b) ==
  /\ Fault /\ made[b].out = "redeemed" /\ made[b].coin \notin Taken
  /\ made' = [made EXCEPT ![b].out = "unspent"] /\ moved' = moved \cup {b}
  /\ UNCHANGED <<chainFrame, height, owned>>

\* The operator sends the coin the log asks for.
Deposit ==
  /\ pc \in {"sync", "create"} /\ 1..owned \subseteq Taken
  /\ owned < NCoins /\ owned' = owned + 1
  /\ UNCHANGED <<chainFrame, height, made, moved, faults>>

-----------------------------------------------------------------------------
(* The wallet.                                                             *)

\* sync_and_save: retried until it succeeds, then the whole store is written.
SyncAndSave ==
  /\ cache' = Unspent /\ sent' = {} /\ disk' = bonds /\ UNCHANGED bonds

\* calculate_bond_value fails for a bond without a height and for an expired one.
Valued == {i \in 1..Len(bonds) :
             ~bonds[i].spent /\ bonds[i].conf # 0 /\ ~Expired(bonds[i].bond)}

\* Mutant: a bond that is not confirmed is not looked for.
NoPending == {}

\* The snapshot of finalize_pending_fidelity_bonds, and the bond it is at.
Pending == {i \in 1..Len(bonds) : ~bonds[i].spent /\ bonds[i].conf = 0}
Current(i) == i \in queue /\ \A j \in queue : i <= j

\* get_highest_fidelity_index: the value grows with the locked period; the last wins a tie.
Period(i) == made[bonds[i].bond].lock - bonds[i].conf
Highest(i) ==
  i \in Valued /\ \A j \in Valued \ {i} :
    Period(i) > Period(j) \/ (Period(i) = Period(j) /\ i > j)

Proof(i) == [bond |-> bonds[i].bond, conf |-> bonds[i].conf]

\* Mutant: the raw transaction stays in the wallet.
ConfirmedKeepsRaw(i) ==
  /\ bonds' = [bonds EXCEPT ![i].conf = made[bonds[i].bond].at]
  /\ disk' = bonds' /\ UNCHANGED cache

\* update_fidelity_bond_conf_details: the height is stored and the raw transaction dropped,
\* and the wallet saved.
Confirmed(i) ==
  /\ bonds' = [bonds EXCEPT ![i].conf = made[bonds[i].bond].at, ![i].raw = FALSE]
  /\ disk' = bonds' /\ UNCHANGED cache

-----------------------------------------------------------------------------
(* setup_fidelity_bond, called by start_server and by the renewal loop.    *)

\* init loads the wallet file and syncs; start_server goes to the setup of the bond.
Start ==
  /\ pc = "down" /\ bonds' = disk
  /\ cache' = {b \in Bonds : Live(b) /\ made[b].out = "unspent"
                             /\ \E i \in 1..Len(disk) : disk[i].bond = b}
  /\ sent' = {} /\ pc' = "begin" /\ startup' = TRUE
  /\ UNCHANGED <<chain, disk, proof, queue, target, busy, heard, skipped, moved, fatal, faults>>

BeginSetup ==
  /\ pc = "begin" /\ pc' = "finalize" /\ queue' = Pending /\ fatal' = "none"
  /\ UNCHANGED <<chain, wallet, proof, startup, target, busy, heard, skipped, sent, moved,
                 faults>>

\* An error of setup_fidelity_bond: start_server returns it and the process ends; the
\* renewal loop logs it and comes back at its next tick.
SetupFails(why) ==
  /\ fatal' = why /\ queue' = {} /\ target' = 0
  /\ IF startup THEN /\ pc' = "down" /\ bonds' = <<>> /\ cache' = {}
                     /\ proof' = [bond |-> 0, conf |-> 0] /\ busy' = FALSE /\ heard' = 0
     ELSE pc' = "serving" /\ UNCHANGED <<bonds, cache, proof, busy, heard>>
  /\ UNCHANGED <<disk, startup>>

\* ensure_fidelity_bond_broadcast: a bond the node does not know is sent again, as stored.
Rebroadcast ==
  /\ pc = "finalize"
  /\ \E i \in queue : LET b == bonds[i].bond IN
       /\ Current(i)
       /\ \/ /\ Live(b) /\ pc' = "await"
             /\ UNCHANGED <<made, sent, wallet, proof, startup, queue, target, busy, heard, fatal>>
          \/ /\ ~Live(b) /\ bonds[i].raw /\ made[b].coin \notin Taken
             /\ made' = [made EXCEPT ![b].status = "mempool"] /\ sent' = sent \cup {b} /\ pc' = "await"
             /\ UNCHANGED <<wallet, proof, startup, queue, target, busy, heard, fatal>>
          \* The node refuses it: another bond has spent its coin.
          \/ /\ ~Live(b) /\ bonds[i].raw /\ made[b].coin \in Taken
             /\ SetupFails("conflict") /\ UNCHANGED <<made, sent>>
  /\ UNCHANGED <<height, owned, skipped, moved, faults>>

\* The wait on a connection of its own: until one confirmation, or a deadline.
FinalizeConfirmed ==
  /\ pc = "await" /\ pc' = "finalize"
  /\ \E i \in queue :
       /\ Current(i) /\ made[bonds[i].bond].status = "mined"
       /\ Confirmed(i) /\ queue' = queue \ {i}
  /\ UNCHANGED <<chain, proof, startup, target, busy, heard, ghosts, faults>>

\* The deadline comes for a transaction the network dropped or the chain is full for.
Overdue(b) ==
  /\ made[b].status # "mined"
  /\ IF Live(b) /\ height < MaxHeight THEN Fault ELSE UNCHANGED faults

FinalizeTimesOut ==
  /\ pc = "await" /\ pc' = "finalize"
  /\ \E i \in queue :
       /\ Current(i) /\ Overdue(bonds[i].bond)
       /\ skipped' = skipped \cup {bonds[i].bond} /\ queue' = queue \ {i}
  /\ UNCHANGED <<chain, wallet, proof, startup, target, busy, heard, sent, moved, fatal>>

\* The best bond there is: its proof is what GetOffer serves from now on.
UseHighest ==
  /\ pc = "finalize" /\ queue = {}
  /\ \E i \in Valued : Highest(i) /\ proof' = Proof(i)
  /\ pc' = IF startup THEN "liquidity" ELSE "serving"
  /\ UNCHANGED <<chain, wallet, startup, queue, target, busy, heard, ghosts, faults>>

\* The proof's lock is taken, for all of the creation; the locktime is counted from now.
BeginCreate ==
  /\ pc = "finalize" /\ queue = {} /\ Valued = {}
  /\ target' = height + Timelock /\ pc' = "sync"
  /\ UNCHANGED <<chain, wallet, proof, startup, queue, busy, heard, ghosts, faults>>

CreateSync ==
  /\ pc = "sync" /\ SyncAndSave /\ pc' = "create"
  /\ UNCHANGED <<chain, proof, startup, queue, target, busy, heard, skipped, moved, fatal, faults>>

\* create_fidelity: select a coin, sign and send.  Without funds: sync again, later.
Create ==
  /\ pc = "create"
  /\ \/ /\ 1..owned \subseteq Taken /\ pc' = "sync" /\ UNCHANGED <<made, sent>>
     \/ /\ Len(made) < MaxBonds
        /\ \E c \in (1..owned) \ Taken :
             made' = Append(made, [coin |-> c, lock |-> target, status |-> "mempool",
                                   at |-> 0, out |-> "unspent"])
        /\ sent' = sent \cup {Len(made) + 1} /\ pc' = "register"
  /\ UNCHANGED <<height, owned, wallet, proof, startup, queue, target, busy, heard, skipped,
                 moved, fatal, faults>>

\* The bond is stored once it is sent, and the wallet saved.
Register ==
  /\ pc = "register" /\ pc' = "confirm"
  /\ bonds' = Append(bonds, [bond |-> Len(made), conf |-> 0, spent |-> FALSE, raw |-> TRUE])
  /\ disk' = bonds'
  /\ UNCHANGED <<chain, cache, proof, startup, queue, target, busy, heard, ghosts, faults>>

\* Mutant: the tip is stored as the height of the bond.
ConfirmedAtTip ==
  /\ pc = "confirm" /\ made[bonds[Len(bonds)].bond].status = "mined"
  /\ bonds' = [bonds EXCEPT ![Len(bonds)].conf = height, ![Len(bonds)].raw = FALSE]
  /\ disk' = bonds'
  /\ proof' = [bond |-> bonds'[Len(bonds)].bond, conf |-> bonds'[Len(bonds)].conf]
  /\ cache' = Unspent /\ sent' = {} /\ target' = 0
  /\ pc' = IF startup THEN "liquidity" ELSE "serving"
  /\ UNCHANGED <<chain, startup, queue, busy, heard, skipped, moved, fatal, faults>>

\* wait_for_tx_confirmation, holding the wallet's read guard; then the proof, then a sync.
CreateConfirmed ==
  /\ pc = "confirm" /\ made[bonds[Len(bonds)].bond].status = "mined"
  /\ bonds' = [bonds EXCEPT ![Len(bonds)].conf = made[bonds[Len(bonds)].bond].at,
                            ![Len(bonds)].raw = FALSE]
  /\ disk' = bonds'
  /\ proof' = [bond |-> bonds'[Len(bonds)].bond, conf |-> bonds'[Len(bonds)].conf]
  /\ cache' = Unspent /\ sent' = {} /\ target' = 0
  /\ pc' = IF startup THEN "liquidity" ELSE "serving"
  /\ UNCHANGED <<chain, startup, queue, busy, heard, skipped, moved, fatal, faults>>

\* Mutant: the wait has no deadline.
WaitsForEver == FALSE /\ UNCHANGED vars

\* The deadline of the wait, or the window of a vanished transaction.
CreateTimesOut ==
  /\ pc = "confirm" /\ Overdue(bonds[Len(bonds)].bond)
  /\ skipped' = skipped \cup {bonds[Len(bonds)].bond}
  /\ SetupFails("timeout")
  /\ UNCHANGED <<chain, sent, moved>>

\* Any other error of the backend.
BackendFails ==
  /\ pc \in {"finalize", "await", "create", "confirm"} /\ Fault /\ SetupFails("backend")
  /\ UNCHANGED <<chain, skipped, sent, moved>>

\* check_swap_liquidity syncs until there is enough to swap; then the server listens.
Liquidity ==
  /\ pc = "liquidity" /\ SyncAndSave /\ pc' = "serving" /\ startup' = FALSE
  /\ UNCHANGED <<chain, proof, queue, target, busy, heard, skipped, moved, fatal, faults>>

-----------------------------------------------------------------------------
(* The server's threads.                                                   *)

ProofLocked == pc \in {"sync", "create", "register", "confirm"}
Listening == Up /\ ~startup

\* Mutant: the nostr thread announces the first proof it reads, again and again.
AnnounceFirst ==
  /\ Listening \/ pc = "liquidity"
  /\ ~ProofLocked /\ heard = 0 /\ heard' = proof.bond
  /\ UNCHANGED <<chain, wallet, proof, setup, busy, ghosts, faults>>

\* The nostr thread, spawned after the setup, reads the proof anew for each announcement.
Announce ==
  /\ Listening \/ pc = "liquidity"
  /\ ~ProofLocked /\ heard' = proof.bond /\ heard' # heard
  /\ UNCHANGED <<chain, wallet, proof, setup, busy, ghosts, faults>>

SwapStarts ==
  /\ Listening /\ ~busy /\ busy' = TRUE
  /\ UNCHANGED <<chain, wallet, proof, setup, heard, ghosts, faults>>

\* A swap writes to the wallet and syncs it, which waits for the guards of create_fidelity and
\* of the wait for its confirmation.
WalletLocked == pc \in {"register", "confirm"}

SwapEnds ==
  /\ Listening /\ busy /\ ~WalletLocked /\ busy' = FALSE /\ SyncAndSave
  /\ UNCHANGED <<chain, proof, setup, heard, skipped, moved, fatal, faults>>

\* redeem_fidelity of bond i: a bond that is not among the wallet's outputs is taken to be
\* redeemed already.
Redeemable == {i \in 1..Len(bonds) : ~bonds[i].spent /\ Expired(bonds[i].bond)}

\* Mutant: the bond is marked and nothing is sent.
MarkExpired(S) ==
  /\ bonds' = [i \in 1..Len(bonds) |-> IF i \in S THEN [bonds[i] EXCEPT !.spent = TRUE] ELSE bonds[i]]
  /\ UNCHANGED made

RedeemFidelity(S) ==
  /\ bonds' = [i \in 1..Len(bonds) |-> IF i \in S THEN [bonds[i] EXCEPT !.spent = TRUE] ELSE bonds[i]]
  /\ made' = [b \in Bonds |-> IF b \in cache /\ \E i \in S : bonds[i].bond = b
                              THEN [made[b] EXCEPT !.out = "redeemed"] ELSE made[b]]

\* Mutant: a tick sets up a bond and redeems none.
RenewOnly ==
  /\ pc = "serving" /\ ~busy /\ pc' = "begin"
  /\ UNCHANGED <<chain, wallet, proof, startup, queue, target, busy, heard, ghosts, faults>>

\* A tick of fidelity_renewal_loop with no swap under way.  Nothing is saved here.
RenewalTick ==
  /\ pc = "serving" /\ ~busy
  /\ RedeemFidelity(Redeemable)
  /\ pc' = "begin"
  /\ UNCHANGED <<height, owned, disk, cache, proof, startup, queue, target, busy, heard,
                 ghosts, faults>>

\* A transaction of the redemption is refused: the bonds before it are redeemed, the tick ends.
RedeemFails ==
  /\ pc = "serving" /\ ~busy /\ Fault
  /\ \E i \in Redeemable :
       /\ bonds[i].bond \in cache /\ RedeemFidelity({j \in Redeemable : j < i})
  /\ UNCHANGED <<height, owned, disk, cache, proof, setup, busy, heard, ghosts>>

Down ==
  /\ pc' = "down" /\ startup' = TRUE /\ queue' = {} /\ target' = 0
  /\ bonds' = <<>> /\ cache' = {} /\ proof' = [bond |-> 0, conf |-> 0]
  /\ busy' = FALSE /\ heard' = 0 /\ UNCHANGED <<chain, ghosts>>

\* Shutdown joins the threads and saves the wallet.
Stop == Listening /\ pc # "register" /\ Fault /\ Down /\ disk' = bonds

Crash == Up /\ Fault /\ Down /\ UNCHANGED disk

-----------------------------------------------------------------------------
Network == NewBlock \/ Deposit \/ \E b \in Bonds : Evict(b) \/ Reorg(b) \/ DropRedeem(b)
Setup ==
  \/ Start \/ BeginSetup \/ Rebroadcast \/ FinalizeConfirmed \/ UseHighest
  \/ BeginCreate \/ CreateSync \/ Create \/ Register \/ CreateConfirmed \/ Liquidity
Threads == Announce \/ SwapStarts \/ SwapEnds \/ RenewalTick \/ RedeemFails
Errors == FinalizeTimesOut \/ CreateTimesOut \/ BackendFails \/ Stop \/ Crash

Next == Network \/ Setup \/ Threads \/ Errors

\* The threads are scheduled, blocks come, a wait meets its deadline, the operator restarts
\* the server and funds it, and a tick of the renewal loop finds no swap again and again.
Fairness ==
  /\ WF_vars(Setup) /\ WF_vars(FinalizeTimesOut) /\ WF_vars(CreateTimesOut)
  /\ WF_vars(NewBlock) /\ WF_vars(Deposit)
  /\ WF_vars(Announce) /\ SF_vars(SwapEnds) /\ SF_vars(RenewalTick)

Spec == Init /\ [][Next]_vars /\ Fairness

-----------------------------------------------------------------------------
Statuses == {"mempool", "mined", "evicted"}
Txs == [coin : 1..NCoins, lock : Nat, status : Statuses, at : 0..MaxHeight,
        out : {"unspent", "redeemed"}]
Entries == [bond : 1..MaxBonds, conf : 0..MaxHeight, spent : BOOLEAN, raw : BOOLEAN]

\* The types; and a bond of the wallet keeps its raw transaction exactly until its height is
\* stored (update_fidelity_bond_conf_details): that is what a lost bond is sent again from.
TypeOK ==
  /\ height \in 0..MaxHeight /\ owned \in 0..NCoins /\ made \in Seq(Txs)
  /\ bonds \in Seq(Entries) /\ disk \in Seq(Entries) /\ cache \subseteq Bonds
  /\ \A i \in 1..Len(bonds) : bonds[i].raw <=> bonds[i].conf = 0
  /\ proof \in [bond : 0..Len(made), conf : 0..MaxHeight]
  /\ pc \in {"down", "begin", "finalize", "await", "sync", "create", "register", "confirm",
             "liquidity", "serving"}
  /\ startup \in BOOLEAN /\ queue \subseteq 1..Len(bonds) /\ target \in Nat /\ busy \in BOOLEAN
  /\ heard \in 0..Len(made) /\ skipped \subseteq Bonds /\ sent \subseteq Bonds
  /\ moved \subseteq Bonds /\ fatal \in {"none", "conflict", "timeout", "backend"}
  /\ faults \in 0..MaxFaults

Locked(b) == Live(b) /\ made[b].out = "unspent" /\ ~Expired(b)
Known(b) == \E i \in 1..Len(disk) : disk[i].bond = b

\* The maker's funds are locked in one bond at a time, across restarts, evictions and errors;
\* unless a wait for one was given up or a crash came before one was stored.
NoSecondLock ==
  \A b, c \in Bonds : b < c /\ Locked(b) /\ Locked(c) =>
    b \in skipped \/ ~Known(b)

\* verify_fidelity_checks of a taker, on the height the chain has for the bond.
VerifyChecks(p) ==
  /\ made[p.bond].status = "mined" /\ p.conf = made[p.bond].at
  /\ made[p.bond].lock - p.conf \in MinLock..MaxLock
  /\ height <= made[p.bond].lock

\* What GetOffer serves passes the taker's checks; unless the bond has expired and awaits
\* its renewal, was moved by a reorganisation, or confirmed so long after its locktime was
\* counted that the period left is below the minimum.
ServedVerifies ==
  pc \in {"liquidity", "serving"} =>
    LET b == proof.bond IN
    /\ b # 0
    /\ \/ VerifyChecks(proof) \/ Expired(b) \/ b \in moved
       \/ made[b].at - (made[b].lock - Timelock) > Timelock - MinLock

\* redeem_fidelity marks a bond as spent only when it sends the redemption; unless the network
\* took the bond or an earlier redemption back, or the wallet has not synced since the bond was
\* sent: a bond that is not among the wallet's outputs is taken to be redeemed.
MarkedIsRedeemed ==
  [][\A i \in 1..Len(bonds) :
       LET b == bonds[i].bond IN
       ~bonds[i].spent /\ i \in 1..Len(bonds') /\ bonds'[i].spent
         => made'[b].out = "redeemed" \/ b \in moved \cup sent \/ ~Live(b)]_vars

\* "Losing the bond must not take the maker down": no pending bond that the network lost makes
\* setup_fidelity_bond fail.
LostBondSkipped == fatal # "conflict"

\* The bounds end a behaviour: no bond can be made any more, or none can confirm.
AtBound ==
  \/ pc \in {"sync", "create"} /\ (Len(made) = MaxBonds \/ (owned = NCoins /\ 1..owned \subseteq Taken))
  \/ height = MaxHeight /\ fatal = "timeout"
Unmarked(b) == \E i \in 1..Len(disk) :
                 disk[i].bond = b /\ ~disk[i].spent /\ (Up => ~bonds[i].spent)
Due(b) == /\ made[b].status = "mined" /\ made[b].out = "unspent" /\ Expired(b)
          /\ Unmarked(b) /\ b \notin moved

\* An expired bond is redeemed in the end (fidelity_renewal_loop), through restarts, errors and
\* renewals, and the maker gets its coin back; unless setup fails for good, or the bond is one
\* of those that MarkedIsRedeemed lets redeem_fidelity mark without sending anything.
ExpiredRedeemed ==
  (\E b \in Bonds : Due(b)) ~> (~(\E b \in Bonds : Due(b)) \/ fatal = "conflict" \/ AtBound)

\* A swap under way gets to write to the wallet, which the wait for a bond holds.
SwapWrites == busy ~> ~busy

\* A new bond is announced: the nostr thread reads the proof anew for each broadcast, and the
\* creation of a bond, which locks the proof, ends.
Announced ==
  (proof.bond # heard) ~> (proof.bond = heard \/ ~Up \/ AtBound)
=============================================================================
