----------------------------- MODULE AtomicSwap -----------------------------
(***************************************************************************)
(* What a coin swap promises one party, whatever the protocol and whoever  *)
(* fails: coins are locked in outgoing contracts, an incoming contract is  *)
(* offered in exchange, and the power over the outgoing contracts is given *)
(* away only against an incoming contract the party holds.                 *)
(***************************************************************************)
CONSTANT Coins   \* the outgoing contracts the party may ever create

VARIABLES
  out,     \* of each outgoing contract: none, locked, returned, paid
  inc,     \* the incoming contract: none, offered, claimed, withdrawn
  ceded    \* the outgoing contracts the counterparty has the means to take

vars == <<out, inc, ceded>>

Init ==
  /\ out = [c \in Coins |-> "none"]
  /\ inc = "none"
  /\ ceded = {}

\* Coins go into outgoing contracts.
Lock(S) ==
  /\ \A c \in S : out[c] = "none"
  /\ out' = [c \in Coins |-> IF c \in S THEN "locked" ELSE out[c]]
  /\ UNCHANGED <<inc, ceded>>

\* The counterparty funds the incoming contract.
Offer ==
  /\ inc = "none" /\ \E c \in Coins : out[c] # "none"
  /\ inc' = "offered"
  /\ UNCHANGED <<out, ceded>>

\* The party gives the means to take some contracts away: an incoming contract backs it.
Cede(S) ==
  /\ inc # "none"
  /\ ceded' = ceded \cup S
  /\ UNCHANGED <<out, inc>>

\* The counterparty takes a contract it was given the means to take.
Pay(c) ==
  /\ out[c] = "locked" /\ c \in ceded
  /\ out' = [out EXCEPT ![c] = "paid"]
  /\ UNCHANGED <<inc, ceded>>

\* The party takes coins back after their timelocks.
Return(S) ==
  /\ \A c \in S : out[c] = "locked"
  /\ out' = [c \in Coins |-> IF c \in S THEN "returned" ELSE out[c]]
  /\ UNCHANGED <<inc, ceded>>

\* Claiming the incoming contract publishes the preimage that opens every outgoing one,
\* unless the counterparty has handed over its key.  Startup recovery refunds in the
\* same step.
Claim(S, R) ==
  /\ inc = "offered" /\ inc' = "claimed"
  /\ ceded' = ceded \cup S
  /\ \A c \in R : out[c] = "locked"
  /\ out' = [c \in Coins |-> IF c \in R THEN "returned" ELSE out[c]]

\* The counterparty takes the incoming contract back after its timelock.
Withdraw ==
  /\ inc = "offered" /\ inc' = "withdrawn"
  /\ UNCHANGED <<out, ceded>>

Next ==
  \/ \E S \in SUBSET Coins : Lock(S) \/ Cede(S) \/ Return(S)
  \/ \E S, R \in SUBSET Coins : Claim(S, R)
  \/ \E c \in Coins : Pay(c)
  \/ Offer \/ Withdraw

Spec == Init /\ [][Next]_vars
=============================================================================
