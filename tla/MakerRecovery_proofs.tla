------------------------ MODULE MakerRecovery_proofs ------------------------
(***************************************************************************)
(* Proofs about MakerRecovery, for all timelocks and bounds that satisfy   *)
(* MarginAssumption.  The inductive invariant bounds the height at which   *)
(* each stage of the race between the two contracts can still be open.     *)
(***************************************************************************)
EXTENDS MakerRecovery, TLAPS

Spent == outgoing \in {"claimed", "refunded"}

\* Blocks past TIn - Reaction at which the outgoing contract can first be live with
\* no spend pending at the start of a pass, and at which a claim can confirm.
First == IF Lag + 1 >= Delay THEN Lag + 1 ELSE Delay
ClaimBy == First + Lag + Delay

\* What the wallet file and the thread's position say about the two contracts.
Bookkeeping ==
  /\ inCoin = "plain" => "sweep" \notin inPool /\ incoming # "swept"
  /\ inCoin = "absent" => incoming = "swept"
  /\ inCoin # "plain" => Spent \/ "claim" \in outPool
  /\ ~outCoin => Spent \/ "claim" \in outPool
  /\ pc = "cleanup" => inCoin = "absent"
  /\ pc = "waitSweep" => inCoin = "preimage" /\ (incoming = "live" => "sweep" \in inPool)
  /\ pc = "waitRefund" => Spent \/ "refund" \in outPool
  /\ pc = "done" => ~outCoin
  /\ pc # "dead"

\* How long the outgoing contract can stay unspent.
OutgoingTiming ==
  /\ pc = "idle" => height + Reaction <= TIn + 1 + lag
  /\ outgoing = "pending" => outPool = {} /\ height + Reaction <= TIn + outAge
  /\ outgoing = "live" /\ outPool = {} => height + Reaction <= TIn + First + lag
  /\ outgoing = "live" /\ outPool # {} => height + Reaction <= TIn + First + Lag + outAge

\* How long the incoming contract can stay unswept when the outgoing one has not
\* been refunded.
IncomingTiming ==
  outgoing # "refunded" =>
    /\ "refund" \notin inPool /\ incoming # "lost"
    /\ pc \in {"timelock", "waitRefund"} /\ incoming = "live" => inCoin = "plain"
    /\ pc = "done" => incoming # "live"
    /\ incoming = "live" /\ "sweep" \in inPool
         => height + Reaction <= TIn + ClaimBy + 2 * Lag + inAge
    /\ incoming = "live" /\ "sweep" \notin inPool =>
         /\ pc \in {"hashlock", "timelock", "waitRefund"} /\ inCoin = "plain"
              => height + Reaction <= TIn + ClaimBy + lag
         /\ pc \in {"check", "hashlock"} => height + Reaction <= TIn + ClaimBy + Lag + lag

IInv == TypeOK /\ (stopped = {} => Bookkeeping /\ OutgoingTiming /\ IncomingTiming)

-----------------------------------------------------------------------------

\* The initial state satisfies the invariant.
LEMMA InitIInv == Init => IInv
<1> SUFFICES ASSUME Init PROVE IInv
  OBVIOUS
<1>1. TypeOK
  <2>1. outCoin \in BOOLEAN /\ stopped = {}
    BY DEF Init
  <2>. QED
    BY <2>1, SizesAssumption DEF Init, TypeOK, Steps, TIn
<1>2. Bookkeeping
  BY DEF Init, Bookkeeping, Spent
<1>3. OutgoingTiming
  BY SizesAssumption DEF Init, OutgoingTiming, PastDeadline, TIn
<1>4. IncomingTiming
  BY DEF Init, IncomingTiming
<1>. QED
  BY <1>1, <1>2, <1>3, <1>4 DEF IInv

\* What a block does to the outgoing contract.
LEMMA BlockOutgoing ==
  ASSUME TypeOK, NewBlock
  PROVE  /\ outgoing = "pending" => \/ outgoing' = "pending" /\ outAge' = outAge + 1
                                    \/ outgoing' = "live" /\ outAge' = 0
         /\ outgoing = "live" /\ outPool = {} => outgoing' = "live"
         /\ outgoing = "live" /\ outPool # {} =>
              \/ outgoing' = "live" /\ outAge' = outAge + 1
              \/ outgoing' = "claimed" /\ "claim" \in outPool
              \/ outgoing' = "refunded" /\ "refund" \in outPool
         /\ outgoing = "claimed" => outgoing' = "claimed"
         /\ outgoing = "refunded" => outgoing' = "refunded"
         /\ outAge' \in 0..(Delay - 1)
         /\ outPool' = IF outgoing' = "live" THEN outPool ELSE {}
<1>1. outAge \in 0..(Delay - 1) /\ outAge \in Nat /\ Delay \in Nat \ {0}
  BY SizesAssumption DEF TypeOK
<1>2. CASE outgoing = "pending"
  <2>1. OutNext = {"live"}
    BY <1>2 DEF OutNext
  <2>. QED
    BY <1>1, <1>2, <2>1 DEF NewBlock, Stays
<1>3. CASE outgoing = "live"
  <2>1. OutNext = {r \in {"claimed", "refunded"} :
                     (IF r = "claimed" THEN "claim" ELSE "refund") \in outPool}
    BY <1>3 DEF OutNext
  <2>2. OutNext = {} <=> outPool = {}
    BY <2>1 DEF TypeOK
  <2>. QED
    BY <1>1, <1>3, <2>1, <2>2 DEF NewBlock, Stays
<1>4. CASE Spent
  <2>1. OutNext = {}
    BY <1>4 DEF OutNext, Spent
  <2>. QED
    BY <1>1, <1>4, <2>1 DEF NewBlock, Stays, Spent
<1>. QED
  BY <1>2, <1>3, <1>4 DEF TypeOK, Spent

\* What a block does to the incoming contract.
LEMMA BlockIncoming ==
  ASSUME TypeOK, NewBlock
  PROVE  /\ incoming = "live" /\ inPool = {} => incoming' = "live"
         /\ incoming = "live" /\ inPool # {} =>
              \/ incoming' = "live" /\ inAge' = inAge + 1
              \/ incoming' = "swept" /\ "sweep" \in inPool
              \/ incoming' = "lost" /\ "refund" \in inPool
         /\ incoming = "swept" => incoming' = "swept"
         /\ incoming = "lost" => incoming' = "lost"
         /\ inAge' \in 0..(Delay - 1)
         /\ inPool' = IF incoming' = "live" THEN inPool ELSE {}
<1>1. inAge \in 0..(Delay - 1) /\ inAge \in Nat /\ Delay \in Nat \ {0}
  BY SizesAssumption DEF TypeOK
<1>2. CASE incoming = "live"
  <2>1. InNext = {r \in {"swept", "lost"} :
                    (IF r = "swept" THEN "sweep" ELSE "refund") \in inPool}
    BY <1>2 DEF InNext
  <2>2. InNext = {} <=> inPool = {}
    BY <2>1 DEF TypeOK
  <2>. QED
    BY <1>1, <1>2, <2>1, <2>2 DEF NewBlock, Stays
<1>3. CASE incoming # "live"
  <2>1. InNext = {}
    BY <1>3 DEF InNext
  <2>. QED
    BY <1>1, <1>3, <2>1 DEF NewBlock, Stays, TypeOK
<1>. QED
  BY <1>2, <1>3

\* Every step keeps the variables in their types.
LEMMA StepTypeOK == TypeOK /\ [Next]_vars => TypeOK'
<1> SUFFICES ASSUME TypeOK, [Next]_vars PROVE TypeOK'
  OBVIOUS
<1> USE SizesAssumption
<1>1. CASE NewBlock
  <2>1. outgoing' \in {"pending", "live", "claimed", "refunded"}
    BY <1>1, BlockOutgoing DEF TypeOK
  <2>2. incoming' \in {"live", "swept", "lost"}
    BY <1>1, BlockIncoming DEF TypeOK
  <2>3. outAge' \in 0..(Delay - 1) /\ inAge' \in 0..(Delay - 1)
    BY <1>1, BlockOutgoing, BlockIncoming
  <2>4. height' \in Nat /\ lag' \in 0..Lag
    BY <1>1 DEF NewBlock, TypeOK
  <2>5. /\ outPool' \subseteq {"claim", "refund"} /\ inPool' \subseteq {"sweep", "refund"}
        /\ outgoing' = "pending" => outPool' = {}
    BY <1>1 DEF NewBlock, TypeOK
  <2>6. pc' \in Steps /\ outCoin' \in BOOLEAN /\ stopped' \subseteq {"wait", "backend", "restart"}
        /\ inCoin' \in {"plain", "preimage", "absent"}
    BY <1>1 DEF NewBlock, TypeOK, disk
  <2>. QED
    BY <2>1, <2>2, <2>3, <2>4, <2>5, <2>6 DEF TypeOK
<1>2. CASE Claim \/ UpstreamRefund
  BY <1>2 DEF TypeOK, Claim, UpstreamRefund, disk
<1>3. CASE StartRecovery
  BY <1>3 DEF TypeOK, StartRecovery, Goto, Steps, chain, disk
<1>4. CASE CheckForPreimage
  BY <1>4 DEF TypeOK, CheckForPreimage, Goto, Steps, chain, disk
<1>5. CASE Sweep
  BY <1>5 DEF TypeOK, Sweep, Goto, Steps, chain, disk
<1>6. CASE SkipSweep
  BY <1>6 DEF TypeOK, SkipSweep, Goto, Steps, chain, disk
<1>7. CASE SweepConfirmed
  BY <1>7 DEF TypeOK, SweepConfirmed, Goto, Steps, chain, disk
<1>8. CASE CleanUp
  BY <1>8 DEF TypeOK, CleanUp, Goto, Steps, chain, disk
<1>9. CASE TimelockIdle
  BY <1>9 DEF TypeOK, TimelockIdle, Goto, Steps, chain, disk
<1>10. CASE Refund
  BY <1>10 DEF TypeOK, Refund, Goto, Steps, chain, disk
<1>11. CASE Discard
  <2>1. pc' \in {"done", "check"} /\ outCoin' \in BOOLEAN
    BY <1>11 DEF Discard, Conclude, Goto
  <2>. QED
    BY <1>11, <2>1 DEF TypeOK, Discard, Steps, chain
<1>12. CASE RefundConfirmed
  <2>1. pc' \in {"done", "check"} /\ outCoin' \in BOOLEAN
    BY <1>12 DEF RefundConfirmed, Conclude, Goto
  <2>. QED
    BY <1>12, <2>1 DEF TypeOK, RefundConfirmed, Steps, chain
<1>13. CASE WaitFails \/ BackendFails
  BY <1>13 DEF TypeOK, WaitFails, BackendFails, Goto, Steps, chain, disk
<1>14. CASE Reboot
  BY <1>14 DEF TypeOK, Reboot, Goto, Steps, chain, disk
<1>15. CASE UNCHANGED vars
  BY <1>15 DEF TypeOK, vars, chain, disk
<1>. QED
  BY <1>1, <1>2, <1>3, <1>4, <1>5, <1>6, <1>7, <1>8, <1>9, <1>10, <1>11, <1>12, <1>13, <1>14,
     <1>15
     DEF Next, Thread

\* A thread that has not stopped had not stopped before, and Reboot found what it needs.
LEMMA StillRunning ==
  ASSUME IInv, [Next]_vars, stopped' = {}
  PROVE  stopped = {} /\ Bookkeeping /\ OutgoingTiming /\ IncomingTiming
<1>1. stopped = {}
  BY DEF IInv, TypeOK, Next, Thread, vars, Claim, UpstreamRefund, NewBlock, StartRecovery,
     CheckForPreimage, Sweep, SkipSweep, SweepConfirmed, CleanUp, TimelockIdle, Refund,
     Discard, RefundConfirmed, WaitFails, BackendFails, Reboot
<1>. QED
  BY <1>1 DEF IInv

\* Every step of a running thread keeps the bookkeeping facts.
LEMMA StepBookkeeping == IInv /\ [Next]_vars /\ stopped' = {} => Bookkeeping'
<1> SUFFICES ASSUME IInv, [Next]_vars, stopped' = {} PROVE Bookkeeping'
  OBVIOUS
<1>a. TypeOK /\ stopped = {} /\ Bookkeeping /\ OutgoingTiming /\ IncomingTiming
  BY StillRunning DEF IInv
<1>b. TypeOK'
  BY StepTypeOK DEF IInv
<1>1. CASE Claim
  BY <1>a, <1>1 DEF TypeOK, Claim, Bookkeeping, Spent, Goto, chain, disk
<1>2. CASE UpstreamRefund
  BY <1>a, <1>2 DEF TypeOK, UpstreamRefund, Bookkeeping, Spent, Goto, chain, disk
<1>3. CASE NewBlock
  BY <1>a, <1>3, BlockOutgoing, BlockIncoming DEF TypeOK, NewBlock, Bookkeeping,
     OutgoingTiming, Spent, disk
<1>4. CASE StartRecovery
  BY <1>a, <1>4 DEF TypeOK, StartRecovery, Bookkeeping, Spent, Goto, chain, disk
<1>5. CASE CheckForPreimage
  BY <1>a, <1>5 DEF TypeOK, CheckForPreimage, Bookkeeping, Spent, Goto, chain, disk
<1>6. CASE Sweep
  BY <1>a, <1>6 DEF TypeOK, Sweep, Bookkeeping, Spent, Goto, chain, disk
<1>7. CASE SkipSweep
  BY <1>a, <1>7 DEF TypeOK, SkipSweep, Bookkeeping, Spent, Goto, chain, disk
<1>8. CASE SweepConfirmed
  BY <1>a, <1>8 DEF TypeOK, SweepConfirmed, Bookkeeping, Spent, Goto, chain, disk
<1>9. CASE CleanUp
  BY <1>a, <1>9 DEF TypeOK, CleanUp, Bookkeeping, Spent, Goto, chain, disk
<1>10. CASE TimelockIdle
  BY <1>a, <1>10 DEF TypeOK, TimelockIdle, Bookkeeping, Spent, Goto, chain, disk
<1>11. CASE Refund
  BY <1>a, <1>11 DEF TypeOK, Refund, Bookkeeping, Spent, Goto, chain, disk
<1>12. CASE Discard
  <2>1. pc' \in {"done", "check"} /\ ~outCoin' /\ UNCHANGED <<chain, inCoin>> /\ Spent
    BY <1>12 DEF Discard, Conclude, Goto, Spent
  <2>. QED
    BY <1>a, <2>1 DEF TypeOK, Bookkeeping, Spent, chain
<1>13. CASE RefundConfirmed
  <2>1. pc' \in {"done", "check"} /\ ~outCoin' /\ UNCHANGED <<chain, inCoin>> /\ Spent
    BY <1>13 DEF RefundConfirmed, Conclude, Goto, Spent
  <2>. QED
    BY <1>a, <2>1 DEF TypeOK, Bookkeeping, Spent, chain
<1>14. CASE Reboot
  BY <1>a, <1>14 DEF TypeOK, Reboot, Bookkeeping, Spent, Goto, chain, disk
<1>15. CASE UNCHANGED vars
  BY <1>a, <1>15 DEF Bookkeeping, Spent, vars, chain, disk
<1>16. ~WaitFails /\ ~BackendFails
  BY DEF WaitFails, BackendFails
<1>. QED
  BY <1>1, <1>2, <1>3, <1>4, <1>5, <1>6, <1>7, <1>8, <1>9, <1>10, <1>11, <1>12, <1>13, <1>14,
     <1>15, <1>16
     DEF Next, Thread

\* Every step of a running thread keeps the bounds on the outgoing contract.
LEMMA StepOutgoingTiming == IInv /\ [Next]_vars /\ stopped' = {} => OutgoingTiming'
<1> SUFFICES ASSUME IInv, [Next]_vars, stopped' = {} PROVE OutgoingTiming'
  OBVIOUS
<1>a. TypeOK /\ stopped = {} /\ Bookkeeping /\ OutgoingTiming /\ IncomingTiming
  BY StillRunning DEF IInv
<1>b. TypeOK'
  BY StepTypeOK DEF IInv
<1> USE SizesAssumption, MarginAssumption
<1>1. CASE Claim
  BY <1>a, <1>1 DEF TypeOK, Claim, Bookkeeping, Spent, OutgoingTiming, TIn, First, Goto,
     Accepted, Waiting, chain, disk
<1>2. CASE UpstreamRefund
  BY <1>a, <1>2 DEF TypeOK, UpstreamRefund, Bookkeeping, Spent, OutgoingTiming, TIn, First,
     Goto, Accepted, Waiting, chain, disk
<1>3. CASE NewBlock
  <2>1. height' = height + 1 /\ pc' = pc
    BY <1>3 DEF NewBlock
  <2>2. /\ lag \in Nat /\ height \in Nat /\ First \in Nat
        /\ outAge \in Nat /\ TIn \in Nat
        /\ First >= Lag + 1 /\ First >= Delay /\ outAge < Delay /\ lag <= Lag
    BY <1>a, <1>b DEF TypeOK, First, TIn
  <2>3. (lag' = lag + 1 /\ lag < Lag) \/ (lag' = lag /\ ~Due)
    BY <1>3 DEF NewBlock
  <2>4. pc' = "idle" => height' + Reaction <= TIn + 1 + lag'
    <3>1. pc = "idle" => height + Reaction <= TIn + 1 + lag
      BY <1>a DEF OutgoingTiming
    <3>2. pc = "idle" /\ ~Due => height + Reaction <= TIn
      BY <2>2 DEF Due, PastDeadline, TIn
    <3>3. CASE lag' = lag + 1
      BY <2>1, <2>2, <3>1, <3>3
    <3>4. CASE lag' = lag /\ ~Due
      BY <2>1, <2>2, <3>2, <3>4
    <3>. QED
      BY <2>3, <3>3, <3>4
  <2>5. outgoing' = "pending" => outPool' = {} /\ height' + Reaction <= TIn + outAge'
    <3>1. CASE outgoing = "pending"
      BY <1>a, <1>3, <2>1, <2>2, <3>1, BlockOutgoing DEF OutgoingTiming
    <3>2. CASE outgoing # "pending"
      BY <1>a, <1>3, <3>2, BlockOutgoing DEF TypeOK
    <3>. QED
      BY <3>1, <3>2
  <2>6. outgoing' = "live" /\ outPool' = {} => height' + Reaction <= TIn + First + lag'
    <3>1. CASE outgoing = "pending"
      <4>1. height + Reaction <= TIn + outAge
        BY <1>a, <3>1 DEF OutgoingTiming
      <4>2. height + 1 + Reaction <= TIn + First + lag
        BY <2>2, <4>1
      <4>3. CASE lag' = lag + 1
        BY <2>1, <2>2, <4>2, <4>3
      <4>4. CASE lag' = lag
        BY <2>1, <4>2, <4>4
      <4>. QED
        BY <2>3, <4>3, <4>4
    <3>2. CASE outgoing = "live" /\ outPool = {}
      <4>1. pc \in {"idle", "check", "hashlock", "timelock"}
        BY <1>a, <3>2 DEF TypeOK, Steps, Bookkeeping, Spent
      <4>2. height + Reaction <= TIn + First + lag
        BY <1>a, <3>2 DEF OutgoingTiming
      <4>3. ~Due => height + Reaction <= TIn
        BY <2>2, <4>1 DEF Due, PastDeadline, TIn
      <4>4. CASE lag' = lag + 1
        BY <2>1, <2>2, <4>2, <4>4
      <4>5. CASE lag' = lag /\ ~Due
        BY <2>1, <2>2, <4>3, <4>5
      <4>. QED
        BY <2>3, <4>4, <4>5
    <3>3. CASE outgoing = "live" /\ outPool # {}
      BY <1>a, <1>3, <3>3, BlockOutgoing
    <3>4. CASE Spent
      BY <1>a, <1>3, <3>4, BlockOutgoing DEF Spent
    <3>. QED
      BY <1>a, <3>1, <3>2, <3>3, <3>4 DEF TypeOK, Spent
  <2>7. outgoing' = "live" /\ outPool' # {}
          => height' + Reaction <= TIn + First + Lag + outAge'
    <3>1. CASE outgoing = "live" /\ outPool # {}
      <4>1. height + Reaction <= TIn + First + Lag + outAge
        BY <1>a, <3>1 DEF OutgoingTiming
      <4>2. outgoing' = "live" => outAge' = outAge + 1
        BY <1>a, <1>3, <3>1, BlockOutgoing
      <4>. QED
        BY <2>1, <2>2, <4>1, <4>2
    <3>2. CASE ~(outgoing = "live" /\ outPool # {})
      BY <1>a, <1>3, <3>2, BlockOutgoing DEF TypeOK, OutgoingTiming
    <3>. QED
      BY <3>1, <3>2
  <2>. QED
    BY <2>4, <2>5, <2>6, <2>7 DEF OutgoingTiming
<1>4. CASE StartRecovery
  BY <1>a, <1>4 DEF TypeOK, StartRecovery, Bookkeeping, Spent, OutgoingTiming, TIn, First,
     Goto, Accepted, Waiting, chain, disk
<1>5. CASE CheckForPreimage
  BY <1>a, <1>5 DEF TypeOK, CheckForPreimage, Bookkeeping, Spent, OutgoingTiming, TIn, First,
     Goto, Accepted, Waiting, chain, disk
<1>6. CASE Sweep
  BY <1>a, <1>6 DEF TypeOK, Sweep, Bookkeeping, Spent, OutgoingTiming, TIn, First, Goto,
     Accepted, Waiting, chain, disk
<1>7. CASE SkipSweep
  BY <1>a, <1>7 DEF TypeOK, SkipSweep, Bookkeeping, Spent, OutgoingTiming, TIn, First, Goto,
     Accepted, Waiting, chain, disk
<1>8. CASE SweepConfirmed
  BY <1>a, <1>8 DEF TypeOK, SweepConfirmed, Bookkeeping, Spent, OutgoingTiming, TIn, First,
     Goto, Accepted, Waiting, chain, disk
<1>9. CASE CleanUp
  BY <1>a, <1>9 DEF TypeOK, CleanUp, Bookkeeping, Spent, OutgoingTiming, TIn, First, Goto,
     Accepted, Waiting, chain, disk
<1>10. CASE TimelockIdle
  BY <1>a, <1>10 DEF TypeOK, TimelockIdle, Bookkeeping, Spent, OutgoingTiming, TIn, First,
     Goto, Accepted, Waiting, chain, disk
<1>11. CASE Refund
  BY <1>a, <1>11 DEF TypeOK, Refund, Bookkeeping, Spent, OutgoingTiming, TIn, First, Goto,
     Accepted, Waiting, chain, disk
<1>12. CASE Discard
  <2>1. pc' # "idle" /\ UNCHANGED chain /\ Spent
    BY <1>12 DEF Discard, Conclude, Goto, Spent
  <2>. QED
    BY <1>a, <2>1 DEF TypeOK, OutgoingTiming, Spent, chain
<1>13. CASE RefundConfirmed
  <2>1. pc' # "idle" /\ UNCHANGED chain /\ Spent
    BY <1>13 DEF RefundConfirmed, Conclude, Goto, Spent
  <2>. QED
    BY <1>a, <2>1 DEF TypeOK, OutgoingTiming, Spent, chain
<1>14. CASE Reboot
  BY <1>a, <1>14 DEF TypeOK, Reboot, Bookkeeping, Spent, OutgoingTiming, TIn, First, Goto,
     Accepted, Waiting, chain, disk
<1>15. CASE UNCHANGED vars
  BY <1>a, <1>15 DEF OutgoingTiming, vars, chain, disk
<1>16. ~WaitFails /\ ~BackendFails
  BY DEF WaitFails, BackendFails
<1>. QED
  BY <1>1, <1>2, <1>3, <1>4, <1>5, <1>6, <1>7, <1>8, <1>9, <1>10, <1>11, <1>12, <1>13, <1>14,
     <1>15, <1>16
     DEF Next, Thread

\* Every step of a running thread keeps the bounds on the incoming contract.
LEMMA StepIncomingTiming == IInv /\ [Next]_vars /\ stopped' = {} => IncomingTiming'
<1> SUFFICES ASSUME IInv, [Next]_vars, stopped' = {} PROVE IncomingTiming'
  OBVIOUS
<1>a. TypeOK /\ stopped = {} /\ Bookkeeping /\ OutgoingTiming /\ IncomingTiming
  BY StillRunning DEF IInv
<1>b. TypeOK'
  BY StepTypeOK DEF IInv
<1> USE SizesAssumption, MarginAssumption
<1>1. CASE Claim
  BY <1>a, <1>1 DEF TypeOK, Claim, Bookkeeping, Spent, OutgoingTiming, IncomingTiming, TIn,
     First, ClaimBy,
     Goto, Accepted, Waiting, chain, disk
<1>2. CASE UpstreamRefund
  <2>1. CASE outgoing = "refunded"
    BY <1>2, <2>1 DEF UpstreamRefund, IncomingTiming
  <2>2. CASE outgoing # "refunded"
    <3>1. /\ lag \in Nat /\ lag <= Lag /\ height \in Nat /\ TIn \in Nat
          /\ inAge \in Nat /\ inAge < Delay /\ First \in Nat /\ ClaimBy \in Nat
          /\ ClaimBy + 2 * Lag + Delay <= Reaction
      BY <1>a DEF TypeOK, TIn, First, ClaimBy
    <3>2. incoming = "live"
      BY <1>2 DEF UpstreamRefund
    <3>3. pc \notin {"done", "dead", "cleanup"} /\ (pc = "waitSweep" => "sweep" \in inPool)
      BY <1>a, <2>2, <3>2 DEF Bookkeeping, IncomingTiming
    <3>4. height < TIn
      <4>1. CASE "sweep" \in inPool
        BY <1>a, <2>2, <3>1, <3>2, <4>1 DEF IncomingTiming
      <4>2. CASE "sweep" \notin inPool /\ pc = "idle"
        BY <1>a, <3>1, <4>2 DEF OutgoingTiming
      <4>3. CASE "sweep" \notin inPool /\ pc # "idle"
        BY <1>a, <2>2, <3>1, <3>2, <3>3, <4>3 DEF IncomingTiming, TypeOK, Steps
      <4>. QED
        BY <4>1, <4>2, <4>3
    <3>. QED
      BY <1>2, <3>1, <3>4 DEF UpstreamRefund
  <2>. QED
    BY <2>1, <2>2
<1>3. CASE NewBlock
  BY <1>a, <1>3, BlockOutgoing, BlockIncoming, SMTT(20) DEF TypeOK, NewBlock, Due, PastDeadline,
     Bookkeeping, Spent, OutgoingTiming, IncomingTiming, TIn, First, ClaimBy, disk
<1>4. CASE StartRecovery
  BY <1>a, <1>4 DEF TypeOK, StartRecovery, Bookkeeping, Spent, OutgoingTiming, IncomingTiming,
     TIn, First, ClaimBy,
     Goto, Accepted, Waiting, chain, disk
<1>5. CASE CheckForPreimage
  BY <1>a, <1>5 DEF TypeOK, CheckForPreimage, Bookkeeping, Spent, OutgoingTiming,
     IncomingTiming, TIn, First, ClaimBy,
     Goto, Accepted, Waiting, chain, disk
<1>6. CASE Sweep
  BY <1>a, <1>6 DEF TypeOK, Sweep, Bookkeeping, Spent, OutgoingTiming, IncomingTiming, TIn,
     First, ClaimBy,
     Goto, Accepted, Waiting, chain, disk
<1>7. CASE SkipSweep
  BY <1>a, <1>7 DEF TypeOK, SkipSweep, Bookkeeping, Spent, OutgoingTiming, IncomingTiming, TIn,
     First, ClaimBy,
     Goto, Accepted, Waiting, chain, disk
<1>8. CASE SweepConfirmed
  BY <1>a, <1>8 DEF TypeOK, SweepConfirmed, Bookkeeping, Spent, OutgoingTiming, IncomingTiming,
     TIn, First, ClaimBy,
     Goto, Accepted, Waiting, chain, disk
<1>9. CASE CleanUp
  BY <1>a, <1>9 DEF TypeOK, CleanUp, Bookkeeping, Spent, OutgoingTiming, IncomingTiming, TIn,
     First, ClaimBy,
     Goto, Accepted, Waiting, chain, disk
<1>10. CASE TimelockIdle
  BY <1>a, <1>10 DEF TypeOK, TimelockIdle, Bookkeeping, Spent, OutgoingTiming, IncomingTiming,
     TIn, First, ClaimBy,
     Goto, Accepted, Waiting, chain, disk
<1>11. CASE Refund
  BY <1>a, <1>11 DEF TypeOK, Refund, Bookkeeping, Spent, OutgoingTiming, IncomingTiming, TIn,
     First, ClaimBy,
     Goto, Accepted, Waiting, chain, disk
<1>12. CASE Discard
  <2>1. SUFFICES ASSUME outgoing # "refunded" PROVE IncomingTiming'
    BY <1>12 DEF Discard, IncomingTiming, chain
  <2>2. pc = "timelock" /\ UNCHANGED <<chain, inCoin>> /\ lag' = 0
    BY <1>12 DEF Discard
  <2>3. CASE incoming # "live"
    BY <1>a, <2>1, <2>2, <2>3 DEF IncomingTiming, chain
  <2>4. CASE incoming = "live"
    <3>1. inCoin = "plain" /\ inPool = {}
      BY <1>a, <2>1, <2>2, <2>4 DEF IncomingTiming, Bookkeeping, TypeOK
    <3>2. pc' = "check"
      BY <1>12, <2>4, <3>1 DEF Discard, Conclude, Resolved, Goto
    <3>. QED
      BY <1>a, <2>1, <2>2, <2>4, <3>1, <3>2 DEF IncomingTiming, TypeOK, ClaimBy, First, TIn, chain
  <2>. QED
    BY <2>3, <2>4
<1>13. CASE RefundConfirmed
  BY <1>a, <1>13 DEF TypeOK, RefundConfirmed, Conclude, Resolved, Bookkeeping, Spent,
     OutgoingTiming, IncomingTiming, TIn, First, ClaimBy,
     Goto, Accepted, Waiting, chain, disk
<1>14. CASE Reboot
  <2>1. SUFFICES ASSUME outgoing # "refunded" PROVE IncomingTiming'
    BY <1>14 DEF Reboot, IncomingTiming, chain
  <2>2. UNCHANGED <<chain, disk>> /\ pc' \in {"check", "done",
     "dead"} /\ (pc' = "check" => outCoin)
    BY <1>14 DEF Reboot, Goto
  <2>3. pc' = "done" => inCoin = "absent"
    BY <1>14 DEF Reboot, Goto
  <2>4. incoming = "live" /\ "sweep" \notin inPool /\ pc' = "check"
          => height + Reaction <= TIn + ClaimBy + Lag + lag'
    <3>1. SUFFICES ASSUME incoming = "live", "sweep" \notin inPool, outCoin
                   PROVE  height + Reaction <= TIn + ClaimBy + Lag + lag'
      BY <2>2
    <3>2. pc \in {"idle", "check", "hashlock", "timelock", "waitRefund"}
      BY <1>a, <3>1 DEF Bookkeeping, TypeOK, Steps
    <3>3. /\ lag \in Nat /\ lag <= Lag /\ height \in Nat /\ TIn \in Nat
          /\ First \in Nat /\ ClaimBy \in Nat /\ ClaimBy >= Lag + 1
      BY <1>a DEF TypeOK, TIn, First, ClaimBy
    <3>4. lag' = IF pc \in {"waitRefund", "idle"} THEN 0 ELSE lag
      BY <1>14, <3>2 DEF Reboot, Waiting
    <3>. QED
      BY <1>a, <2>1, <3>1, <3>2, <3>3, <3>4 DEF IncomingTiming, OutgoingTiming
  <2>. QED
    BY <1>a, <2>1, <2>2, <2>3, <2>4 DEF IncomingTiming, Bookkeeping, TypeOK, TIn, ClaimBy,
     First, chain, disk
<1>15. CASE UNCHANGED vars
  BY <1>a, <1>15 DEF IncomingTiming, vars, chain, disk
<1>16. ~WaitFails /\ ~BackendFails
  BY DEF WaitFails, BackendFails
<1>. QED
  BY <1>1, <1>2, <1>3, <1>4, <1>5, <1>6, <1>7, <1>8, <1>9, <1>10, <1>11, <1>12, <1>13, <1>14,
     <1>15, <1>16
     DEF Next, Thread

\* The invariant is inductive.
LEMMA StepIInv == IInv /\ [Next]_vars => IInv'
  BY StepTypeOK, StepBookkeeping, StepOutgoingTiming, StepIncomingTiming DEF IInv

\* Type correctness of the recovery of one hop.
THEOREM TypeCorrect == Spec => []TypeOK
<1>1. Init => TypeOK
  BY InitIInv DEF IInv
<1>. QED
  BY <1>1, StepTypeOK, PTL DEF Spec

\* The invariant implies the two properties.
LEMMA IInvImplies == IInv => LossNeedsStop /\ SettledInTime
<1> SUFFICES ASSUME IInv PROVE LossNeedsStop /\ SettledInTime
  OBVIOUS
<1>1. LossNeedsStop
  BY DEF IInv, IncomingTiming, LossNeedsStop, Lost
<1>2. SettledInTime
  BY SizesAssumption, MarginAssumption
     DEF IInv, TypeOK, OutgoingTiming, SettledInTime, TIn, First
<1>. QED
  BY <1>1, <1>2

\* recover_from_swap never ends with the outgoing contract claimed by the next hop and
\* the incoming one refunded to the previous hop, unless the thread stopped on an error
\* or a restart found no outgoing swapcoin to start it from; for every timelock and all
\* bounds that leave the reaction time MarginAssumption asks for.
THEOREM NoLossWhileRunning == Spec => []LossNeedsStop
<1>1. Spec => []IInv
  BY InitIInv, StepIInv, PTL DEF Spec
<1>. QED
  BY <1>1, IInvImplies, PTL

\* The idle checker's deadline starts recover_from_swap early enough: by the height at
\* which the previous hop can refund, the outgoing contract has been claimed or refunded.
THEOREM OutgoingSettles == Spec => []SettledInTime
<1>1. Spec => []IInv
  BY InitIInv, StepIInv, PTL DEF Spec
<1>. QED
  BY <1>1, IInvImplies, PTL

=============================================================================
