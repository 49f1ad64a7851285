-------------------------- MODULE Watchtower_steps --------------------------
(***************************************************************************)
(* The two inductive invariants behind the theorems of Watchtower_proofs:  *)
(* IInv, of what is held and heard, and RInv, of what is queued and        *)
(* recorded; and that every step of the watchtower keeps their parts. (The *)
(* parts that speak of what a fetch queues, and the longest of the others, *)
(* are kept there.)                                                        *)
(***************************************************************************)
EXTENDS Watchtower, TLAPS

\* The connection carries the subscription of every script with an entry, or it is new and
\* about to be armed; and so for the script being subscribed, whose request is the only one
\* under way.
HeldArmed ==
  Electrum /\ Running =>
    /\ \A s \in Scripts : subs[s] # {} => s \in armed \/ rearm \/ pc = "rearm"
    /\ \A o \in Outpoints : job = <<"subscribe", o>> => script[o] \in armed \/ rearm
    /\ pc = "rearm" => job = Idle

\* A watcher that is gone holds no registry and no subscription.
NothingHeld ==
  ~Running =>
    /\ job = Idle /\ \A o \in Outpoints : ~reg[o].watched
    /\ \A s \in Scripts : subs[s] = {}

\* The inductive invariant.
IInv == TypeOK /\ NothingHeld /\ WatchedIsHeld /\ HeldArmed /\ NeverDeaf

-----------------------------------------------------------------------------
(* What the types say of the commands, the requests and the registry.      *)

\* The command a handler takes: an outpoint, or the outpoints to rebuild.
LEMMA CommandArgument ==
  ASSUME TypeOK, cmds # <<>>
  PROVE  /\ Tail(cmds) \in Seq(Commands)
         /\ Head(cmds)[1] \in {"register", "unwatch", "watch"} => Head(cmds)[2] \in Outpoints
         /\ Head(cmds)[1] = "rebuild" => Head(cmds)[2] \subseteq Outpoints
<1>1. Head(cmds) \in Commands /\ Tail(cmds) \in Seq(Commands)
  BY DEF TypeOK
<1>2. QED
  BY <1>1 DEF Commands

\* The next event is of a transaction.
LEMMA EventArgument ==
  ASSUME TypeOK, feed # <<>>
  PROVE  Tail(feed) \in Seq(Events) /\ Head(feed)[2] \in Txs
<1>1. Head(feed) \in Events /\ Tail(feed) \in Seq(Events)
  BY DEF TypeOK
<1>2. QED
  BY <1>1 DEF Events

\* The request under way is a subscription or a reading.
LEMMA JobArgument ==
  ASSUME TypeOK, job # Idle
  PROVE  /\ job[1] = "subscribe" => job[2] \in Outpoints /\ job = <<"subscribe", job[2]>>
         /\ job[1] = "read" => job[2] \in Scripts /\ job = <<"read", job[2]>>
BY DEF TypeOK

\* Idle is neither.
LEMMA IdleIsNoJob ==
  /\ \A o \in Outpoints : Idle # <<"subscribe", o>>
  /\ \A s \in Scripts : Idle # <<"read", s>>
BY WatchAssumption

\* Recording a spend watches nothing new and stops watching nothing.
LEMMA RecordKeepsWatches ==
  ASSUME TypeOK, NEW t \in Txs, NEW b \in BOOLEAN
  PROVE  \A o \in Outpoints : Record(reg, t, b)[o].watched = reg[o].watched
<1>1. Spends[t] \in Outpoints
  BY WatchAssumption
<1>2. QED
  BY <1>1 DEF TypeOK, Record

\* A fetch of history takes nothing from what was seen or marked, and what it does not see
\* leaves the script marked.
LEMMA FetchHears ==
  ASSUME TypeOK, NEW s \in Scripts, NEW S \in SUBSET Txs, Fetch(s, S)
  PROVE  /\ \A x \in Scripts : seen[x] \subseteq seen'[x]
         /\ dirty \subseteq dirty'
         /\ S \subseteq seen'[s] \/ s \in dirty'
<1>1. CASE seen' = [seen EXCEPT ![s] = @ \cup S] /\ dirty' = dirty
  BY <1>1 DEF TypeOK
<1>2. ASSUME NEW f \in S, seen' = [seen EXCEPT ![s] = @ \cup (S \ {f})], dirty' = dirty \cup {s}
      PROVE  /\ \A x \in Scripts : seen[x] \subseteq seen'[x]
             /\ dirty \subseteq dirty' /\ s \in dirty'
  BY <1>2 DEF TypeOK
<1>3. QED
  BY <1>1, <1>2 DEF Fetch

-----------------------------------------------------------------------------
(* The types.                                                              *)

ScalarsOK ==
  /\ backend \in {"core", "electrum"} /\ used \subseteq Outpoints
  /\ script \in [Outpoints -> Scripts]
  /\ chain \in [Txs -> {"none", "mempool", "mined", "gone"}]
  /\ contracts \subseteq Outpoints /\ client \in {"ready", "watch", "rebuild", "down"}
  /\ pc \in {"start", "commands", "drain", "rebuild", "rescan", "events", "rearm", "retry",
             "exited", "down"}
  /\ faults \in Nat

FlagsOK == rearm \in BOOLEAN /\ reset \in BOOLEAN

SetsOK ==
  /\ retry \subseteq Outpoints /\ todo \subseteq Outpoints /\ missed \subseteq Txs
  /\ armed \subseteq Scripts /\ notif \subseteq Scripts /\ dirty \subseteq Scripts
  /\ subs \in [Scripts -> SUBSET Outpoints] /\ seen \in [Scripts -> SUBSET Txs]
  /\ attempts \in [Txs -> Nat]
  /\ job \in {Idle} \cup ({"subscribe"} \X Outpoints) \cup ({"read"} \X Scripts)

Entry == [watched : BOOLEAN, tx : Txs \cup {NoTx}, block : BOOLEAN]

RegOK ==
  /\ reg \in [Outpoints -> Entry]
  /\ \A o \in Outpoints : reg[o].block => reg[o].tx # NoTx

QueuesOK == cmds \in Seq(Commands) /\ feed \in Seq(Events)

\* The type invariant is those five.
LEMMA TypeParts == TypeOK <=> ScalarsOK /\ FlagsOK /\ SetsOK /\ RegOK /\ QueuesOK
BY DEF TypeOK, ScalarsOK, FlagsOK, SetsOK, Entry, RegOK, QueuesOK

\* The same in the next state.
LEMMA TypePartsNext == ScalarsOK' /\ FlagsOK' /\ SetsOK' /\ RegOK' /\ QueuesOK' => TypeOK'
BY DEF TypeOK, ScalarsOK, FlagsOK, SetsOK, Entry, RegOK, QueuesOK

\* A fetch keeps the types of what it changes.
LEMMA FetchTypes ==
  ASSUME TypeOK, NEW s \in Scripts, NEW S \in SUBSET Txs, Fetch(s, S)
  PROVE  /\ seen' \in [Scripts -> SUBSET Txs]
         /\ dirty' \subseteq Scripts /\ attempts' \in [Txs -> Nat] /\ faults' \in Nat
<1>1. seen' \in [Scripts -> SUBSET Txs]
  <2>1. \E R \in SUBSET Txs : seen' = [seen EXCEPT ![s] = @ \cup R]
    BY DEF Fetch
  <2>2. QED
    BY <2>1 DEF TypeOK
<1>2. dirty' \subseteq Scripts
  <2>1. dirty' = dirty \/ dirty' = dirty \cup {s}
    BY DEF Fetch
  <2>2. QED
    BY <2>1 DEF TypeOK
<1>3. attempts' \in [Txs -> Nat]
  <2>1. CASE attempts' = [t \in Txs |-> IF t \in S THEN 0 ELSE attempts[t]]
    BY <2>1 DEF TypeOK
  <2>2. ASSUME NEW f \in S,
               attempts' = [t \in Txs |-> IF t = f THEN attempts[t] + 1
                                          ELSE IF t \in S THEN 0 ELSE attempts[t]]
        PROVE  attempts' \in [Txs -> Nat]
    BY <2>2 DEF TypeOK
  <2>3. QED
    BY <2>1, <2>2 DEF Fetch
<1>4. faults' \in Nat
  BY DEF Fetch, Fault, TypeOK
<1>5. QED
  BY <1>1, <1>2, <1>3, <1>4

\* What a handler's history is, is a set of transactions.
LEMMA HistoryType == \A s : History(s) \subseteq Txs
BY DEF History

\* The channel takes a command, unless the watcher is gone.
LEMMA SendTypes ==
  ASSUME TypeOK, NEW c \in Commands, Send(c)
  PROVE  cmds' \in Seq(Commands)
<1>1. cmds \in Seq(Commands)
  BY DEF TypeOK
<1>2. CASE cmds' = cmds
  BY <1>1, <1>2
<1>3. CASE cmds' = Append(cmds, c)
  BY <1>1, <1>3
<1>4. QED
  BY <1>2, <1>3 DEF Send

\* The events of a transaction, and the commands of an outpoint.
LEMMA EventsOf ==
  ASSUME NEW t \in Txs
  PROVE  <<<<"tx", t>>>> \in Seq(Events) /\ <<<<"tx", t>>, <<"block", t>>>> \in Seq(Events)
<1>1. <<"tx", t>> \in Events /\ <<"block", t>> \in Events
  BY DEF Events
<1> DEFINE a == <<"tx", t>>  b == <<"block", t>>
<1> HIDE DEF a, b
<1>2. a \in Events /\ b \in Events => <<a>> \in Seq(Events) /\ <<a, b>> \in Seq(Events)
  OBVIOUS
<1>3. QED
  BY <1>1, <1>2 DEF a, b

\* The registry with one entry replaced by a sound one, or by itself merged or cleared.
LEMMA EntryReplaced ==
  ASSUME RegOK, NEW o \in Outpoints, NEW e \in Entry, e.block => e.tx # NoTx,
         reg' = [reg EXCEPT ![o] = e]
  PROVE  RegOK'
BY DEF RegOK

\* A recorded entry is one.
LEMMA EntryOf ==
  ASSUME NEW t \in Txs \cup {NoTx}, NEW b \in BOOLEAN
  PROVE  LET e == [watched |-> TRUE, tx |-> t, block |-> b]
         IN  e \in Entry /\ e.tx = t /\ e.block = b
BY Zenon DEF Entry

\* A merged entry is one, with the same record.
LEMMA EntryMerged ==
  ASSUME NEW e \in Entry
  PROVE  LET m == [e EXCEPT !.watched = TRUE]
         IN  m \in Entry /\ m.tx = e.tx /\ m.block = e.block
BY Zenon DEF Entry

\* A cleared entry is one, and not marked confirmed.
LEMMA EntryCleared ==
  ASSUME NEW e \in Entry
  PROVE  LET m == [e EXCEPT !.tx = NoTx, !.block = FALSE]
         IN  m \in Entry /\ m.block = FALSE
BY Zenon DEF Entry

-----------------------------------------------------------------------------
(* The steps by what they leave alone.                                     *)

\* A call enters the channel, or gives up its wait.
Calls == (\E o \in used : RegisterWatch(o) \/ Unwatch(o) \/ WatchRequest(o)) \/ StopWaiting

\* The thread is gone.
Ends == Shutdown \/ Crash \/ Dies

\* The thread goes on to the next part of its pass.
Moves == Startup \/ RebuildReplies \/ RescanLookup \/ BeginEvents \/ EndEvents

\* The connection, and the scripts armed and marked on it.
Links == Recycle \/ RearmBegins \/ Rearm \/ PopFails \/ Reconnect

\* Every step is of one of these kinds.
LEMMA NextCases ==
  ASSUME [Next]_vars
  PROVE  \/ Chain \/ Calls \/ Ends \/ Restart \/ Moves \/ Links \/ UNCHANGED vars
         \/ HandleRegister \/ HandleRebuild \/ Rescan \/ HandleWatch \/ HandleUnwatch
         \/ Arm \/ SubscribeRead \/ RetrySubscribes \/ HandleEvent \/ PopStatus \/ ReadHistory
         \/ ZmqLost
BY DEF Next, Callers, Watcher, Handlers, Polls, Faulty, Calls, Ends, Moves, Links

\* A step of the chain leaves the watcher alone but for what it hears.
LEMMA ChainFrame ==
  ASSUME Chain
  PROVE  /\ UNCHANGED <<backend, used, script, contracts, client, cmds, pc, reg, retry, todo, job>>
         /\ UNCHANGED <<subs, seen, armed, rearm, reset, dirty, attempts, missed>>
<1>1. UNCHANGED chainFrame
  BY DEF Chain, Broadcast, Mine, Unmine, Replace
<1>2. QED
  BY <1>1 DEF chainFrame, env, service

\* A call changes the channel, the caller and the wallet's contracts.
LEMMA CallsFrame ==
  ASSUME Calls
  PROVE  /\ UNCHANGED <<backend, used, script, chain, pc, reg, retry, todo, job, feed>>
         /\ UNCHANGED <<subs, seen, armed, notif, rearm, reset, dirty, attempts, missed, faults>>
<1>1. UNCHANGED callFrame
  BY DEF Calls, RegisterWatch, Unwatch, WatchRequest, StopWaiting
<1>2. QED
  BY <1>1 DEF callFrame, env, electrum

\* All that the thread held is dropped.
LEMMA EndsFrame ==
  ASSUME Ends
  PROVE  Forget /\ pc' \in {"exited", "down"} /\ UNCHANGED <<backend, used, script, chain, contracts>>
<1>1. CASE Shutdown
  BY <1>1 DEF Shutdown, threadFrame, env
<1>2. CASE Crash
  BY <1>2 DEF Crash, env
<1>3. CASE Dies
  BY <1>3 DEF Dies, threadFrame, env
<1>4. QED
  BY <1>1, <1>2, <1>3 DEF Ends

\* A restart queues the rebuild of the watches.
LEMMA RestartFrame ==
  ASSUME Restart
  PROVE  /\ UNCHANGED <<backend, used, script, chain, contracts, reg, retry, todo, job, feed>>
         /\ UNCHANGED <<subs, seen, armed, notif, rearm, reset, dirty, attempts, missed, faults>>
         /\ pc = "down" /\ pc' = "start"
BY DEF Restart, env, electrum

\* Going on, the thread changes neither the registry nor the subscriptions.
LEMMA MovesFrame ==
  ASSUME Moves
  PROVE  /\ UNCHANGED <<backend, used, script, chain, contracts, cmds, reg, retry, todo, job, feed>>
         /\ UNCHANGED <<subs, seen, armed, notif, rearm, reset, dirty, attempts>>
         /\ Running /\ pc # "rearm" /\ pc' \in {"commands", "drain", "rescan", "events", "retry"}
<1> USE DEF threadFrame, stepFrame, env, service, electrum, Running
<1>1. CASE Startup
  BY <1>1 DEF Startup
<1>2. CASE RebuildReplies
  BY <1>2 DEF RebuildReplies
<1>3. CASE RescanLookup
  BY <1>3 DEF RescanLookup
<1>4. CASE BeginEvents
  BY <1>4 DEF BeginEvents
<1>5. CASE EndEvents
  BY <1>5 DEF EndEvents, Polling
<1>6. QED
  BY <1>1, <1>2, <1>3, <1>4, <1>5 DEF Moves

\* The connection changes neither the registry nor what is seen.
LEMMA LinksFrame ==
  ASSUME Links
  PROVE  /\ UNCHANGED <<backend, used, script, chain, contracts, client, cmds, reg, retry, todo, job>>
         /\ UNCHANGED <<feed, subs, seen, attempts, missed>>
         /\ Running /\ pc' \in {pc, "events", "rearm", "retry"}
<1> USE DEF threadFrame, stepFrame, env, service, Running, Polling
<1>1. CASE Recycle
  BY <1>1 DEF Recycle
<1>2. CASE RearmBegins
  BY <1>2 DEF RearmBegins
<1>3. CASE Rearm
  BY <1>3 DEF Rearm
<1>4. CASE PopFails
  BY <1>4 DEF PopFails
<1>5. CASE Reconnect
  BY <1>5 DEF Reconnect
<1>6. QED
  BY <1>1, <1>2, <1>3, <1>4, <1>5 DEF Links

\* A stuttering step.
LEMMA Stutter ==
  ASSUME UNCHANGED vars
  PROVE  /\ UNCHANGED <<backend, used, script, chain, contracts, client, cmds, pc, reg, retry>>
         /\ UNCHANGED <<todo, job, feed, subs, seen, armed, notif, rearm, reset, dirty>>
         /\ UNCHANGED <<attempts, missed, faults>>
BY DEF vars, env, service, electrum

-----------------------------------------------------------------------------
(* Each part of the invariant is kept by every step.                       *)

\* The calls, the chain and the thread's place keep their types.
LEMMA ScalarsOKStep ==
  ASSUME IInv, [Next]_vars PROVE ScalarsOK'
<1> USE DEF threadFrame, stepFrame, env, service, Fault, ScalarsOK
<1>0. ScalarsOK
  BY TypeParts DEF IInv
<1> USE <1>0
<1>1. CASE Chain
  <2>1. faults' = faults \/ faults' = faults + 1
    BY <1>1 DEF Chain, Broadcast, Mine, Unmine, Replace
  <2>2. chain' \in [Txs -> {"none", "mempool", "mined", "gone"}]
    BY <1>1 DEF Chain, Broadcast, Mine, Unmine, Replace
  <2>3. QED
    BY <1>1, <2>1, <2>2, ChainFrame
<1>2. CASE Calls
  <2>1. contracts' \subseteq Outpoints /\ client' \in {"ready", "watch", "rebuild", "down"}
    BY <1>2 DEF Calls, RegisterWatch, Unwatch, WatchRequest, StopWaiting
  <2>2. QED
    BY <1>2, <2>1, CallsFrame
<1>3. CASE Ends
  <2>1. client' \in {"ready", "watch", "rebuild", "down"} /\ faults' \in Nat
    BY <1>3 DEF Ends, Shutdown, Crash, Dies
  <2>2. QED
    BY <1>3, <2>1, EndsFrame
<1>4. CASE Restart
  BY <1>4, RestartFrame DEF Restart
<1>5. CASE Moves
  <2>1. client' \in {"ready", "watch", "rebuild", "down"} /\ faults' \in Nat
    BY <1>5 DEF Moves, Startup, RebuildReplies, RescanLookup, BeginEvents, EndEvents
  <2>2. QED
    BY <1>5, <2>1, MovesFrame
<1>6. CASE Links
  <2>1. faults' \in Nat
    BY <1>6 DEF Links, Recycle, RearmBegins, Rearm, PopFails, Reconnect
  <2>2. QED
    BY <1>6, <2>1, LinksFrame
<1>7. CASE UNCHANGED vars
  BY <1>7, Stutter
<1>8. CASE HandleRegister
  BY <1>8 DEF HandleRegister, Command, threadFrame
<1>9. CASE HandleRebuild
  BY <1>9 DEF HandleRebuild, Command, threadFrame
<1>10. CASE Rescan
  BY <1>10 DEF Rescan, threadFrame
<1>11. CASE HandleWatch
  BY <1>11 DEF HandleWatch, Command, threadFrame
<1>12. CASE HandleUnwatch
  BY <1>12 DEF HandleUnwatch, Command, threadFrame
<1>13. CASE Arm
  BY <1>13 DEF Arm, stepFrame, threadFrame
<1>14. CASE SubscribeRead
  <2>1. faults' = faults \/ faults' = faults + 1
    BY <1>14 DEF SubscribeRead, Fetch
  <2>2. QED
    BY <1>14, <2>1 DEF SubscribeRead
<1>15. CASE RetrySubscribes
  BY <1>15 DEF RetrySubscribes, stepFrame, threadFrame
<1>16. CASE HandleEvent
  BY <1>16 DEF HandleEvent, stepFrame, threadFrame
<1>17. CASE PopStatus
  BY <1>17 DEF PopStatus, Polling, stepFrame, threadFrame
<1>18. CASE ReadHistory
  <2>1. faults' = faults \/ faults' = faults + 1
    BY <1>18 DEF ReadHistory, Fetch
  <2>2. QED
    BY <1>18, <2>1 DEF ReadHistory
<1>19. CASE ZmqLost
  BY <1>19 DEF ZmqLost, stepFrame, threadFrame
<1>20. QED
  BY NextCases, <1>1, <1>2, <1>3, <1>4, <1>5, <1>6, <1>7, <1>8, <1>9, <1>10,
     <1>11, <1>12, <1>13, <1>14, <1>15, <1>16, <1>17, <1>18, <1>19

\* The flags of a new connection and of a pending reset are flags.
LEMMA FlagsOKStep ==
  ASSUME IInv, [Next]_vars PROVE FlagsOK'
<1> USE DEF electrum, FlagsOK
<1>0. rearm \in BOOLEAN /\ reset \in BOOLEAN
  BY TypeParts DEF IInv
<1> USE <1>0
<1>1. CASE Chain
  BY <1>1, ChainFrame
<1>2. CASE Calls
  BY <1>2, CallsFrame
<1>3. CASE Ends
  BY <1>3, EndsFrame DEF Forget
<1>4. CASE Restart
  BY <1>4, RestartFrame
<1>5. CASE Moves
  BY <1>5, MovesFrame
<1>6. CASE Links
  BY <1>6 DEF Links, Recycle, RearmBegins, Rearm, PopFails, Reconnect
<1>7. CASE UNCHANGED vars
  BY <1>7, Stutter
<1>8. CASE HandleRegister
  BY <1>8 DEF HandleRegister, Command, threadFrame
<1>9. CASE HandleRebuild
  BY <1>9 DEF HandleRebuild, Command, threadFrame
<1>10. CASE Rescan
  BY <1>10 DEF Rescan, threadFrame
<1>11. CASE HandleWatch
  BY <1>11 DEF HandleWatch, Command, threadFrame
<1>12. CASE HandleUnwatch
  BY <1>12 DEF HandleUnwatch, Unsubscribe
<1>13. CASE Arm
  BY <1>13 DEF Arm, stepFrame, threadFrame
<1>14. CASE SubscribeRead
  BY <1>14 DEF SubscribeRead, stepFrame, threadFrame
<1>15. CASE RetrySubscribes
  BY <1>15 DEF RetrySubscribes, stepFrame, threadFrame
<1>16. CASE HandleEvent
  BY <1>16 DEF HandleEvent, stepFrame, threadFrame
<1>17. CASE PopStatus
  BY <1>17 DEF PopStatus, Polling, stepFrame, threadFrame
<1>18. CASE ReadHistory
  BY <1>18 DEF ReadHistory, stepFrame, threadFrame
<1>19. CASE ZmqLost
  BY <1>19 DEF ZmqLost, stepFrame, threadFrame
<1>20. QED
  BY NextCases, <1>1, <1>2, <1>3, <1>4, <1>5, <1>6, <1>7, <1>8, <1>9, <1>10,
     <1>11, <1>12, <1>13, <1>14, <1>15, <1>16, <1>17, <1>18, <1>19

\* What is queued, held, armed, seen and marked keeps its type.
LEMMA SetsOKStep ==
  ASSUME IInv, [Next]_vars PROVE SetsOK'
<1> USE DEF electrum, SetsOK
<1>0. TypeOK /\ SetsOK /\ script \in [Outpoints -> Scripts]
  BY TypeParts DEF IInv, ScalarsOK
<1> USE <1>0
<1>1. CASE Chain
  <2>1. notif' \subseteq Scripts
    BY <1>1 DEF Chain, Broadcast, Mine, Unmine, Replace, Publish
  <2>2. QED
    BY <1>1, <2>1, ChainFrame
<1>2. CASE Calls
  BY <1>2, CallsFrame
<1>3. CASE Ends
  BY <1>3, EndsFrame DEF Forget
<1>4. CASE Restart
  BY <1>4, RestartFrame
<1>5. CASE Moves
  <2>1. missed' \subseteq Txs
    BY <1>5 DEF Moves, Startup, RebuildReplies, RescanLookup, BeginEvents, EndEvents
  <2>2. QED
    BY <1>5, <2>1, MovesFrame
<1>6. CASE Links
  <2>1. armed' \subseteq Scripts /\ notif' \subseteq Scripts /\ dirty' \subseteq Scripts
    BY <1>6 DEF Links, Recycle, RearmBegins, Rearm, PopFails, Reconnect, Subscribed
  <2>2. QED
    BY <1>6, <2>1, LinksFrame
<1>7. CASE UNCHANGED vars
  BY <1>7, Stutter
<1>8. CASE HandleRegister
  <2>1. Head(cmds)[2] \in Outpoints
    BY <1>8, CommandArgument DEF HandleRegister, Command
  <2>2. QED
    BY <1>8, <2>1 DEF HandleRegister, threadFrame
<1>9. CASE HandleRebuild
  <2>1. Head(cmds)[2] \subseteq Outpoints
    BY <1>9, CommandArgument DEF HandleRebuild, Command
  <2>2. QED
    BY <1>9, <2>1 DEF HandleRebuild, threadFrame
<1>10. CASE Rescan
  BY <1>10 DEF Rescan, threadFrame
<1>11. CASE HandleWatch
  BY <1>11 DEF HandleWatch, Command, threadFrame
<1>12. CASE HandleUnwatch
  <2> DEFINE u == Head(cmds)[2]  s == script[u]
  <2>1. u \in Outpoints /\ s \in Scripts
    BY <1>12, CommandArgument DEF HandleUnwatch, Command
  <2>2. /\ retry' = retry \ {u} /\ todo' = todo /\ job' = job /\ missed' = missed
        /\ Unsubscribe(u) \/ UNCHANGED electrum
    BY <1>12 DEF HandleUnwatch
  <2>3. CASE UNCHANGED electrum
    BY <2>1, <2>2, <2>3
  <2>4. CASE Unsubscribe(u)
    <3>1. /\ subs' = [subs EXCEPT ![s] = @ \ {u}]
          /\ armed' = armed /\ notif' = notif /\ attempts' = attempts
      BY <2>4 DEF Unsubscribe
    <3>2. \/ seen' = seen /\ dirty' = dirty
          \/ seen' = [seen EXCEPT ![s] = {}] /\ dirty' = dirty \ {s}
      BY <2>4 DEF Unsubscribe
    <3> HIDE DEF u, s
    <3>3. subs' \in [Scripts -> SUBSET Outpoints]
      BY <2>1, <3>1
    <3>4. seen' \in [Scripts -> SUBSET Txs] /\ dirty' \subseteq Scripts
      BY <2>1, <3>2
    <3>5. QED
      BY <2>2, <3>1, <3>3, <3>4
  <2>5. QED
    BY <2>2, <2>3, <2>4
<1>13. CASE Arm
  BY <1>13 DEF Arm, stepFrame, threadFrame
<1>14. CASE SubscribeRead
  <2> DEFINE o == job[2]  s == script[o]
  <2>1. o \in Outpoints /\ s \in Scripts
    BY <1>14, JobArgument DEF SubscribeRead
  <2>2. /\ job' = Idle /\ todo' = todo /\ missed' = missed
        /\ armed' = armed /\ notif' = notif
    BY <1>14 DEF SubscribeRead
  <2>3. CASE subs' = [subs EXCEPT ![s] = @ \cup {o}] /\ Fetch(s, History(s)) /\ retry' = retry
    <3> HIDE DEF o, s
    <3>1. History(s) \in SUBSET Txs
      BY HistoryType
    <3>2. seen' \in [Scripts -> SUBSET Txs] /\ dirty' \subseteq Scripts /\ attempts' \in [Txs -> Nat]
      BY <2>1, <2>3, <3>1, FetchTypes
    <3>3. subs' \in [Scripts -> SUBSET Outpoints]
      BY <2>1, <2>3
    <3>4. QED
      BY <2>2, <2>3, <3>2, <3>3
  <2>4. CASE retry' = retry \cup {o} /\ UNCHANGED <<subs, seen, dirty, attempts, feed>>
    <3> HIDE DEF o, s
    <3>1. QED
      BY <2>1, <2>2, <2>4
  <2>5. QED
    BY <1>14, <2>3, <2>4 DEF SubscribeRead
<1>15. CASE RetrySubscribes
  BY <1>15 DEF RetrySubscribes, stepFrame, threadFrame
<1>16. CASE HandleEvent
  BY <1>16 DEF HandleEvent, stepFrame, threadFrame
<1>17. CASE PopStatus
  BY <1>17 DEF PopStatus, Subscribed
<1>18. CASE ReadHistory
  <2>1. job[2] \in Scripts
    BY <1>18, JobArgument DEF ReadHistory
  <2>2. /\ job' = Idle /\ retry' = retry /\ todo' = todo /\ missed' = missed
        /\ armed' = armed /\ notif' = notif /\ subs' = subs
    BY <1>18 DEF ReadHistory
  <2>3. CASE Fetch(job[2], History(job[2]) \ seen[job[2]])
    <3>1. History(job[2]) \ seen[job[2]] \in SUBSET Txs
      BY HistoryType
    <3>2. seen' \in [Scripts -> SUBSET Txs] /\ dirty' \subseteq Scripts /\ attempts' \in [Txs -> Nat]
      BY <2>1, <2>3, <3>1, FetchTypes
    <3>3. QED
      BY <2>2, <3>2
  <2>4. CASE dirty' = dirty \cup {job[2]} /\ UNCHANGED <<seen, attempts, feed>>
    BY <2>1, <2>2, <2>4
  <2>5. QED
    BY <1>18, <2>3, <2>4 DEF ReadHistory
<1>19. CASE ZmqLost
  <2>1. \A k \in 1..Len(feed) : feed[k][2] \in Txs
    BY DEF TypeOK, Events
  <2>2. missed' \subseteq Txs
    BY <1>19, <2>1, SMTT(20) DEF ZmqLost
  <2>3. QED
    BY <1>19, <2>2 DEF ZmqLost, stepFrame, threadFrame
<1>20. QED
  BY NextCases, <1>1, <1>2, <1>3, <1>4, <1>5, <1>6, <1>7, <1>8, <1>9, <1>10,
     <1>11, <1>12, <1>13, <1>14, <1>15, <1>16, <1>17, <1>18, <1>19

\* An entry of the registry stays one, and one marked confirmed names its transaction.
LEMMA RegOKStep ==
  ASSUME IInv, [Next]_vars PROVE RegOK'
<1>0. TypeOK /\ RegOK /\ None \in Entry /\ ~None.block
  <2>1. None \in Entry /\ ~None.block
    BY Zenon DEF None, Entry
  <2>2. QED
    BY <2>1, TypeParts DEF IInv
<1> USE <1>0
<1>a. CASE reg' = reg
  BY <1>a DEF RegOK
<1>1. CASE Chain
  BY <1>1, <1>a, ChainFrame
<1>2. CASE Calls
  BY <1>2, <1>a, CallsFrame
<1>3. CASE Ends
  BY <1>3, EndsFrame DEF Forget, RegOK
<1>4. CASE Restart
  BY <1>4, <1>a, RestartFrame
<1>5. CASE Moves
  BY <1>5, <1>a, MovesFrame
<1>6. CASE Links
  BY <1>6, <1>a, LinksFrame
<1>7. CASE UNCHANGED vars
  BY <1>7, <1>a, Stutter
<1>8. CASE HandleRegister
  <2> DEFINE o == Head(cmds)[2]  m == [reg[o] EXCEPT !.watched = TRUE]
  <2>1. o \in Outpoints /\ reg[o] \in Entry /\ (reg[o].block => reg[o].tx # NoTx)
    BY <1>8, CommandArgument DEF HandleRegister, Command, RegOK
  <2>2. reg' = [reg EXCEPT ![o] = m]
    BY <1>8 DEF HandleRegister, Merge
  <2>3. m \in Entry /\ m.tx = reg[o].tx /\ m.block = reg[o].block
    BY <2>1, EntryMerged
  <2> HIDE DEF o, m
  <2>4. QED
    BY <2>1, <2>2, <2>3, EntryReplaced
<1>9. CASE HandleRebuild
  <2> DEFINE W == Head(cmds)[2]
  <2>1. reg' = [o \in Outpoints |-> IF o \in W THEN [reg EXCEPT ![o].watched = TRUE][o] ELSE reg[o]]
    BY <1>9 DEF HandleRebuild, Merge
  <2> HIDE DEF W
  <2>2. ASSUME NEW o \in Outpoints
        PROVE  reg'[o] \in Entry /\ (reg'[o].block => reg'[o].tx # NoTx)
    <3> DEFINE m == [reg[o] EXCEPT !.watched = TRUE]
    <3>1. reg[o] \in Entry /\ (reg[o].block => reg[o].tx # NoTx)
      BY DEF RegOK
    <3>2. m \in Entry /\ m.tx = reg[o].tx /\ m.block = reg[o].block
      BY <3>1, EntryMerged
    <3>3. reg'[o] = reg[o] \/ reg'[o] = m
      BY <2>1 DEF RegOK
    <3> HIDE DEF m
    <3>4. QED
      BY <3>1, <3>2, <3>3
  <2>3. QED
    BY <2>1, <2>2 DEF RegOK
<1>10. CASE Rescan
  <2> DEFINE S == {t \in Txs \ missed : chain[t] = "mined"}
  <2>1. reg' = reg \/ reg' = RecordBlocks(reg, S)
    BY <1>10 DEF Rescan
  <2>2. S \subseteq Txs
    OBVIOUS
  <2> HIDE DEF S
  <2>3. ASSUME NEW o \in Outpoints
        PROVE  /\ RecordBlocks(reg, S)[o] \in Entry
               /\ RecordBlocks(reg, S)[o].block => RecordBlocks(reg, S)[o].tx # NoTx
    <3>1. CASE reg[o].watched /\ \E t \in S : Spends[t] = o
      <4> DEFINE c == CHOOSE t \in S : Spends[t] = o
                 e == [watched |-> TRUE, tx |-> c, block |-> TRUE]
      <4>1. c \in Txs /\ c # NoTx
        BY <2>2, <3>1, WatchAssumption
      <4>2. RecordBlocks(reg, S)[o] = e
        BY <3>1 DEF RecordBlocks
      <4>3. e \in Entry /\ e.tx = c
        BY <4>1, EntryOf
      <4> HIDE DEF c, e
      <4>4. QED
        BY <4>1, <4>2, <4>3
    <3>2. CASE ~(reg[o].watched /\ \E t \in S : Spends[t] = o)
      <4>1. RecordBlocks(reg, S)[o] = reg[o]
        BY <3>2 DEF RecordBlocks
      <4>2. QED
        BY <4>1 DEF RegOK
    <3>3. QED
      BY <3>1, <3>2
  <2>4. RecordBlocks(reg, S) = [o \in Outpoints |-> RecordBlocks(reg, S)[o]]
    BY DEF RecordBlocks
  <2>5. CASE reg' = RecordBlocks(reg, S)
    <3>1. reg' = [o \in Outpoints |-> reg'[o]]
      BY <2>4, <2>5
    <3>2. \A o \in Outpoints : reg'[o] \in Entry /\ (reg'[o].block => reg'[o].tx # NoTx)
      BY <2>3, <2>5
    <3>3. QED
      BY <3>1, <3>2 DEF RegOK
  <2>6. QED
    BY <2>1, <2>5 DEF RegOK
<1>11. CASE HandleWatch
  <2> DEFINE o == Head(cmds)[2]  e == [reg[o] EXCEPT !.tx = NoTx, !.block = FALSE]
  <2>1. o \in Outpoints /\ reg[o] \in Entry
    BY <1>11, CommandArgument DEF HandleWatch, Command, RegOK
  <2>2. reg' = reg \/ reg' = [reg EXCEPT ![o].tx = NoTx, ![o].block = FALSE]
    BY <1>11 DEF HandleWatch
  <2>3. reg' = reg \/ reg' = [reg EXCEPT ![o] = e]
    BY <2>1, <2>2 DEF RegOK
  <2>4. e \in Entry /\ ~e.block
    BY <2>1, EntryCleared
  <2> HIDE DEF o, e
  <2>5. QED
    BY <2>1, <2>3, <2>4, EntryReplaced DEF RegOK
<1>12. CASE HandleUnwatch
  <2>1. Head(cmds)[2] \in Outpoints /\ reg' = [reg EXCEPT ![Head(cmds)[2]] = None]
    BY <1>12, CommandArgument DEF HandleUnwatch, Command
  <2>2. QED
    BY <2>1, EntryReplaced
<1>13. CASE Arm
  BY <1>13, <1>a DEF Arm
<1>14. CASE SubscribeRead
  BY <1>14, <1>a DEF SubscribeRead
<1>15. CASE RetrySubscribes
  BY <1>15, <1>a DEF RetrySubscribes
<1>16. CASE HandleEvent
  <2> DEFINE t == Head(feed)[2]  b == Head(feed)[1] = "block"
               e == [watched |-> TRUE, tx |-> t, block |-> b]
  <2>1. t \in Txs /\ b \in BOOLEAN /\ reg' = Record(reg, t, b)
    BY <1>16, EventArgument DEF HandleEvent
  <2>2. Spends[t] \in Outpoints /\ t # NoTx
    BY <2>1, WatchAssumption
  <2>3. e \in Entry /\ e.tx = t
    BY <2>1, EntryOf
  <2>4. reg' = reg \/ reg' = [reg EXCEPT ![Spends[t]] = e]
    BY <2>1, <2>2 DEF Record, RegOK
  <2> HIDE DEF t, e
  <2>5. QED
    BY <2>2, <2>3, <2>4, EntryReplaced DEF RegOK
<1>17. CASE PopStatus
  BY <1>17, <1>a DEF PopStatus
<1>18. CASE ReadHistory
  BY <1>18, <1>a DEF ReadHistory
<1>19. CASE ZmqLost
  BY <1>19, <1>a DEF ZmqLost
<1>20. QED
  BY NextCases, <1>1, <1>2, <1>3, <1>4, <1>5, <1>6, <1>7, <1>8, <1>9, <1>10,
     <1>11, <1>12, <1>13, <1>14, <1>15, <1>16, <1>17, <1>18, <1>19

\* A watcher that is gone holds nothing.
LEMMA NothingStep ==
  ASSUME IInv, [Next]_vars PROVE NothingHeld'
<1> USE DEF NothingHeld, Running
<1>0. NothingHeld
  BY DEF IInv
<1> USE <1>0
<1>a. CASE Running'
  BY <1>a
<1>1. CASE Chain
  BY <1>1, ChainFrame
<1>2. CASE Calls
  BY <1>2, CallsFrame
<1>3. CASE Ends
  BY <1>3, EndsFrame, SMTT(20) DEF Forget, None
<1>4. CASE Restart
  BY <1>4, RestartFrame
<1>5. CASE Moves
  BY <1>5, MovesFrame
<1>6. CASE Links
  BY <1>6, LinksFrame
<1>7. CASE UNCHANGED vars
  BY <1>7, Stutter
<1>8. CASE HandleRegister
  BY <1>8, <1>a DEF HandleRegister, Command
<1>9. CASE HandleRebuild
  BY <1>9, <1>a DEF HandleRebuild, Command
<1>10. CASE Rescan
  BY <1>10, <1>a DEF Rescan
<1>11. CASE HandleWatch
  BY <1>11, <1>a DEF HandleWatch, Command
<1>12. CASE HandleUnwatch
  BY <1>12, <1>a DEF HandleUnwatch, Command
<1>13. CASE Arm
  BY <1>13, <1>a DEF Arm
<1>14. CASE SubscribeRead
  BY <1>14, <1>a DEF SubscribeRead
<1>15. CASE RetrySubscribes
  BY <1>15, <1>a DEF RetrySubscribes
<1>16. CASE HandleEvent
  BY <1>16, <1>a DEF HandleEvent
<1>17. CASE PopStatus
  BY <1>17 DEF PopStatus, Polling, stepFrame, threadFrame
<1>18. CASE ReadHistory
  BY <1>18, <1>a DEF ReadHistory
<1>19. CASE ZmqLost
  BY <1>19, <1>a DEF ZmqLost
<1>20. QED
  BY NextCases, <1>1, <1>2, <1>3, <1>4, <1>5, <1>6, <1>7, <1>8, <1>9, <1>10,
     <1>11, <1>12, <1>13, <1>14, <1>15, <1>16, <1>17, <1>18, <1>19

\* A watched outpoint passes from the queue to the request, and from the request to the
\* subscription or back to the queue; unwatching one leaves its neighbours under the script.
LEMMA HeldStep ==
  ASSUME IInv, [Next]_vars PROVE WatchedIsHeld'
<1> USE DEF threadFrame, stepFrame, env, electrum, WatchedIsHeld, Running, Electrum
<1>0. /\ TypeOK /\ NothingHeld /\ WatchedIsHeld
      /\ script \in [Outpoints -> Scripts] /\ subs \in [Scripts -> SUBSET Outpoints]
      /\ reg \in [Outpoints -> [watched : BOOLEAN, tx : Txs \cup {NoTx}, block : BOOLEAN]]
      /\ retry \subseteq Outpoints /\ todo \subseteq Outpoints
  BY DEF IInv, TypeOK
<1> USE <1>0
<1>1. CASE Chain
  BY <1>1, ChainFrame
<1>2. CASE Calls
  BY <1>2, CallsFrame
<1>3. CASE Ends
  BY <1>3, EndsFrame
<1>4. CASE Restart
  BY <1>4, RestartFrame DEF NothingHeld
<1>5. CASE Moves
  BY <1>5, MovesFrame
<1>6. CASE Links
  BY <1>6, LinksFrame
<1>7. CASE UNCHANGED vars
  BY <1>7, Stutter
<1>8. CASE HandleRegister
  BY <1>8, CommandArgument DEF HandleRegister, Command, Merge, Free
<1>9. CASE HandleRebuild
  BY <1>9, CommandArgument DEF HandleRebuild, Command, Merge, Free
<1>10. CASE Rescan
  BY <1>10 DEF Rescan, RecordBlocks
<1>11. CASE HandleWatch
  <2>1. \A p \in Outpoints : reg'[p].watched = reg[p].watched
    BY <1>11, CommandArgument DEF HandleWatch, Command
  <2>2. QED
    BY <1>11, <2>1 DEF HandleWatch, Command, threadFrame
<1>12. CASE HandleUnwatch
  <2> DEFINE u == Head(cmds)[2]
  <2>1. u \in Outpoints /\ reg' = [reg EXCEPT ![u] = None] /\ retry' = retry \ {u}
    BY <1>12, CommandArgument DEF HandleUnwatch, Command
  <2>2. Electrum => subs' = [subs EXCEPT ![script[u]] = @ \ {u}]
    BY <1>12 DEF HandleUnwatch, Unsubscribe
  <2>3. ~reg'[u].watched /\ \A p \in Outpoints \ {u} : reg'[p] = reg[p]
    BY <2>1 DEF None
  <2>4. Electrum => \A p \in Outpoints \ {u} : p \in subs[script[p]] => p \in subs'[script[p]]
    BY <2>1, <2>2
  <2>5. todo' = todo /\ job' = job /\ script' = script /\ backend' = backend /\ Running
    BY <1>12 DEF HandleUnwatch, Command, threadFrame
  <2> HIDE DEF u
  <2>6. QED
    BY <2>1, <2>3, <2>4, <2>5
<1>13. CASE Arm
  <2>1. PICK o \in todo :
          /\ todo' = todo \ {o}
          /\ \/ /\ subs[script[o]] # {} /\ subs' = [subs EXCEPT ![script[o]] = @ \cup {o}]
                /\ job' = job /\ retry' = retry
             \/ subs' = subs /\ job' = <<"subscribe", o>> /\ retry' = retry
             \/ retry' = retry \cup {o} /\ subs' = subs /\ job' = job
    BY <1>13 DEF Arm
  <2>2. reg' = reg /\ script' = script /\ backend' = backend /\ pc' = pc /\ job = Idle
    BY <1>13 DEF Arm, stepFrame, threadFrame
  <2>3. ASSUME Electrum, Running, NEW p \in Outpoints, reg[p].watched
        PROVE  p \in subs[script[p]] \cup retry \cup todo
    BY <2>2, <2>3, IdleIsNoJob
  <2>4. \A p \in Outpoints : subs[script[p]] \subseteq subs'[script[p]]
    BY <2>1
  <2>5. o \in subs'[script[o]] \cup retry' \/ job' = <<"subscribe", o>>
    BY <2>1
  <2>6. retry \subseteq retry' /\ todo \subseteq todo' \cup {o}
    BY <2>1
  <2>7. QED
    BY <2>2, <2>3, <2>4, <2>5, <2>6
<1>14. CASE SubscribeRead
  <2> DEFINE o == job[2]
  <2>1. o \in Outpoints /\ job = <<"subscribe", o>>
    BY <1>14, JobArgument DEF SubscribeRead
  <2>2. \/ subs' = [subs EXCEPT ![script[o]] = @ \cup {o}] /\ retry' = retry
        \/ subs' = subs /\ retry' = retry \cup {o}
    BY <1>14 DEF SubscribeRead
  <2>3. reg' = reg /\ script' = script /\ backend' = backend /\ pc' = pc /\ todo' = todo
    BY <1>14 DEF SubscribeRead, stepFrame, threadFrame
  <2>4. /\ o \in subs'[script[o]] \cup retry' /\ retry \subseteq retry'
        /\ \A s \in Scripts : subs[s] \subseteq subs'[s]
    <3>1. script[o] \in Scripts
      BY <2>1
    <3> HIDE DEF o
    <3>2. CASE subs' = [subs EXCEPT ![script[o]] = @ \cup {o}] /\ retry' = retry
      BY <3>1, <3>2
    <3>3. CASE subs' = subs /\ retry' = retry \cup {o}
      BY <3>3
    <3>4. QED
      BY <2>2, <3>2, <3>3
  <2>5. \A p \in Outpoints : job = <<"subscribe", p>> => p = o
    BY <2>1
  <2> HIDE DEF o
  <2>6. QED
    BY <2>3, <2>4, <2>5
<1>15. CASE RetrySubscribes
  BY <1>15 DEF RetrySubscribes, Free
<1>16. CASE HandleEvent
  <2> DEFINE t == Head(feed)[2]  b == Head(feed)[1] = "block"
  <2>1. t \in Txs /\ b \in BOOLEAN /\ reg' = Record(reg, t, b)
    BY <1>16, EventArgument DEF HandleEvent
  <2> HIDE DEF t, b
  <2>2. \A p \in Outpoints : reg'[p].watched = reg[p].watched
    BY <2>1, RecordKeepsWatches
  <2>3. QED
    BY <1>16, <2>2 DEF HandleEvent, stepFrame, threadFrame
<1>17. CASE PopStatus
  BY <1>17, IdleIsNoJob DEF PopStatus, Polling
<1>18. CASE ReadHistory
  <2>1. \A p \in Outpoints : job # <<"subscribe", p>>
    BY <1>18, SMTT(20) DEF ReadHistory
  <2>2. QED
    BY <1>18, <2>1 DEF ReadHistory, stepFrame, threadFrame
<1>19. CASE ZmqLost
  BY <1>19 DEF ZmqLost, stepFrame, threadFrame
<1>20. QED
  BY NextCases, <1>1, <1>2, <1>3, <1>4, <1>5, <1>6, <1>7, <1>8, <1>9, <1>10,
     <1>11, <1>12, <1>13, <1>14, <1>15, <1>16, <1>17, <1>18, <1>19

\* The subscriptions are on the connection, unless it is new.
LEMMA ArmedStep ==
  ASSUME IInv, [Next]_vars PROVE HeldArmed'
<1> USE DEF threadFrame, stepFrame, env, HeldArmed, Running, Electrum
<1>0. /\ TypeOK /\ NothingHeld /\ HeldArmed /\ rearm \in BOOLEAN
      /\ script \in [Outpoints -> Scripts] /\ subs \in [Scripts -> SUBSET Outpoints]
      /\ armed \subseteq Scripts /\ todo \subseteq Outpoints
  BY DEF IInv, TypeOK
<1> USE <1>0
<1>1. CASE Chain
  BY <1>1, ChainFrame
<1>2. CASE Calls
  BY <1>2, CallsFrame
<1>3. CASE Ends
  BY <1>3, EndsFrame
<1>4. CASE Restart
  BY <1>4, RestartFrame, IdleIsNoJob DEF NothingHeld
<1>5. CASE Moves
  BY <1>5, MovesFrame
<1>6. CASE Links
  <2>1. CASE Recycle
    <3>1. job' = job /\ job = Idle /\ script' = script /\ backend' = backend /\ subs' = subs
      BY <2>1 DEF Recycle, Polling, stepFrame, threadFrame
    <3>2. \/ rearm' = TRUE /\ pc' = pc /\ pc = "events"
          \/ pc = "events" /\ pc' = "retry" /\ armed' = armed /\ rearm' = rearm
      BY <2>1 DEF Recycle, Polling
    <3>3. QED
      BY <3>1, <3>2, IdleIsNoJob
  <2>2. CASE RearmBegins
    BY <2>2, IdleIsNoJob DEF RearmBegins, Polling
  <2>3. CASE Rearm
    BY <2>3 DEF Rearm, Subscribed
  <2>4. CASE PopFails
    BY <2>4 DEF PopFails, Polling
  <2>5. CASE Reconnect
    BY <2>5 DEF Reconnect
  <2>6. QED
    BY <1>6, <2>1, <2>2, <2>3, <2>4, <2>5 DEF Links
<1>7. CASE UNCHANGED vars
  BY <1>7, Stutter
<1>8. CASE HandleRegister
  BY <1>8 DEF HandleRegister, Command, electrum
<1>9. CASE HandleRebuild
  BY <1>9 DEF HandleRebuild, Command, electrum
<1>10. CASE Rescan
  BY <1>10 DEF Rescan, electrum
<1>11. CASE HandleWatch
  BY <1>11 DEF HandleWatch, Command, electrum
<1>12. CASE HandleUnwatch
  <2> DEFINE u == Head(cmds)[2]
  <2>1. u \in Outpoints
    BY <1>12, CommandArgument DEF HandleUnwatch, Command
  <2>2. Electrum => subs' = [subs EXCEPT ![script[u]] = @ \ {u}] /\ armed' = armed /\ rearm' = rearm
    BY <1>12 DEF HandleUnwatch, Unsubscribe
  <2>3. Electrum => \A s \in Scripts : subs'[s] \subseteq subs[s]
    <3>1. script[u] \in Scripts
      BY <2>1
    <3>2. ASSUME Electrum, NEW s \in Scripts PROVE subs'[s] \subseteq subs[s]
      <4> HIDE DEF u
      <4>1. CASE s = script[u]
        BY <2>2, <3>1, <3>2, <4>1
      <4>2. CASE s # script[u]
        BY <2>2, <3>1, <3>2, <4>2
      <4>3. QED
        BY <4>1, <4>2
    <3>3. QED
      BY <3>2
  <2>4. /\ job' = job /\ script' = script /\ backend' = backend
        /\ Running /\ pc # "rearm" /\ pc' = "drain"
    BY <1>12 DEF HandleUnwatch, Command, threadFrame
  <2> HIDE DEF u
  <2>5. QED
    BY <2>2, <2>3, <2>4
<1>13. CASE Arm
  BY <1>13, SMTT(20) DEF Arm, stepFrame, threadFrame
<1>14. CASE SubscribeRead
  <2> DEFINE o == job[2]
  <2>1. o \in Outpoints /\ job = <<"subscribe", o>>
    BY <1>14, JobArgument DEF SubscribeRead
  <2>2. \/ subs' = [subs EXCEPT ![script[o]] = @ \cup {o}]
        \/ subs' = subs
    BY <1>14 DEF SubscribeRead
  <2>3. /\ script' = script /\ backend' = backend /\ pc' = pc /\ armed' = armed
        /\ rearm' = rearm /\ job' = Idle
    BY <1>14 DEF SubscribeRead, stepFrame, threadFrame
  <2>4. Electrum /\ Running => script[o] \in armed \/ rearm
    BY <2>1
  <2>5. \A s \in Scripts \ {script[o]} : subs'[s] = subs[s]
    BY <2>1, <2>2
  <2> HIDE DEF o
  <2>6. QED
    BY <2>3, <2>4, <2>5, IdleIsNoJob
<1>15. CASE RetrySubscribes
  BY <1>15 DEF RetrySubscribes, electrum
<1>16. CASE HandleEvent
  BY <1>16 DEF HandleEvent, electrum
<1>17. CASE PopStatus
  BY <1>17 DEF PopStatus, Polling, stepFrame, threadFrame
<1>18. CASE ReadHistory
  <2>1. /\ job' = Idle /\ pc' = pc /\ armed' = armed /\ rearm' = rearm /\ subs' = subs
        /\ script' = script /\ backend' = backend
    BY <1>18 DEF ReadHistory, stepFrame, threadFrame
  <2>2. QED
    BY <2>1, IdleIsNoJob
<1>19. CASE ZmqLost
  BY <1>19 DEF ZmqLost, electrum
<1>20. QED
  BY NextCases, <1>1, <1>2, <1>3, <1>4, <1>5, <1>6, <1>7, <1>8, <1>9, <1>10,
     <1>11, <1>12, <1>13, <1>14, <1>15, <1>16, <1>17, <1>18, <1>19

\* A new spend is flagged on an armed script, and nothing unflags one before its history is
\* read.
LEMMA DeafStep ==
  ASSUME IInv, [Next]_vars PROVE NeverDeaf'
<1> USE DEF threadFrame, stepFrame, env, NeverDeaf, Running, Electrum, Subscribed, Live, ScriptOf
<1>0. /\ TypeOK /\ NothingHeld /\ HeldArmed /\ NeverDeaf /\ rearm \in BOOLEAN
      /\ chain \in [Txs -> {"none", "mempool", "mined", "gone"}]
      /\ script \in [Outpoints -> Scripts] /\ subs \in [Scripts -> SUBSET Outpoints]
      /\ seen \in [Scripts -> SUBSET Txs] /\ Spends \in [Txs -> Outpoints]
      /\ todo \subseteq Outpoints
  BY WatchAssumption DEF IInv, TypeOK
<1> USE <1>0
<1>1. CASE Chain
  <2>1. ASSUME NEW t \in Txs, Broadcast(t) PROVE NeverDeaf'
    BY <2>1 DEF Broadcast, Publish, chainFrame, HeldArmed
  <2>2. ASSUME NEW t \in Txs, Mine(t) PROVE NeverDeaf'
    BY <2>2 DEF Mine, Publish, chainFrame
  <2>3. ASSUME NEW t \in Txs, Unmine(t) PROVE NeverDeaf'
    BY <2>3 DEF Unmine, Publish, chainFrame
  <2>4. ASSUME NEW t \in Txs, NEW u \in Txs, Replace(t, u) PROVE NeverDeaf'
    BY <2>4 DEF Replace, Publish, chainFrame, HeldArmed
  <2>5. QED
    BY <1>1, <2>1, <2>2, <2>3, <2>4 DEF Chain
<1>2. CASE Calls
  BY <1>2, CallsFrame
<1>3. CASE Ends
  BY <1>3, EndsFrame
<1>4. CASE Restart
  BY <1>4, RestartFrame, IdleIsNoJob DEF NothingHeld
<1>5. CASE Moves
  BY <1>5, MovesFrame
<1>6. CASE Links
  <2>1. CASE Recycle
    <3>1. /\ job' = job /\ script' = script /\ backend' = backend /\ subs' = subs
          /\ chain' = chain /\ seen' = seen /\ dirty' = dirty
      BY <2>1 DEF Recycle, stepFrame, threadFrame
    <3>2. \/ rearm' = TRUE /\ pc' = pc
          \/ pc = "events" /\ pc' = "retry" /\ notif' = notif /\ rearm' = rearm
      BY <2>1 DEF Recycle, Polling
    <3>3. QED
      BY <3>1, <3>2
  <2>2. CASE RearmBegins
    BY <2>2 DEF RearmBegins, Polling
  <2>3. CASE Rearm
    BY <2>3 DEF Rearm
  <2>4. CASE PopFails
    BY <2>4 DEF PopFails, Polling
  <2>5. CASE Reconnect
    BY <2>5 DEF Reconnect
  <2>6. QED
    BY <1>6, <2>1, <2>2, <2>3, <2>4, <2>5 DEF Links
<1>7. CASE UNCHANGED vars
  BY <1>7, Stutter
<1>8. CASE HandleRegister
  BY <1>8 DEF HandleRegister, Command, electrum
<1>9. CASE HandleRebuild
  BY <1>9 DEF HandleRebuild, Command, electrum
<1>10. CASE Rescan
  BY <1>10 DEF Rescan, electrum
<1>11. CASE HandleWatch
  BY <1>11 DEF HandleWatch, Command, electrum
<1>12. CASE HandleUnwatch
  <2> DEFINE u == Head(cmds)[2]  s == script[u]
  <2>1. u \in Outpoints /\ s \in Scripts
    BY <1>12, CommandArgument DEF HandleUnwatch, Command
  <2>2. /\ job' = job /\ script' = script /\ backend' = backend /\ chain' = chain
        /\ Running /\ pc # "rearm"
    BY <1>12 DEF HandleUnwatch, Command, threadFrame
  <2>3. Electrum => Unsubscribe(u)
    BY <1>12 DEF HandleUnwatch
  <2>4. Electrum => subs' = [subs EXCEPT ![s] = @ \ {u}] /\ notif' = notif /\ rearm' = rearm
    BY <2>3 DEF Unsubscribe
  <2>5. Electrum =>
          \/ seen' = seen /\ dirty' = dirty
          \/ subs[s] \ {u} = {} /\ seen' = [seen EXCEPT ![s] = {}] /\ dirty' = dirty \ {s}
    BY <2>3 DEF Unsubscribe
  <2>6. \A t \in Txs : ScriptOf(t) \in Scripts
    BY WatchAssumption
  <2> HIDE DEF u, s
  <2>7. ASSUME Electrum, NEW t \in Txs, Live(t), subs'[ScriptOf(t)] # {}
        PROVE  subs[ScriptOf(t)] # {} /\ seen'[ScriptOf(t)] = seen[ScriptOf(t)]
               /\ (ScriptOf(t) \in dirty => ScriptOf(t) \in dirty')
    <3> DEFINE x == ScriptOf(t)
    <3>1. x \in Scripts /\ subs'[x] # {}
      BY <2>6, <2>7
    <3> HIDE DEF x
    <3>2. CASE x = s
      <4>1. subs'[s] = subs[s] \ {u}
        BY <2>1, <2>4, <2>7
      <4>2. subs[s] \ {u} # {}
        BY <3>1, <3>2, <4>1
      <4>3. seen' = seen /\ dirty' = dirty
        BY <2>5, <2>7, <4>2
      <4>4. subs[s] # {}
        BY <4>2
      <4>5. subs[x] # {} /\ seen'[x] = seen[x] /\ (x \in dirty => x \in dirty')
        BY <3>2, <4>3, <4>4
      <4>6. QED
        BY <4>5 DEF x
    <3>3. CASE x # s
      <4>1. subs'[x] = subs[x] /\ seen'[x] = seen[x] /\ (x \in dirty => x \in dirty')
        BY <2>1, <2>4, <2>5, <2>7, <3>1, <3>3
      <4>2. QED
        BY <3>1, <4>1 DEF x
    <3>4. QED
      BY <3>2, <3>3
  <2>8. QED
    BY <2>2, <2>4, <2>6, <2>7
<1>13. CASE Arm
  BY <1>13, IdleIsNoJob DEF Arm
<1>14. CASE SubscribeRead
  <2> DEFINE o == job[2]  s == script[o]
  <2>1. o \in Outpoints /\ s \in Scripts /\ job = <<"subscribe", o>>
    BY <1>14, JobArgument DEF SubscribeRead
  <2>2. /\ job' = Idle /\ pc' = pc /\ notif' = notif /\ rearm' = rearm
        /\ script' = script /\ backend' = backend /\ chain' = chain
    BY <1>14 DEF SubscribeRead, stepFrame, threadFrame
  <2>3. \/ subs' = [subs EXCEPT ![s] = @ \cup {o}] /\ Fetch(s, History(s))
        \/ subs' = subs /\ dirty' = dirty /\ seen' = seen
    BY <1>14 DEF SubscribeRead
  <2>4. \A x \in Scripts : job # <<"read", x>>
    BY <2>1
  <2>5. \A t \in Txs : ScriptOf(t) \in Scripts
    BY WatchAssumption
  <2> HIDE DEF o, s
  <2>6. CASE subs' = subs /\ dirty' = dirty /\ seen' = seen
    BY <2>2, <2>4, <2>5, <2>6
  <2>7. CASE subs' = [subs EXCEPT ![s] = @ \cup {o}] /\ Fetch(s, History(s))
    <3>1. History(s) \in SUBSET Txs
      BY DEF History
    <3>2. /\ \A x \in Scripts : seen[x] \subseteq seen'[x]
          /\ dirty \subseteq dirty'
          /\ History(s) \subseteq seen'[s] \/ s \in dirty'
      BY <2>1, <2>7, <3>1, FetchHears
    <3>3. \A x \in Scripts \ {s} : subs'[x] = subs[x]
      BY <2>1, <2>7
    <3>4. \A t \in Txs : Live(t) /\ ScriptOf(t) = s => t \in History(s)
      BY DEF History
    <3>5. QED
      BY <2>2, <2>4, <2>5, <3>2, <3>3, <3>4
  <2>8. QED
    BY <2>3, <2>6, <2>7
<1>15. CASE RetrySubscribes
  BY <1>15 DEF RetrySubscribes, electrum
<1>16. CASE HandleEvent
  BY <1>16 DEF HandleEvent, electrum
<1>17. CASE PopStatus
  BY <1>17, IdleIsNoJob DEF PopStatus, Polling
<1>18. CASE ReadHistory
  <2> DEFINE s == job[2]
  <2>1. s \in Scripts /\ job = <<"read", s>>
    BY <1>18, JobArgument DEF ReadHistory
  <2>2. /\ job' = Idle /\ pc' = pc /\ notif' = notif /\ rearm' = rearm /\ subs' = subs
        /\ script' = script /\ backend' = backend /\ chain' = chain
    BY <1>18 DEF ReadHistory, stepFrame, threadFrame
  <2>3. \/ Fetch(s, History(s) \ seen[s])
        \/ dirty' = dirty \cup {s} /\ seen' = seen
    BY <1>18 DEF ReadHistory
  <2> HIDE DEF s
  <2>4. History(s) \ seen[s] \in SUBSET Txs
    BY DEF History
  <2>5. /\ \A x \in Scripts : seen[x] \subseteq seen'[x]
        /\ dirty \subseteq dirty'
        /\ History(s) \subseteq seen'[s] \/ s \in dirty'
    BY <2>1, <2>3, <2>4, FetchHears
  <2>6. \A x \in Scripts : job = <<"read", x>> => x = s
    BY <2>1
  <2>7. \A t \in Txs : Live(t) /\ ScriptOf(t) = s => t \in History(s)
    BY DEF History
  <2>8. \A t \in Txs : ScriptOf(t) \in Scripts
    BY WatchAssumption
  <2>9. QED
    BY <2>1, <2>2, <2>5, <2>6, <2>7, <2>8
<1>19. CASE ZmqLost
  BY <1>19 DEF ZmqLost, electrum
<1>20. QED
  BY NextCases, <1>1, <1>2, <1>3, <1>4, <1>5, <1>6, <1>7, <1>8, <1>9, <1>10,
     <1>11, <1>12, <1>13, <1>14, <1>15, <1>16, <1>17, <1>18, <1>19

-----------------------------------------------------------------------------
(* What is queued, and what of it is recorded.                             *)

\* A contract's output has one live spend at a time.
Single == \A t, u \in Txs : Live(t) /\ Live(u) /\ Spends[t] = Spends[u] => t = u

\* Nothing is queued for a watcher that is gone, and a new one watches nothing.
Blank ==
  /\ ~Running => feed = <<>>
  /\ pc = "start" => \A o \in Outpoints : ~reg[o].watched

\* No event of q is of a spend of o; the last of those that spend what t does is t's block;
\* those after the n-th are of t; one is of t, and those after it as well.
SilentIn(q, o) == \A j \in 1..Len(q) : Spends[q[j][2]] # o
ReportedIn(q, t) ==
  \E i \in 1..Len(q) :
    /\ q[i] = <<"block", t>>
    /\ \A j \in 1..Len(q) : j > i => Spends[q[j][2]] # Spends[t]
OnlyAfter(q, t, n) ==
  \A j \in 1..Len(q) : j > n /\ Spends[q[j][2]] = Spends[t] => q[j][2] = t
ComingIn(q, t) == \E i \in 1..Len(q) : q[i][2] = t /\ OnlyAfter(q, t, i)

\* On Core the last queued message about a mined spend's outpoint is its block; without one,
\* the spend of a watched outpoint is recorded as confirmed, unless it was missed.
Reported ==
  ~Electrum => \A t \in Txs : chain[t] = "mined" => ReportedIn(feed, t) \/ SilentIn(feed, Spends[t])
Awake == pc \in {"commands", "drain", "events", "retry", "rearm"}
Noted ==
  ~Electrum /\ Awake =>
    \A t \in Txs \ missed :
      LET o == Spends[t] IN
      chain[t] = "mined" /\ reg[o].watched /\ SilentIn(feed, o) => reg[o].tx = t /\ reg[o].block

\* On Core no script is subscribed or to be.
Unsubscribed ==
  ~Electrum => retry = {} /\ todo = {} /\ job = Idle /\ \A s \in Scripts : subs[s] = {}

\* On Electrum nothing is queued or recorded as confirmed.
Plain ==
  Electrum => /\ pc # "rescan"
              /\ \A i \in 1..Len(feed) : feed[i][1] = "tx"
              /\ \A o \in Outpoints : ~reg[o].block

\* The commands concern the wallet's contracts.
UsedCommands == ({"register", "unwatch", "watch"} \X used) \cup ({"rebuild"} \X SUBSET used)
Ours == contracts \subseteq used /\ cmds \in Seq(UsedCommands)

\* A subscription, one to be made or the one under way is of a watched contract.
Owned ==
  /\ \A o \in retry \cup todo : o \in used /\ reg[o].watched
  /\ \A o \in Outpoints : job = <<"subscribe", o>> =>
       o \in used /\ reg[o].watched /\ subs[script[o]] = {}
  /\ \A s \in Scripts : job = <<"read", s>> => subs[s] # {}
  /\ \A s \in Scripts, o \in Outpoints : o \in subs[s] =>
       o \in used /\ reg[o].watched /\ script[o] = s

\* What was seen under a script is a spend there has been, and goes with the entry.
Sighted ==
  \A s \in Scripts :
    /\ subs[s] = {} => seen[s] = {}
    /\ \A t \in seen[s] : chain[t] # "none" /\ ScriptOf(t) = s

\* On Electrum a live spend that was seen is recorded or queued, behind every event of a rival,
\* or was given up.
Kept ==
  Electrum =>
    \A t \in Txs :
      Live(t) /\ ~Shared(Spends[t]) /\ t \in seen[ScriptOf(t)] =>
        \/ attempts[t] > Cap
        \/ reg[Spends[t]].tx = t /\ OnlyAfter(feed, t, 0)
        \/ ComingIn(feed, t)

RInv ==
  /\ IInv /\ Single /\ Blank /\ Reported /\ Noted
  /\ Unsubscribed /\ Plain /\ Ours /\ Owned /\ Sighted /\ Kept

-----------------------------------------------------------------------------
(* Queues of events.                                                       *)

\* A queue without its head.
LEMMA SeqTail ==
  ASSUME NEW D, NEW q \in Seq(D), q # <<>>
  PROVE  /\ Len(q) \in Nat /\ Len(q) > 0 /\ Head(q) = q[1] /\ q[1] \in D
         /\ Tail(q) \in Seq(D) /\ Len(Tail(q)) = Len(q) - 1
         /\ \A j \in 1..Len(q) - 1 : Tail(q)[j] = q[j + 1]
OBVIOUS

\* A queue with another behind it.
LEMMA SeqJoin ==
  ASSUME NEW D, NEW q \in Seq(D), NEW e \in Seq(D)
  PROVE  /\ q \o e \in Seq(D) /\ Len(q) \in Nat /\ Len(e) \in Nat
         /\ Len(q \o e) = Len(q) + Len(e)
         /\ \A j \in 1..Len(q) : (q \o e)[j] = q[j]
         /\ \A j \in 1..Len(e) : (q \o e)[Len(q) + j] = e[j]
         /\ \A j \in 1..Len(q) + Len(e) :
              \/ j \in 1..Len(q) /\ (q \o e)[j] = q[j]
              \/ \E i \in 1..Len(e) : j = Len(q) + i /\ (q \o e)[j] = e[i]
<1> DEFINE r == q \o e  n == Len(q)  m == Len(e)
<1>1. /\ r \in Seq(D) /\ n \in Nat /\ m \in Nat /\ Len(r) = n + m
      /\ \A j \in 1..n : r[j] = q[j]
      /\ \A j \in 1..m : r[n + j] = e[j]
  OBVIOUS
<1> HIDE DEF r, n, m
<1>2. ASSUME NEW j \in 1..n + m
      PROVE  \/ j \in 1..n /\ r[j] = q[j]
             \/ \E i \in 1..m : j = n + i /\ r[j] = e[i]
  <2>1. CASE j <= n
    BY <1>1, <2>1
  <2>2. CASE j > n
    <3>1. j - n \in 1..m /\ j = n + (j - n)
      BY <1>1, <2>2
    <3>2. r[n + (j - n)] = e[j - n]
      BY <1>1, <3>1
    <3>3. r[j] = e[j - n]
      BY <3>1, <3>2
    <3>4. QED
      BY <3>1, <3>3
  <2>3. QED
    BY <1>1, <2>1, <2>2
<1>3. QED
  BY <1>1, <1>2 DEF r, n, m

\* An event is a kind and a transaction.
LEMMA EventParts ==
  ASSUME NEW q \in Seq(Events)
  PROVE  \A j \in 1..Len(q) : q[j][2] \in Txs /\ q[j] = <<q[j][1], q[j][2]>>
<1>1. \A j \in 1..Len(q) : q[j] \in Events
  OBVIOUS
<1>2. \A e \in Events : e[2] \in Txs /\ e = <<e[1], e[2]>>
  BY DEF Events
<1>3. QED
  BY <1>1, <1>2

\* HandleEvent takes the head of the queue: what is said of the rest.
LEMMA TailSilent ==
  ASSUME NEW q \in Seq(Events), q # <<>>, NEW t \in Txs
  PROVE  /\ SilentIn(q, Spends[t]) => SilentIn(Tail(q), Spends[t]) /\ Spends[Head(q)[2]] # Spends[t]
         /\ ReportedIn(q, t) => \/ ReportedIn(Tail(q), t) /\ ~SilentIn(Tail(q), Spends[t])
                                \/ Head(q) = <<"block", t>> /\ SilentIn(Tail(q), Spends[t])
<1>0. /\ Len(q) \in Nat /\ Len(q) > 0 /\ Head(q) = q[1] /\ Len(Tail(q)) = Len(q) - 1
      /\ \A j \in 1..Len(q) - 1 : Tail(q)[j] = q[j + 1]
  BY SeqTail
<1> DEFINE p == Tail(q)  n == Len(q)
<1>1. /\ n \in Nat /\ n > 0 /\ Len(p) = n - 1 /\ Head(q) = q[1]
      /\ \A j \in 1..n - 1 : p[j] = q[j + 1]
  BY <1>0
<1>2. SilentIn(q, Spends[t]) => SilentIn(p, Spends[t]) /\ Spends[q[1][2]] # Spends[t]
  <2>1. SUFFICES ASSUME \A j \in 1..n : Spends[q[j][2]] # Spends[t]
                 PROVE  (\A j \in 1..n - 1 : Spends[p[j][2]] # Spends[t]) /\ Spends[q[1][2]] # Spends[t]
    BY <1>1 DEF SilentIn
  <2> HIDE DEF p, n
  <2>2. \A j \in 1..n - 1 : j + 1 \in 1..n /\ p[j] = q[j + 1]
    BY <1>1
  <2>3. 1 \in 1..n
    BY <1>1
  <2>4. QED
    BY <2>1, <2>2, <2>3
<1>3. ReportedIn(q, t) => \/ ReportedIn(p, t) /\ ~SilentIn(p, Spends[t])
                          \/ q[1] = <<"block", t>> /\ SilentIn(p, Spends[t])
  <2> HIDE DEF p, n
  <2>a. /\ SilentIn(p, Spends[t]) <=> \A j \in 1..n - 1 : Spends[p[j][2]] # Spends[t]
        /\ ReportedIn(p, t) <=> \E k \in 1..n - 1 :
             /\ p[k] = <<"block", t>>
             /\ \A j \in 1..n - 1 : j > k => Spends[p[j][2]] # Spends[t]
    BY <1>1 DEF SilentIn, ReportedIn
  <2>b. ReportedIn(p, t) => ~SilentIn(p, Spends[t])
    BY <2>a, SMTT(20)
  <2>1. SUFFICES ASSUME NEW i \in 1..n, q[i] = <<"block", t>>,
                        \A j \in 1..n : j > i => Spends[q[j][2]] # Spends[t]
                 PROVE  \/ \E k \in 1..n - 1 :
                             /\ p[k] = <<"block", t>>
                             /\ \A j \in 1..n - 1 : j > k => Spends[p[j][2]] # Spends[t]
                        \/ q[1] = <<"block", t>> /\ \A j \in 1..n - 1 : Spends[p[j][2]] # Spends[t]
    <3>1. ReportedIn(q, t) => \E i \in 1..n : /\ q[i] = <<"block", t>>
                                              /\ \A j \in 1..n : j > i => Spends[q[j][2]] # Spends[t]
      BY DEF ReportedIn, n
    <3>2. QED
      BY <2>a, <2>b, <3>1
  <2>2. \A j \in 1..n - 1 : j + 1 \in 1..n /\ p[j] = q[j + 1]
    BY <1>1
  <2>3. CASE i = 1
    <3>1. \A j \in 1..n - 1 : j + 1 > i
      BY <2>3
    <3>2. QED
      BY <2>1, <2>2, <2>3, <3>1
  <2>4. CASE i # 1
    <3>1. i - 1 \in 1..n - 1 /\ (i - 1) + 1 = i
      BY <1>1, <2>4
    <3>2. p[i - 1] = <<"block", t>>
      BY <2>1, <2>2, <3>1
    <3>3. \A j \in 1..n - 1 : j > i - 1 => j + 1 > i
      OBVIOUS
    <3>4. \A j \in 1..n - 1 : j > i - 1 => Spends[p[j][2]] # Spends[t]
      BY <2>1, <2>2, <3>3
    <3>5. QED
      BY <3>1, <3>2, <3>4
  <2>5. QED
    BY <2>3, <2>4
<1>4. QED
  BY <1>1, <1>2, <1>3

\* Events of another outpoint are queued behind.
LEMMA JoinSilent ==
  ASSUME NEW q \in Seq(Events), NEW e \in Seq(Events), NEW t \in Txs
  PROVE  /\ SilentIn(q \o e, Spends[t]) => SilentIn(q, Spends[t]) /\ SilentIn(e, Spends[t])
         /\ SilentIn(e, Spends[t]) /\ SilentIn(q, Spends[t]) => SilentIn(q \o e, Spends[t])
         /\ SilentIn(e, Spends[t]) /\ ReportedIn(q, t) => ReportedIn(q \o e, t)
         /\ ReportedIn(e, t) => ReportedIn(q \o e, t)
<1> DEFINE r == q \o e  n == Len(q)  m == Len(e)
<1>1. /\ n \in Nat /\ m \in Nat /\ Len(r) = n + m
      /\ \A j \in 1..n : r[j] = q[j]
      /\ \A j \in 1..m : r[n + j] = e[j]
  BY SeqJoin
<1> HIDE DEF r, n, m
<1>2. \A j \in 1..n : j \in 1..n + m
  BY <1>1
<1>3. \A j \in 1..m : n + j \in 1..n + m
  BY <1>1
<1>4. \A j \in 1..n + m : \/ j \in 1..n /\ r[j] = q[j]
                          \/ \E i \in 1..m : j = n + i /\ r[j] = e[i]
  BY SeqJoin DEF r, n, m
<1>5. /\ SilentIn(q, Spends[t]) <=> \A j \in 1..n : Spends[q[j][2]] # Spends[t]
      /\ SilentIn(e, Spends[t]) <=> \A j \in 1..m : Spends[e[j][2]] # Spends[t]
      /\ SilentIn(r, Spends[t]) <=> \A j \in 1..n + m : Spends[r[j][2]] # Spends[t]
  BY <1>1 DEF SilentIn, n, m
<1>6. SilentIn(r, Spends[t]) => SilentIn(q, Spends[t]) /\ SilentIn(e, Spends[t])
  BY <1>1, <1>2, <1>3, <1>5, SMTT(20)
<1>7. SilentIn(e, Spends[t]) /\ SilentIn(q, Spends[t]) => SilentIn(r, Spends[t])
  <2>1. SUFFICES ASSUME SilentIn(e, Spends[t]), SilentIn(q, Spends[t]), NEW j \in 1..n + m
                 PROVE  Spends[r[j][2]] # Spends[t]
    BY <1>5
  <2>2. CASE j \in 1..n /\ r[j] = q[j]
    BY <1>5, <2>1, <2>2
  <2>3. CASE \E i \in 1..m : r[j] = e[i]
    BY <1>5, <2>1, <2>3
  <2>4. QED
    BY <1>4, <2>2, <2>3
<1>8. SilentIn(e, Spends[t]) /\ ReportedIn(q, t) => ReportedIn(r, t)
  <2>1. SUFFICES ASSUME SilentIn(e, Spends[t]), NEW i \in 1..n, q[i] = <<"block", t>>,
                        \A j \in 1..n : j > i => Spends[q[j][2]] # Spends[t]
                 PROVE  ReportedIn(r, t)
    BY DEF ReportedIn, n
  <2>2. r[i] = <<"block", t>> /\ i \in 1..n + m
    BY <1>1, <1>2, <2>1
  <2>3. ASSUME NEW j \in 1..n + m, j > i PROVE Spends[r[j][2]] # Spends[t]
    <3>1. CASE j \in 1..n /\ r[j] = q[j]
      BY <2>1, <2>3, <3>1
    <3>2. CASE \E k \in 1..m : r[j] = e[k]
      BY <1>5, <2>1, <3>2
    <3>3. QED
      BY <1>4, <3>1, <3>2
  <2>4. QED
    BY <1>1, <2>2, <2>3 DEF ReportedIn
<1>9. ReportedIn(e, t) => ReportedIn(r, t)
  <2>1. SUFFICES ASSUME NEW i \in 1..m, e[i] = <<"block", t>>,
                        \A j \in 1..m : j > i => Spends[e[j][2]] # Spends[t]
                 PROVE  ReportedIn(r, t)
    BY DEF ReportedIn, m
  <2>2. r[n + i] = <<"block", t>> /\ n + i \in 1..n + m
    BY <1>1, <1>3, <2>1
  <2>3. \A j \in 1..n + m : j > n + i => \E k \in 1..m : k > i /\ r[j] = e[k]
    BY <1>1, <1>4
  <2>4. \A j \in 1..n + m : j > n + i => Spends[r[j][2]] # Spends[t]
    BY <2>1, <2>3
  <2>5. QED
    BY <1>1, <2>2, <2>4 DEF ReportedIn
<1>10. QED
  BY <1>6, <1>7, <1>8, <1>9 DEF r

\* The same for the events of a spend that Electrum's queue holds.
LEMMA TailComing ==
  ASSUME NEW q \in Seq(Events), q # <<>>, NEW t \in Txs
  PROVE  /\ OnlyAfter(q, t, 0) => /\ OnlyAfter(Tail(q), t, 0)
                                  /\ Spends[Head(q)[2]] = Spends[t] => Head(q)[2] = t
         /\ ComingIn(q, t) => ComingIn(Tail(q), t) \/ (Head(q)[2] = t /\ OnlyAfter(Tail(q), t, 0))
<1> DEFINE p == Tail(q)  n == Len(q)
<1>1. /\ n \in Nat /\ n > 0 /\ Len(p) = n - 1 /\ Head(q) = q[1]
      /\ \A j \in 1..n - 1 : p[j] = q[j + 1]
  BY SeqTail
<1> HIDE DEF p, n
<1>2. \A j \in 1..n - 1 : j + 1 \in 1..n /\ j + 1 > 0 /\ p[j] = q[j + 1]
  BY <1>1
<1>3. 1 \in 1..n /\ 1 > 0
  BY <1>1
<1>4. \A k \in Nat : OnlyAfter(q, t, k) <=>
        \A j \in 1..n : j > k /\ Spends[q[j][2]] = Spends[t] => q[j][2] = t
  BY DEF OnlyAfter, n
<1>5. \A k \in Nat : OnlyAfter(p, t, k) <=>
        \A j \in 1..n - 1 : j > k /\ Spends[p[j][2]] = Spends[t] => p[j][2] = t
  BY <1>1 DEF OnlyAfter
<1>6. OnlyAfter(q, t, 0) => OnlyAfter(p, t, 0) /\ (Spends[q[1][2]] = Spends[t] => q[1][2] = t)
  BY <1>2, <1>3, <1>4, <1>5, SMTT(20)
<1>7. ComingIn(q, t) => ComingIn(p, t) \/ (q[1][2] = t /\ OnlyAfter(p, t, 0))
  <2>1. SUFFICES ASSUME NEW i \in 1..n, q[i][2] = t, OnlyAfter(q, t, i)
                 PROVE  ComingIn(p, t) \/ (q[1][2] = t /\ OnlyAfter(p, t, 0))
    BY DEF ComingIn, n
  <2>2. CASE i = 1
    <3>1. \A j \in 1..n - 1 : j + 1 > i
      BY <2>2
    <3>2. OnlyAfter(p, t, 0)
      BY <1>2, <1>4, <1>5, <2>1, <3>1, SMTT(20)
    <3>3. QED
      BY <2>1, <2>2, <3>2
  <2>3. CASE i # 1
    <3>1. i - 1 \in 1..n - 1 /\ (i - 1) + 1 = i /\ i - 1 \in Nat /\ i \in Nat
      BY <1>1, <2>3
    <3>2. \A j \in 1..n - 1 : j > i - 1 => j + 1 > i
      OBVIOUS
    <3>3. OnlyAfter(p, t, i - 1)
      BY <1>2, <1>4, <1>5, <2>1, <3>1, <3>2, SMTT(20)
    <3>4. p[i - 1][2] = t
      BY <1>2, <2>1, <3>1
    <3>5. QED
      BY <1>1, <3>1, <3>3, <3>4 DEF ComingIn
  <2>4. QED
    BY <2>2, <2>3
<1>8. QED
  BY <1>1, <1>6, <1>7 DEF p

\* Events of which none is of a rival of t are queued behind.
LEMMA JoinComing ==
  ASSUME NEW q \in Seq(Events), NEW e \in Seq(Events), NEW t \in Txs, OnlyAfter(e, t, 0)
  PROVE  /\ OnlyAfter(q, t, 0) => OnlyAfter(q \o e, t, 0)
         /\ ComingIn(q, t) => ComingIn(q \o e, t)
         /\ (\E j \in 1..Len(e) : e[j][2] = t) => ComingIn(q \o e, t)
<1> DEFINE r == q \o e  n == Len(q)  m == Len(e)
<1>1. /\ n \in Nat /\ m \in Nat /\ Len(r) = n + m
      /\ \A j \in 1..n : r[j] = q[j]
      /\ \A j \in 1..m : r[n + j] = e[j]
  BY SeqJoin
<1> HIDE DEF r, n, m
<1>2. \A j \in 1..n : j \in 1..n + m
  BY <1>1
<1>3. \A j \in 1..m : n + j \in 1..n + m
  BY <1>1
<1>4. \A j \in 1..n + m : \/ j \in 1..n /\ r[j] = q[j]
                          \/ \E i \in 1..m : j = n + i /\ r[j] = e[i]
  BY SeqJoin, SMTT(20) DEF r, n, m
<1>5. \A j \in 1..m : Spends[e[j][2]] = Spends[t] => e[j][2] = t
  BY <1>1 DEF OnlyAfter, m
<1>6. \A k \in Nat : OnlyAfter(q, t, k) <=>
        \A j \in 1..n : j > k /\ Spends[q[j][2]] = Spends[t] => q[j][2] = t
  BY DEF OnlyAfter, n
<1>7. \A k \in Nat : OnlyAfter(r, t, k) <=>
        \A j \in 1..n + m : j > k /\ Spends[r[j][2]] = Spends[t] => r[j][2] = t
  BY <1>1 DEF OnlyAfter
<1>8. \A k \in Nat : OnlyAfter(q, t, k) => OnlyAfter(r, t, k)
  <2>1. SUFFICES ASSUME NEW k \in Nat, OnlyAfter(q, t, k), NEW j \in 1..n + m, j > k,
                        Spends[r[j][2]] = Spends[t]
                 PROVE  r[j][2] = t
    BY <1>7
  <2>2. CASE j \in 1..n /\ r[j] = q[j]
    BY <1>6, <2>1, <2>2
  <2>3. CASE \E i \in 1..m : r[j] = e[i]
    BY <1>5, <2>1, <2>3
  <2>4. QED
    BY <1>4, <2>2, <2>3
<1>9. ComingIn(q, t) => ComingIn(r, t)
  <2>1. SUFFICES ASSUME NEW i \in 1..n, q[i][2] = t, OnlyAfter(q, t, i) PROVE ComingIn(r, t)
    BY DEF ComingIn, n
  <2>2. r[i][2] = t /\ i \in 1..n + m /\ i \in Nat
    BY <1>1, <1>2, <2>1
  <2>3. QED
    BY <1>1, <1>8, <2>1, <2>2 DEF ComingIn
<1>10. (\E j \in 1..m : e[j][2] = t) => ComingIn(r, t)
  <2>1. SUFFICES ASSUME NEW i \in 1..m, e[i][2] = t PROVE ComingIn(r, t)
    OBVIOUS
  <2>2. r[n + i][2] = t /\ n + i \in 1..n + m /\ n + i \in Nat
    BY <1>1, <1>3, <2>1, SMTT(20)
  <2>3. \A j \in 1..n + m : j > n + i => \E k \in 1..m : r[j] = e[k]
    BY <1>1, <1>4, SMTT(20)
  <2>4. \A j \in 1..n + m : j > n + i /\ Spends[r[j][2]] = Spends[t] => r[j][2] = t
    BY <1>5, <2>3
  <2>5. OnlyAfter(r, t, n + i)
    BY <1>7, <2>2, <2>4
  <2>6. QED
    BY <1>1, <2>2, <2>5 DEF ComingIn
<1>11. QED
  BY <1>8, <1>9, <1>10 DEF r, m

-----------------------------------------------------------------------------
(* What the steps do.                                                      *)

\* The backend and the contracts' scripts stay; only the chain changes the chain.
LEMMA WorldFrame ==
  ASSUME [Next]_vars
  PROVE  UNCHANGED <<backend, used, script>> /\ (Chain \/ chain' = chain)
<1> USE DEF threadFrame, stepFrame, env
<1>1. CASE Chain
  BY <1>1, ChainFrame
<1>2. CASE Calls
  BY <1>2, CallsFrame
<1>3. CASE Ends
  BY <1>3, EndsFrame
<1>4. CASE Restart
  BY <1>4, RestartFrame
<1>5. CASE Moves
  BY <1>5, MovesFrame
<1>6. CASE Links
  BY <1>6, LinksFrame
<1>7. CASE UNCHANGED vars
  BY <1>7, Stutter
<1>8. CASE HandleRegister \/ HandleRebuild \/ Rescan \/ HandleWatch \/ HandleUnwatch
  BY <1>8 DEF HandleRegister, HandleRebuild, Rescan, HandleWatch, HandleUnwatch
<1>9. CASE Arm \/ SubscribeRead \/ RetrySubscribes \/ HandleEvent
  BY <1>9 DEF Arm, SubscribeRead, RetrySubscribes, HandleEvent
<1>10. CASE PopStatus \/ ReadHistory \/ ZmqLost
  BY <1>10 DEF PopStatus, ReadHistory, ZmqLost
<1>11. QED
  BY NextCases, <1>1, <1>2, <1>3, <1>4, <1>5, <1>6, <1>7, <1>8, <1>9, <1>10

\* The steps that touch the queue of events or the chain.
LEMMA FeedCases ==
  ASSUME [Next]_vars
  PROVE  \/ Chain \/ Ends \/ SubscribeRead \/ ReadHistory \/ HandleEvent \/ ZmqLost
         \/ feed' = feed /\ chain' = chain
<1> USE DEF threadFrame, stepFrame
<1>1. CASE Calls \/ Restart \/ Moves \/ Links \/ UNCHANGED vars
  BY <1>1, CallsFrame, RestartFrame, MovesFrame, LinksFrame, Stutter
<1>2. CASE HandleRegister \/ HandleRebuild \/ Rescan \/ HandleWatch \/ HandleUnwatch
  BY <1>2 DEF HandleRegister, HandleRebuild, Rescan, HandleWatch, HandleUnwatch
<1>3. CASE Arm \/ RetrySubscribes \/ PopStatus
  BY <1>3 DEF Arm, RetrySubscribes, PopStatus
<1>4. QED
  BY NextCases, <1>1, <1>2, <1>3

\* The steps that touch the registry, the requests, the subscriptions or what was seen.
LEMMA HoldCases ==
  ASSUME [Next]_vars
  PROVE  \/ Ends \/ HandleRegister \/ HandleRebuild \/ Rescan \/ HandleWatch \/ HandleUnwatch
         \/ Arm \/ SubscribeRead \/ RetrySubscribes \/ HandleEvent \/ PopStatus \/ ReadHistory
         \/ UNCHANGED <<reg, retry, todo, job, subs, seen, attempts>>
<1>1. CASE Chain \/ Calls \/ Restart \/ Moves \/ Links \/ UNCHANGED vars
  BY <1>1, ChainFrame, CallsFrame, RestartFrame, MovesFrame, LinksFrame, Stutter
<1>2. CASE ZmqLost
  BY <1>2 DEF ZmqLost, electrum
<1>3. QED
  BY NextCases, <1>1, <1>2

\* A step of the chain is about one transaction: it is live afterwards and no rival is, the
\* spends of other outpoints stay, and its events are queued on Core, a block's last.
LEMMA ChainStep ==
  ASSUME TypeOK, Single, Chain
  PROVE  \E x \in Txs, e \in Seq(Events) :
           /\ chain' \in [Txs -> {"none", "mempool", "mined", "gone"}]
           /\ \A t \in Txs : Spends[t] # Spends[x] => chain'[t] = chain[t]
           /\ \A t \in Txs : Spends[t] = Spends[x] /\ chain'[t] \in {"mempool", "mined"} => t = x
           /\ \A t \in Txs : chain[t] # "none" =>
                /\ chain'[t] # "none"
                /\ chain'[t] \in {"mempool", "mined"} => chain[t] \in {"mempool", "mined"}
           /\ Len(e) > 0 /\ \A j \in 1..Len(e) : e[j][2] = x
           /\ chain'[x] = "mined" => ReportedIn(e, x)
           /\ feed' = IF ~Electrum /\ Running THEN feed \o e ELSE feed
<1> USE DEF Live
<1>0. chain \in [Txs -> {"none", "mempool", "mined", "gone"}]
  BY DEF TypeOK
<1>1. ASSUME NEW t \in Txs
      PROVE  LET e == <<<<"tx", t>>>> IN
             e \in Seq(Events) /\ Len(e) > 0 /\ \A j \in 1..Len(e) : e[j][2] = t
  <2> DEFINE e == <<<<"tx", t>>>>
  <2>1. e \in Seq(Events)
    BY EventsOf
  <2>2. Len(e) = 1 /\ e[1] = <<"tx", t>>
    OBVIOUS
  <2> HIDE DEF e
  <2>3. 1..Len(e) = {1}
    BY <2>2
  <2>4. QED
    BY <2>1, <2>2, <2>3 DEF e
<1>2. ASSUME NEW t \in Txs
      PROVE  LET e == <<<<"tx", t>>, <<"block", t>>>> IN
             /\ e \in Seq(Events) /\ Len(e) > 0 /\ \A j \in 1..Len(e) : e[j][2] = t
             /\ ReportedIn(e, t)
  <2> DEFINE e == <<<<"tx", t>>, <<"block", t>>>>
  <2>1. e \in Seq(Events)
    BY EventsOf
  <2>2. Len(e) = 2 /\ e[1] = <<"tx", t>> /\ e[2] = <<"block", t>>
    OBVIOUS
  <2> HIDE DEF e
  <2>3. 1..Len(e) = {1, 2}
    BY <2>2
  <2>4. ReportedIn(e, t)
    BY <2>2, <2>3 DEF ReportedIn
  <2>5. QED
    BY <2>1, <2>2, <2>3, <2>4 DEF e
<1>3. ASSUME NEW t \in Txs, Broadcast(t)
      PROVE  /\ chain' = [chain EXCEPT ![t] = "mempool"] /\ chain[t] = "none"
             /\ \A u \in Txs : Spends[u] = Spends[t] => ~Live(u)
             /\ feed' = IF ~Electrum /\ Running THEN feed \o <<<<"tx", t>>>> ELSE feed
  BY <1>3 DEF Broadcast, Publish
<1>4. ASSUME NEW t \in Txs, Mine(t)
      PROVE  /\ chain' = [chain EXCEPT ![t] = "mined"] /\ chain[t] = "mempool"
             /\ feed' = IF ~Electrum /\ Running THEN feed \o <<<<"tx", t>>, <<"block", t>>>> ELSE feed
  BY <1>4 DEF Mine, Publish
<1>5. ASSUME NEW t \in Txs, Unmine(t)
      PROVE  /\ chain' = [chain EXCEPT ![t] = "mempool"] /\ chain[t] = "mined"
             /\ feed' = IF ~Electrum /\ Running THEN feed \o <<<<"tx", t>>>> ELSE feed
  BY <1>5 DEF Unmine, Publish
<1>6. ASSUME NEW t \in Txs, NEW u \in Txs, Replace(t, u)
      PROVE  /\ chain' = [chain EXCEPT ![t] = "gone", ![u] = "mempool"]
             /\ chain[t] = "mempool" /\ chain[u] = "none" /\ Spends[t] = Spends[u]
             /\ feed' = IF ~Electrum /\ Running THEN feed \o <<<<"tx", u>>>> ELSE feed
  BY <1>6 DEF Replace, Publish
<1> DEFINE Moved(x, e) ==
             /\ chain' \in [Txs -> {"none", "mempool", "mined", "gone"}]
             /\ \A t \in Txs : Spends[t] # Spends[x] => chain'[t] = chain[t]
             /\ \A t \in Txs : Spends[t] = Spends[x] /\ chain'[t] \in {"mempool", "mined"} => t = x
             /\ \A t \in Txs : chain[t] # "none" =>
                  /\ chain'[t] # "none"
                  /\ chain'[t] \in {"mempool", "mined"} => chain[t] \in {"mempool", "mined"}
             /\ Len(e) > 0 /\ \A j \in 1..Len(e) : e[j][2] = x
             /\ chain'[x] = "mined" => ReportedIn(e, x)
             /\ feed' = IF ~Electrum /\ Running THEN feed \o e ELSE feed
<1>7. ASSUME NEW t \in Txs, Broadcast(t) PROVE Moved(t, <<<<"tx", t>>>>)
  BY <1>0, <1>1, <1>3, <1>7
<1>8. ASSUME NEW t \in Txs, Mine(t) PROVE Moved(t, <<<<"tx", t>>, <<"block", t>>>>)
  BY <1>0, <1>2, <1>4, <1>8 DEF Single
<1>9. ASSUME NEW t \in Txs, Unmine(t) PROVE Moved(t, <<<<"tx", t>>>>)
  BY <1>0, <1>1, <1>5, <1>9 DEF Single
<1>10. ASSUME NEW t \in Txs, NEW u \in Txs, Replace(t, u) PROVE Moved(u, <<<<"tx", u>>>>)
  <2>1. /\ chain' = [chain EXCEPT ![t] = "gone", ![u] = "mempool"]
        /\ chain[t] = "mempool" /\ chain[u] = "none" /\ Spends[t] = Spends[u]
        /\ feed' = IF ~Electrum /\ Running THEN feed \o <<<<"tx", u>>>> ELSE feed
    BY <1>6, <1>10
  <2>2. /\ chain' \in [Txs -> {"none", "mempool", "mined", "gone"}]
        /\ chain'[t] = "gone" /\ chain'[u] = "mempool"
        /\ \A w \in Txs : w # t /\ w # u => chain'[w] = chain[w]
    BY <1>0, <2>1
  <2>3. \A w \in Txs : Spends[w] = Spends[t] /\ chain[w] \in {"mempool", "mined"} => w = t
    BY <2>1 DEF Single
  <2>4. \A w \in Txs : Spends[w] = Spends[u] /\ chain'[w] \in {"mempool", "mined"} => w = u
    BY <2>1, <2>2, <2>3
  <2>5. \A w \in Txs : Spends[w] # Spends[u] => chain'[w] = chain[w]
    BY <2>1, <2>2
  <2>6. \A w \in Txs : chain[w] # "none" =>
          /\ chain'[w] # "none"
          /\ chain'[w] \in {"mempool", "mined"} => chain[w] \in {"mempool", "mined"}
    BY <2>1, <2>2
  <2>7. QED
    BY <1>1, <2>1, <2>2, <2>4, <2>5, <2>6
<1> HIDE DEF Moved
<1>11. \E x \in Txs, e \in Seq(Events) : Moved(x, e)
  BY <1>1, <1>2, <1>7, <1>8, <1>9, <1>10 DEF Chain
<1>12. QED
  BY <1>11 DEF Moved

\* process_transaction changes the record of one outpoint, and does change it when the
\* outpoint is watched and no other spend is recorded as confirmed.
LEMMA RecordOf ==
  ASSUME TypeOK, NEW x \in Txs, NEW b \in BOOLEAN
  PROVE  /\ \A p \in Outpoints : p # Spends[x] => Record(reg, x, b)[p] = reg[p]
         /\ reg[Spends[x]].watched /\ (b \/ ~reg[Spends[x]].block \/ reg[Spends[x]].tx = x)
              => Record(reg, x, b)[Spends[x]].tx = x /\ Record(reg, x, b)[Spends[x]].block = b
         /\ ~b /\ ~reg[Spends[x]].block => ~Record(reg, x, b)[Spends[x]].block
<1> DEFINE o == Spends[x]  m == [watched |-> TRUE, tx |-> x, block |-> b]
<1>1. o \in Outpoints /\ reg \in [Outpoints -> [watched : BOOLEAN, tx : Txs \cup {NoTx}, block : BOOLEAN]]
  BY WatchAssumption DEF TypeOK
<1>2. m.tx = x /\ m.block = b
  OBVIOUS
<1> HIDE DEF m
<1>3. Record(reg, x, b) = [reg EXCEPT ![o] = IF ~reg[o].watched \/ (reg[o].tx \notin {NoTx, x} /\ reg[o].block /\ ~b)
                                             THEN reg[o] ELSE m]
  BY DEF Record, m
<1> HIDE DEF o
<1>4. /\ \A p \in Outpoints : p # o => Record(reg, x, b)[p] = reg[p]
      /\ Record(reg, x, b)[o] = IF ~reg[o].watched \/ (reg[o].tx \notin {NoTx, x} /\ reg[o].block /\ ~b)
                                THEN reg[o] ELSE m
  BY <1>1, <1>3
<1>5. QED
  BY <1>2, <1>4 DEF o

\* A command that was sent is about the wallet's contracts.
LEMMA OurCommand ==
  ASSUME Ours, cmds # <<>>
  PROVE  /\ Tail(cmds) \in Seq(UsedCommands)
         /\ Head(cmds)[1] \in {"register", "unwatch", "watch"} => Head(cmds)[2] \in used
         /\ Head(cmds)[1] = "rebuild" => Head(cmds)[2] \subseteq used
<1>1. Head(cmds) \in UsedCommands /\ Tail(cmds) \in Seq(UsedCommands)
  BY DEF Ours
<1>2. QED
  BY <1>1 DEF UsedCommands

\* What a fetch does: events of some of S are queued, each of S but a failed one, which is
\* counted, and seen only when given up.
LEMMA FetchDoes ==
  ASSUME TypeOK, NEW s \in Scripts, NEW S \in SUBSET Txs, Fetch(s, S)
  PROVE  \E R \in SUBSET S, Z \in SUBSET S :
           /\ feed' = feed \o TxEvents(R)
           /\ seen' = [seen EXCEPT ![s] = @ \cup Z]
           /\ \A t \in Txs \ S : attempts'[t] = attempts[t]
           /\ \A t \in S \ R : t \in Z => attempts'[t] > Cap
<1>0. attempts \in [Txs -> Nat] /\ Cap \in Nat
  BY WatchAssumption DEF TypeOK
<1>1. CASE /\ feed' = feed \o TxEvents(S) /\ seen' = [seen EXCEPT ![s] = @ \cup S]
           /\ attempts' = [t \in Txs |-> IF t \in S THEN 0 ELSE attempts[t]]
  <2>1. \A t \in Txs \ S : attempts'[t] = attempts[t]
    BY <1>1
  <2>2. QED
    BY <1>1, <2>1
<1>2. ASSUME NEW f \in S,
             feed' = feed \o TxEvents(S \ {f}),
             seen' = [seen EXCEPT ![s] = @ \cup (IF attempts[f] < Cap THEN S \ {f} ELSE S)],
             attempts' = [t \in Txs |-> IF t = f THEN attempts[t] + 1
                                        ELSE IF t \in S THEN 0 ELSE attempts[t]]
      PROVE  \E R \in SUBSET S, Z \in SUBSET S :
               /\ feed' = feed \o TxEvents(R)
               /\ seen' = [seen EXCEPT ![s] = @ \cup Z]
               /\ \A t \in Txs \ S : attempts'[t] = attempts[t]
               /\ \A t \in S \ R : t \in Z => attempts'[t] > Cap
  <2> DEFINE R == S \ {f}  Z == IF attempts[f] < Cap THEN S \ {f} ELSE S
  <2>1. R \in SUBSET S /\ Z \in SUBSET S
    OBVIOUS
  <2>2. \A t \in Txs \ S : attempts'[t] = attempts[t]
    BY <1>2
  <2>3. attempts'[f] = attempts[f] + 1
    BY <1>2
  <2>4. f \in Z => attempts'[f] > Cap
    BY <1>0, <2>3
  <2>5. \A t \in S \ R : t \in Z => attempts'[t] > Cap
    BY <2>4
  <2>6. feed' = feed \o TxEvents(R) /\ seen' = [seen EXCEPT ![s] = @ \cup Z]
    BY <1>2
  <2> HIDE DEF R, Z
  <2>7. QED
    BY <2>1, <2>2, <2>5, <2>6
<1>3. QED
  BY <1>1, <1>2 DEF Fetch

-----------------------------------------------------------------------------
(* Each part of the second invariant is kept by every step.                *)

\* A spend's rivals are gone, or there is none.
LEMMA SingleStep == ASSUME RInv, [Next]_vars PROVE Single'
<1>0. TypeOK /\ Single
  BY DEF RInv, IInv
<1>1. CASE Chain
  <2>1. PICK x \in Txs : /\ \A t \in Txs : Spends[t] # Spends[x] => chain'[t] = chain[t]
                         /\ \A t \in Txs : Spends[t] = Spends[x] /\ chain'[t] \in {"mempool", "mined"} => t = x
    BY <1>0, <1>1, ChainStep
  <2>2. QED
    BY <1>0, <2>1 DEF Single, Live
<1>2. CASE chain' = chain
  BY <1>0, <1>2 DEF Single, Live
<1>3. QED
  BY <1>1, <1>2, WorldFrame

\* Only the thread's end empties the registry and the queue; only a restart starts it anew.
LEMMA BlankStep == ASSUME RInv, [Next]_vars PROVE Blank'
<1> USE DEF Blank, Running
<1>0. TypeOK /\ Single /\ Blank /\ NothingHeld
  BY DEF RInv, IInv
<1> USE <1>0
<1>1. CASE Chain
  <2>1. ~Running => feed' = feed
    BY <1>1, ChainStep
  <2>2. QED
    BY <1>1, <2>1, ChainFrame
<1>2. CASE Calls
  BY <1>2, CallsFrame
<1>3. CASE Ends
  BY <1>3, EndsFrame DEF Forget
<1>4. CASE Restart
  BY <1>4, RestartFrame DEF NothingHeld
<1>5. CASE Moves
  BY <1>5, MovesFrame
<1>6. CASE Links
  BY <1>6, LinksFrame
<1>7. CASE UNCHANGED vars
  BY <1>7, Stutter
<1>8. CASE HandleRegister \/ HandleRebuild \/ HandleWatch \/ HandleUnwatch \/ RetrySubscribes
  <2>1. pc' \in {"drain", "rebuild", "commands"}
    BY <1>8 DEF HandleRegister, HandleRebuild, HandleWatch, HandleUnwatch, RetrySubscribes
  <2>2. QED
    BY <2>1
<1>9. CASE Rescan
  <2>1. pc' \in {"drain", "rebuild"}
    BY <1>9 DEF Rescan
  <2>2. QED
    BY <2>1
<1>10. CASE Arm \/ SubscribeRead \/ PopStatus \/ ReadHistory \/ ZmqLost
  <2>1. Running /\ pc' = pc /\ reg' = reg
    BY <1>10 DEF Arm, SubscribeRead, PopStatus, Polling, ReadHistory, ZmqLost, stepFrame
  <2>2. QED
    BY <2>1
<1>11. CASE HandleEvent
  <2>1. pc' = "events"
    BY <1>11 DEF HandleEvent
  <2>2. QED
    BY <2>1
<1>12. QED
  BY NextCases, <1>1, <1>2, <1>3, <1>4, <1>5, <1>6, <1>7, <1>8, <1>9, <1>10, <1>11

\* A block's message is queued with the block, behind those of the spends before it.
LEMMA ReportedStep == ASSUME RInv, [Next]_vars PROVE Reported'
<1>0. /\ TypeOK /\ Single /\ Blank /\ Reported /\ Unsubscribed /\ feed \in Seq(Events)
  BY DEF RInv, IInv, TypeOK
<1>1. SUFFICES ASSUME ~Electrum, NEW t \in Txs, chain'[t] = "mined"
               PROVE  ReportedIn(feed', t) \/ SilentIn(feed', Spends[t])
  BY WorldFrame DEF Reported, Electrum
<1>2. SilentIn(<<>>, Spends[t])
  <2>1. \A j \in 1..Len(<<>>) : FALSE
    OBVIOUS
  <2>2. QED
    BY <2>1 DEF SilentIn
<1>3. CASE Chain
  <2>1. PICK x \in Txs, e \in Seq(Events) :
          /\ \A u \in Txs : Spends[u] # Spends[x] => chain'[u] = chain[u]
          /\ \A u \in Txs : Spends[u] = Spends[x] /\ chain'[u] \in {"mempool", "mined"} => u = x
          /\ \A j \in 1..Len(e) : e[j][2] = x
          /\ chain'[x] = "mined" => ReportedIn(e, x)
          /\ feed' = IF ~Electrum /\ Running THEN feed \o e ELSE feed
    BY <1>0, <1>3, ChainStep
  <2>2. CASE ~Running
    BY <1>0, <1>2, <2>1, <2>2 DEF Blank
  <2>3. CASE Running /\ Spends[t] = Spends[x]
    <3>1. ReportedIn(e, t) /\ feed' = feed \o e
      BY <1>1, <2>1, <2>3
    <3>2. QED
      BY <1>0, <3>1, JoinSilent
  <2>4. CASE Running /\ Spends[t] # Spends[x]
    <3>1. SilentIn(e, Spends[t])
      BY <2>1, <2>4 DEF SilentIn
    <3>2. ReportedIn(feed, t) \/ SilentIn(feed, Spends[t])
      BY <1>0, <1>1, <2>1, <2>4 DEF Reported
    <3>3. feed' = feed \o e
      BY <1>1, <2>1, <2>4
    <3>4. QED
      BY <1>0, <3>1, <3>2, <3>3, JoinSilent
  <2>5. QED
    BY <2>2, <2>3, <2>4
<1>4. ASSUME chain' = chain PROVE ReportedIn(feed, t) \/ SilentIn(feed, Spends[t])
  BY <1>0, <1>1, <1>4 DEF Reported
<1>5. CASE HandleEvent
  <2>1. feed # <<>> /\ feed' = Tail(feed) /\ chain' = chain
    BY <1>5 DEF HandleEvent, stepFrame, threadFrame
  <2>2. QED
    BY <1>0, <1>4, <2>1, TailSilent
<1>6. CASE Ends \/ ZmqLost
  <2>1. feed' = <<>>
    BY <1>6, EndsFrame DEF Forget, ZmqLost
  <2>2. QED
    BY <1>2, <2>1
<1>7. CASE SubscribeRead \/ ReadHistory
  BY <1>0, <1>1, <1>7 DEF Unsubscribed, SubscribeRead, ReadHistory
<1>8. QED
  BY <1>3, <1>4, <1>5, <1>6, <1>7, FeedCases

\* On Core nothing asks for a subscription.
LEMMA UnsubscribedStep == ASSUME RInv, [Next]_vars PROVE Unsubscribed'
<1>0. Unsubscribed /\ TypeOK
  BY DEF RInv, IInv
<1>1. SUFFICES ASSUME ~Electrum
               PROVE  retry' = {} /\ todo' = {} /\ job' = Idle /\ \A s \in Scripts : subs'[s] = {}
  BY WorldFrame DEF Unsubscribed, Electrum
<1>2. retry = {} /\ todo = {} /\ job = Idle /\ (\A s \in Scripts : subs[s] = {}) /\ Subscribed = {}
  BY <1>0, <1>1 DEF Unsubscribed, Subscribed
<1>3. CASE Ends
  BY <1>3, EndsFrame DEF Forget
<1>4. CASE HandleRegister \/ HandleRebuild \/ Rescan \/ HandleWatch
  BY <1>1, <1>2, <1>4 DEF HandleRegister, HandleRebuild, Rescan, HandleWatch, electrum
<1>5. CASE HandleUnwatch
  BY <1>1, <1>2, <1>5 DEF HandleUnwatch, electrum
<1>6. CASE Arm \/ SubscribeRead \/ ReadHistory \/ PopStatus
  BY <1>2, <1>6 DEF Arm, SubscribeRead, ReadHistory, PopStatus
<1>7. CASE RetrySubscribes \/ HandleEvent
  BY <1>2, <1>7 DEF RetrySubscribes, HandleEvent, electrum
<1>8. CASE UNCHANGED <<reg, retry, todo, job, subs, seen, attempts>>
  BY <1>2, <1>8
<1>9. QED
  BY HoldCases, <1>3, <1>4, <1>5, <1>6, <1>7, <1>8

\* The callers send commands about their contracts, and the handlers take them.
LEMMA OursStep == ASSUME RInv, [Next]_vars PROVE Ours'
<1>0. Ours /\ TypeOK
  BY DEF RInv, IInv
<1>1. used' = used
  BY WorldFrame
<1>2. SUFFICES contracts' \subseteq used /\ cmds' \in Seq(UsedCommands)
  BY <1>1 DEF Ours, UsedCommands
<1>3. contracts \subseteq used /\ cmds \in Seq(UsedCommands)
  BY <1>0 DEF Ours
<1>4. CASE Chain \/ Moves \/ Links \/ UNCHANGED vars
  BY <1>3, <1>4, ChainFrame, MovesFrame, LinksFrame, Stutter
<1>5. CASE Calls
  <2>1. ASSUME NEW o \in used, NEW k \in {"register", "unwatch", "watch"}, Send(<<k, o>>)
        PROVE  cmds' \in Seq(UsedCommands)
    <3> DEFINE c == <<k, o>>
    <3>1. c \in UsedCommands
      BY DEF UsedCommands
    <3>2. cmds' = cmds \/ cmds' = Append(cmds, c)
      BY <2>1 DEF Send
    <3> HIDE DEF c
    <3>3. QED
      BY <1>3, <3>1, <3>2
  <2>2. ASSUME NEW o \in used, RegisterWatch(o) PROVE contracts' \subseteq used /\ Send(<<"register", o>>)
    BY <1>3, <2>2 DEF RegisterWatch
  <2>3. ASSUME NEW o \in used, Unwatch(o) PROVE contracts' \subseteq used /\ Send(<<"unwatch", o>>)
    BY <1>3, <2>3 DEF Unwatch
  <2>4. ASSUME NEW o \in used, WatchRequest(o) PROVE contracts' \subseteq used /\ Send(<<"watch", o>>)
    BY <1>3, <2>4 DEF WatchRequest
  <2>5. CASE StopWaiting
    BY <1>3, <2>5 DEF StopWaiting
  <2>6. QED
    BY <1>5, <2>1, <2>2, <2>3, <2>4, <2>5 DEF Calls
<1>6. CASE Ends
  BY <1>3, <1>6, EndsFrame DEF Forget
<1>7. CASE Restart
  <2>1. <<"rebuild", contracts>> \in UsedCommands
    BY <1>3 DEF UsedCommands
  <2>2. \A c \in UsedCommands : <<c>> \in Seq(UsedCommands)
    OBVIOUS
  <2>3. QED
    BY <1>3, <1>7, <2>1, <2>2 DEF Restart
<1>8. CASE HandleRegister \/ HandleRebuild \/ HandleWatch \/ HandleUnwatch
  <2>1. cmds # <<>> /\ cmds' = Tail(cmds) /\ contracts' = contracts
    BY <1>8 DEF HandleRegister, HandleRebuild, HandleWatch, HandleUnwatch, Command, threadFrame
  <2>2. QED
    BY <1>0, <1>3, <2>1, OurCommand
<1>9. CASE Rescan
  BY <1>3, <1>9 DEF Rescan, threadFrame
<1>10. CASE Arm \/ SubscribeRead \/ RetrySubscribes \/ HandleEvent \/ PopStatus \/ ReadHistory \/ ZmqLost
  <2>1. UNCHANGED stepFrame
    BY <1>10 DEF Arm, SubscribeRead, RetrySubscribes, HandleEvent, PopStatus, ReadHistory, ZmqLost
  <2>2. QED
    BY <1>3, <2>1 DEF stepFrame, threadFrame, service
<1>11. QED
  BY NextCases, <1>4, <1>5, <1>6, <1>7, <1>8, <1>9, <1>10
=============================================================================
