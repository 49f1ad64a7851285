-------------------------- MODULE Watchtower_proofs --------------------------
(***************************************************************************)
(* Theorems about the watchtower, for every set of contracts, scripts and  *)
(* spends and any number of faults: its types, that a watched outpoint is  *)
(* held or queued for a subscription, that no spend under a subscribed     *)
(* script goes unheard, that a spend that was seen is recorded or queued,  *)
(* and that on Core a drained queue leaves every mined spend recorded.     *)
(***************************************************************************)
EXTENDS Watchtower_steps, TLAPS

\* The transactions of a set are queued as events: one of each, and of no other.
EventsOfSets ==
  \A S \in SUBSET Txs :
    /\ TxEvents(S) \in Seq(Events)
    /\ \A j \in 1..Len(TxEvents(S)) : TxEvents(S)[j][1] = "tx" /\ TxEvents(S)[j][2] \in S
    /\ \A t \in S : \E j \in 1..Len(TxEvents(S)) : TxEvents(S)[j][2] = t

\* A fetch appends events.
LEMMA FetchQueues ==
  ASSUME EventsOfSets, TypeOK, NEW s, NEW S \in SUBSET Txs, Fetch(s, S)
  PROVE  feed' \in Seq(Events)
<1>1. feed \in Seq(Events) /\ \A R \in SUBSET Txs : TxEvents(R) \in Seq(Events)
  BY DEF EventsOfSets, TypeOK
<1>2. \E R \in SUBSET Txs : feed' = feed \o TxEvents(R)
  BY DEF Fetch
<1>3. QED
  BY <1>1, <1>2, SeqJoin

\* The backend publishes events.
LEMMA PublishTypes ==
  ASSUME TypeOK, NEW t \in Txs, NEW events \in Seq(Events), Publish(t, events)
  PROVE  feed' \in Seq(Events)
<1>1. feed \in Seq(Events)
  BY DEF TypeOK
<1>2. feed' = feed \/ feed' = feed \o events
  BY DEF Publish
<1>3. feed \o events \in Seq(Events)
  BY <1>1, SeqJoin
<1>4. QED
  BY <1>1, <1>2, <1>3

\* The command channel holds commands, the feed events.
LEMMA QueuesOKStep ==
  ASSUME EventsOfSets, IInv, [Next]_vars PROVE QueuesOK'
<1> USE DEF service
<1>0. TypeOK /\ QueuesOK /\ contracts \subseteq Outpoints /\ used \subseteq Outpoints
      /\ cmds \in Seq(Commands) /\ feed \in Seq(Events)
      /\ script \in [Outpoints -> Scripts]
  BY TypeParts DEF IInv, ScalarsOK, QueuesOK
<1> USE <1>0
<1>a. CASE cmds' = cmds /\ feed' = feed
  BY <1>a DEF QueuesOK
<1>1. CASE Chain
  <2>1. ASSUME NEW t \in Txs, Broadcast(t) PROVE feed' \in Seq(Events)
    <3>1. Publish(t, <<<<"tx", t>>>>)
      BY <2>1 DEF Broadcast
    <3>2. QED
      BY <3>1, EventsOf, PublishTypes
  <2>2. ASSUME NEW t \in Txs, Mine(t) PROVE feed' \in Seq(Events)
    <3>1. Publish(t, <<<<"tx", t>>, <<"block", t>>>>)
      BY <2>2 DEF Mine
    <3>2. QED
      BY <3>1, EventsOf, PublishTypes
  <2>3. ASSUME NEW t \in Txs, Unmine(t) PROVE feed' \in Seq(Events)
    <3>1. Publish(t, <<<<"tx", t>>>>)
      BY <2>3 DEF Unmine
    <3>2. QED
      BY <3>1, EventsOf, PublishTypes
  <2>4. ASSUME NEW t \in Txs, NEW u \in Txs, Replace(t, u) PROVE feed' \in Seq(Events)
    <3>1. Publish(u, <<<<"tx", u>>>>)
      BY <2>4 DEF Replace
    <3>2. QED
      BY <3>1, EventsOf, PublishTypes
  <2>5. feed' \in Seq(Events)
    BY <1>1, <2>1, <2>2, <2>3, <2>4 DEF Chain
  <2>6. QED
    BY <1>1, <2>5, ChainFrame DEF QueuesOK
<1>2. CASE Calls
  <2>1. ASSUME NEW o \in used, RegisterWatch(o) PROVE cmds' \in Seq(Commands)
    <3>1. Send(<<"register", o>>) /\ <<"register", o>> \in Commands
      BY <2>1 DEF RegisterWatch, Commands
    <3>2. QED
      BY <3>1, SendTypes
  <2>2. ASSUME NEW o \in used, Unwatch(o) PROVE cmds' \in Seq(Commands)
    <3>1. Send(<<"unwatch", o>>) /\ <<"unwatch", o>> \in Commands
      BY <2>2 DEF Unwatch, Commands
    <3>2. QED
      BY <3>1, SendTypes
  <2>3. ASSUME NEW o \in used, WatchRequest(o) PROVE cmds' \in Seq(Commands)
    <3>1. Send(<<"watch", o>>) /\ <<"watch", o>> \in Commands
      BY <2>3 DEF WatchRequest, Commands
    <3>2. QED
      BY <3>1, SendTypes
  <2>4. ASSUME StopWaiting PROVE cmds' \in Seq(Commands)
    BY <2>4 DEF StopWaiting
  <2>5. cmds' \in Seq(Commands)
    BY <1>2, <2>1, <2>2, <2>3, <2>4 DEF Calls
  <2>6. QED
    BY <1>2, <2>5, CallsFrame DEF QueuesOK
<1>3. CASE Ends
  BY <1>3, EndsFrame DEF Forget, QueuesOK
<1>4. CASE Restart
  <2>1. <<"rebuild", contracts>> \in Commands
    BY DEF Commands
  <2>2. \A c \in Commands : <<c>> \in Seq(Commands)
    OBVIOUS
  <2>3. cmds' = <<<<"rebuild", contracts>>>> /\ feed' = feed
    BY <1>4 DEF Restart
  <2>4. QED
    BY <2>1, <2>2, <2>3 DEF QueuesOK
<1>5. CASE Moves
  BY <1>5, <1>a, MovesFrame
<1>6. CASE Links
  BY <1>6, <1>a, LinksFrame
<1>7. CASE UNCHANGED vars
  BY <1>7, <1>a, Stutter
<1>8. CASE HandleRegister
  BY <1>8, CommandArgument DEF HandleRegister, Command, QueuesOK
<1>9. CASE HandleRebuild
  BY <1>9, CommandArgument DEF HandleRebuild, Command, QueuesOK
<1>10. CASE Rescan
  BY <1>10, <1>a DEF Rescan
<1>11. CASE HandleWatch
  BY <1>11, CommandArgument DEF HandleWatch, Command, QueuesOK
<1>12. CASE HandleUnwatch
  BY <1>12, CommandArgument DEF HandleUnwatch, Command, QueuesOK
<1>13. CASE Arm
  BY <1>13, <1>a DEF Arm, stepFrame
<1>14. CASE SubscribeRead
  <2> DEFINE s == script[job[2]]
  <2>1. s \in Scripts
    BY <1>14, JobArgument DEF SubscribeRead
  <2>2. Fetch(s, History(s)) \/ feed' = feed
    BY <1>14 DEF SubscribeRead
  <2>3. cmds' = cmds
    BY <1>14 DEF SubscribeRead, stepFrame
  <2> HIDE DEF s
  <2>4. History(s) \in SUBSET Txs
    BY HistoryType
  <2>5. QED
    BY <2>1, <2>2, <2>3, <2>4, FetchQueues DEF QueuesOK
<1>15. CASE RetrySubscribes
  BY <1>15, <1>a DEF RetrySubscribes, stepFrame
<1>16. CASE HandleEvent
  BY <1>16, EventArgument DEF HandleEvent, stepFrame, QueuesOK
<1>17. CASE PopStatus
  BY <1>17, <1>a DEF PopStatus, stepFrame
<1>18. CASE ReadHistory
  <2>1. job[2] \in Scripts
    BY <1>18, JobArgument DEF ReadHistory
  <2>2. History(job[2]) \ seen[job[2]] \in SUBSET Txs
    BY HistoryType
  <2>3. Fetch(job[2], History(job[2]) \ seen[job[2]]) \/ feed' = feed
    BY <1>18 DEF ReadHistory
  <2>4. cmds' = cmds
    BY <1>18 DEF ReadHistory, stepFrame
  <2>5. QED
    BY <2>1, <2>2, <2>3, <2>4, FetchQueues DEF QueuesOK
<1>19. CASE ZmqLost
  BY <1>19 DEF ZmqLost, stepFrame, QueuesOK
<1>20. QED
  BY NextCases, <1>1, <1>2, <1>3, <1>4, <1>5, <1>6, <1>7, <1>8, <1>9, <1>10,
     <1>11, <1>12, <1>13, <1>14, <1>15, <1>16, <1>17, <1>18, <1>19

-----------------------------------------------------------------------------
\* The watcher starts empty, with the rebuild of no watches queued.
LEMMA Initially == Init => IInv
<1> SUFFICES ASSUME Init PROVE IInv
  OBVIOUS
<1> USE WatchAssumption
<1>1. PICK w \in Wallets : used = w.used /\ script = w.script
  BY DEF Init
<1>2. w \in [used : SUBSET Outpoints, script : [Outpoints -> Scripts]]
  OBVIOUS
<1>3. ScalarsOK
  BY <1>1, <1>2 DEF Init, ScalarsOK
<1>4. FlagsOK /\ SetsOK
  BY DEF Init, FlagsOK, SetsOK
<1>5. None \in Entry /\ ~None.block
  BY Zenon DEF None, Entry
<1>6. RegOK
  BY <1>5 DEF Init, RegOK
<1>7. QueuesOK
  <2>1. <<"rebuild", {}>> \in Commands
    BY DEF Commands
  <2>2. \A c \in Commands : <<c>> \in Seq(Commands)
    OBVIOUS
  <2>3. QED
    BY <2>1, <2>2 DEF Init, QueuesOK
<1>8. TypeOK
  BY <1>3, <1>4, <1>6, <1>7, TypeParts
<1>9. NothingHeld
  BY DEF Init, NothingHeld, Running
<1>10. WatchedIsHeld
  BY DEF Init, WatchedIsHeld, None
<1>11. HeldArmed /\ NeverDeaf
  BY IdleIsNoJob DEF Init, HeldArmed, NeverDeaf, Live
<1>12. QED
  BY <1>8, <1>9, <1>10, <1>11 DEF IInv

\* The invariant is inductive.
LEMMA Inductive == ASSUME EventsOfSets, IInv, [Next]_vars PROVE IInv'
<1>1. ScalarsOK' /\ FlagsOK' /\ SetsOK' /\ RegOK' /\ QueuesOK'
  BY ScalarsOKStep, FlagsOKStep, SetsOKStep, RegOKStep, QueuesOKStep
<1>2. TypeOK'
  BY <1>1, TypePartsNext
<1>3. QED
  BY <1>2, NothingStep, HeldStep, ArmedStep, DeafStep DEF IInv

-----------------------------------------------------------------------------
(* The other parts of the second invariant.                                *)

\* A spend's block is recorded as it leaves the queue; a rescan records the rest.
LEMMA NotedStep == ASSUME RInv, [Next]_vars PROVE Noted'
<1>0. /\ TypeOK /\ Single /\ Blank /\ Reported /\ Unsubscribed /\ Noted
      /\ feed \in Seq(Events) /\ chain \in [Txs -> {"none", "mempool", "mined", "gone"}]
      /\ reg \in [Outpoints -> [watched : BOOLEAN, tx : Txs \cup {NoTx}, block : BOOLEAN]]
  BY DEF RInv, IInv, TypeOK
<1>1. SUFFICES ASSUME ~Electrum, Awake', NEW t \in Txs, t \notin missed', chain'[t] = "mined",
                      reg'[Spends[t]].watched, SilentIn(feed', Spends[t])
               PROVE  reg'[Spends[t]].tx = t /\ reg'[Spends[t]].block
  BY WorldFrame DEF Noted, Electrum
<1> DEFINE o == Spends[t]
<1>2. o \in Outpoints
  BY WatchAssumption
<1>3. ASSUME Awake, t \notin missed, chain[t] = "mined", reg[o].watched, SilentIn(feed, o)
      PROVE  reg[o].tx = t /\ reg[o].block
  BY <1>0, <1>1, <1>3 DEF Noted
<1> HIDE DEF o
<1>4. ASSUME Awake, missed \subseteq missed', chain' = chain, feed' = feed, reg'[o] = reg[o]
      PROVE  reg'[o].tx = t /\ reg'[o].block
  BY <1>1, <1>3, <1>4 DEF o
<1>5. CASE Chain
  <2>1. PICK x \in Txs, e \in Seq(Events) :
          /\ \A u \in Txs : Spends[u] # Spends[x] => chain'[u] = chain[u]
          /\ Len(e) > 0 /\ \A j \in 1..Len(e) : e[j][2] = x
          /\ feed' = IF ~Electrum /\ Running THEN feed \o e ELSE feed
    BY <1>0, <1>5, ChainStep
  <2>2. pc' = pc /\ reg' = reg /\ missed' = missed
    BY <1>5, ChainFrame
  <2>3. Awake /\ Running
    BY <1>1, <2>2 DEF Awake, Running
  <2>4. feed' = feed \o e
    BY <1>1, <2>1, <2>3
  <2>5. SilentIn(feed, Spends[t]) /\ SilentIn(e, Spends[t])
    BY <1>0, <1>1, <2>4, JoinSilent
  <2>6. 1 \in 1..Len(e)
    BY <2>1
  <2>7. Spends[x] # Spends[t]
    BY <2>1, <2>5, <2>6 DEF SilentIn
  <2>8. chain[t] = "mined"
    BY <1>1, <2>1, <2>7
  <2>9. QED
    BY <1>1, <1>3, <2>2, <2>3, <2>5, <2>8 DEF o
<1>6. CASE Calls
  <2>1. Awake
    BY <1>1, <1>6, CallsFrame DEF Awake
  <2>2. QED
    BY <1>4, <1>6, <2>1, CallsFrame DEF o
<1>7. CASE Ends
  BY <1>1, <1>7, EndsFrame DEF Awake
<1>8. CASE Restart
  BY <1>1, <1>8, RestartFrame DEF Awake
<1>9. CASE Moves
  <2>1. CASE Startup
    <3>1. pc = "start" /\ reg' = reg
      BY <2>1 DEF Startup
    <3>2. QED
      BY <1>0, <1>1, <1>2, <3>1 DEF Blank, o
  <2>2. CASE BeginEvents \/ EndEvents
    <3>1. Awake /\ missed' = missed
      BY <2>2 DEF BeginEvents, EndEvents, Polling, Awake
    <3>2. QED
      BY <1>4, <1>9, <3>1, MovesFrame DEF o
  <2>3. CASE RebuildReplies \/ RescanLookup
    BY <1>1, <2>3 DEF RebuildReplies, RescanLookup, Awake
  <2>4. QED
    BY <1>9, <2>1, <2>2, <2>3 DEF Moves
<1>10. CASE Links
  <2>1. Awake
    <3>1. CASE Reconnect
      BY <1>1, <3>1 DEF Reconnect
    <3>2. CASE Recycle \/ RearmBegins \/ Rearm \/ PopFails
      BY <3>2 DEF Recycle, RearmBegins, Rearm, PopFails, Polling, Awake
    <3>3. QED
      BY <1>10, <3>1, <3>2 DEF Links
  <2>2. QED
    BY <1>4, <1>10, <2>1, LinksFrame DEF o
<1>11. CASE UNCHANGED vars
  <2>1. Awake
    BY <1>1, <1>11, Stutter DEF Awake
  <2>2. QED
    BY <1>4, <1>11, <2>1, Stutter DEF o
<1>12. CASE HandleRegister
  <2> DEFINE p == Head(cmds)[2]
  <2>1. /\ p \in Outpoints /\ reg' = [reg EXCEPT ![p].watched = TRUE]
        /\ missed' = IF reg[p].watched THEN missed
                     ELSE missed \cup {u \in Txs : Spends[u] = p /\ chain[u] = "mined"}
        /\ chain' = chain /\ feed' = feed
    BY <1>0, <1>1, <1>12, CommandArgument DEF HandleRegister, Command, Merge, threadFrame
  <2>2. Awake
    BY <1>12 DEF HandleRegister, Command, Awake
  <2> HIDE DEF p
  <2>3. reg'[o].tx = reg[o].tx /\ reg'[o].block = reg[o].block /\ (p # o => reg'[o] = reg[o])
    BY <1>0, <1>2, <2>1
  <2>4. t \notin missed /\ reg[o].watched
    BY <1>1, <2>1, <2>3 DEF o
  <2>5. QED
    BY <1>1, <1>3, <2>1, <2>2, <2>3, <2>4 DEF o
<1>13. CASE HandleRebuild
  BY <1>1, <1>13 DEF HandleRebuild, Awake
<1>14. CASE Rescan
  <2> DEFINE S == {u \in Txs \ missed : chain[u] = "mined"}
  <2>1. reg' = RecordBlocks(reg, S) /\ missed' = missed /\ chain' = chain
    BY <1>1, <1>14 DEF Rescan, Awake, threadFrame
  <2>2. t \in S
    BY <1>1, <2>1
  <2>3. \A u \in S : Spends[u] = o => u = t
    BY <1>0, <2>2 DEF Single, Live, o
  <2> HIDE DEF S
  <2>4. (CHOOSE u \in S : Spends[u] = o) = t
    BY <2>2, <2>3 DEF o
  <2>5. reg'[o] = IF reg[o].watched THEN [watched |-> TRUE, tx |-> CHOOSE u \in S : Spends[u] = o, block |-> TRUE]
                  ELSE reg[o]
    BY <1>2, <2>1, <2>2 DEF RecordBlocks, o
  <2>6. reg'[o] = [watched |-> TRUE, tx |-> t, block |-> TRUE]
    BY <1>1, <2>4, <2>5 DEF o
  <2>7. QED
    BY <2>6 DEF o
<1>15. CASE HandleWatch
  <2> DEFINE p == Head(cmds)[2]
  <2>1. /\ p \in Outpoints
        /\ \/ reg' = reg
           \/ ~SpendConfirmed(p) /\ reg' = [reg EXCEPT ![p].tx = NoTx, ![p].block = FALSE]
        /\ chain' = chain /\ feed' = feed /\ missed' = missed
    BY <1>0, <1>15, CommandArgument DEF HandleWatch, Command, threadFrame
  <2>2. Awake
    BY <1>15 DEF HandleWatch, Command, Awake
  <2> HIDE DEF p
  <2>3. SpendConfirmed(o)
    BY <1>1, <2>1 DEF SpendConfirmed, o
  <2>4. reg'[o] = reg[o]
    BY <1>0, <1>2, <2>1, <2>3
  <2>5. QED
    BY <1>4, <2>1, <2>2, <2>4 DEF o
<1>16. CASE HandleUnwatch
  <2> DEFINE p == Head(cmds)[2]
  <2>1. /\ p \in Outpoints /\ reg' = [reg EXCEPT ![p] = None]
        /\ chain' = chain /\ feed' = feed /\ missed' = missed
    BY <1>0, <1>16, CommandArgument DEF HandleUnwatch, Command, threadFrame
  <2>2. Awake
    BY <1>16 DEF HandleUnwatch, Command, Awake
  <2> HIDE DEF p
  <2>3. p # o
    BY <1>0, <1>1, <2>1 DEF None, o
  <2>4. reg'[o] = reg[o]
    BY <1>0, <1>2, <2>1, <2>3
  <2>5. QED
    BY <1>4, <2>1, <2>2, <2>4 DEF o
<1>17. CASE Arm \/ SubscribeRead \/ ReadHistory \/ PopStatus
  <2>1. todo = {} /\ job = Idle /\ Subscribed = {}
    BY <1>0, <1>1, SMTT(20) DEF Unsubscribed, Subscribed
  <2>2. QED
    BY <1>17, <2>1 DEF Arm, SubscribeRead, ReadHistory, PopStatus
<1>18. CASE RetrySubscribes
  <2>1. Awake
    BY <1>18 DEF RetrySubscribes, Awake
  <2>2. reg' = reg /\ chain' = chain /\ feed' = feed /\ missed' = missed
    BY <1>18 DEF RetrySubscribes, stepFrame, threadFrame
  <2>3. QED
    BY <1>4, <2>1, <2>2 DEF o
<1>19. CASE HandleEvent
  <2> DEFINE x == Head(feed)[2]  b == Head(feed)[1] = "block"
  <2>1. /\ feed # <<>> /\ feed' = Tail(feed) /\ reg' = Record(reg, x, b)
        /\ x \in Txs /\ b \in BOOLEAN
        /\ chain' = chain /\ missed' = missed
    BY <1>0, <1>19, EventArgument DEF HandleEvent, stepFrame, threadFrame
  <2>2. Awake
    BY <1>19 DEF HandleEvent, Awake
  <2>3. CASE SilentIn(feed, o)
    <3>1. Spends[x] # o
      BY <1>0, <2>1, <2>3, TailSilent DEF o
    <3> HIDE DEF x, b
    <3>2. reg'[o] = reg[o]
      BY <1>0, <1>2, <2>1, <3>1, RecordOf
    <3>3. QED
      BY <1>1, <1>3, <2>1, <2>2, <2>3, <3>2 DEF o
  <2>4. CASE ~SilentIn(feed, o)
    <3>1. ReportedIn(feed, t)
      BY <1>0, <1>1, <2>1, <2>4 DEF Reported, o
    <3>2. Head(feed) = <<"block", t>>
      BY <1>0, <1>1, <2>1, <3>1, TailSilent
    <3>3. x = t /\ b
      BY <3>2
    <3> HIDE DEF x, b
    <3>4. reg[o].watched
      <4>1. Record(reg, x, b)[o].watched = reg[o].watched
        BY <1>0, <1>2, <2>1, RecordKeepsWatches
      <4>2. QED
        BY <1>1, <2>1, <4>1 DEF o
    <3>5. reg'[o].tx = x /\ reg'[o].block = b
      BY <1>0, <2>1, <3>3, <3>4, RecordOf DEF o
    <3>6. QED
      BY <3>3, <3>5 DEF o
  <2>5. QED
    BY <2>3, <2>4
<1>20. CASE ZmqLost
  <2>1. /\ feed' = <<>> /\ missed' = missed \cup {feed[i][2] : i \in 1..Len(feed)}
        /\ chain' = chain /\ reg' = reg /\ pc' = pc
    BY <1>20 DEF ZmqLost, stepFrame, threadFrame
  <2>2. Awake
    BY <1>1, <2>1 DEF Awake
  <2>3. ~ReportedIn(feed, t)
    <3>1. \A i \in 1..Len(feed) : feed[i][2] # t
      BY <1>1, <2>1
    <3>2. QED
      BY <3>1 DEF ReportedIn
  <2>4. SilentIn(feed, o)
    BY <1>0, <1>1, <2>1, <2>3 DEF Reported, o
  <2>5. QED
    BY <1>1, <1>3, <2>1, <2>2, <2>4 DEF o
<1>21. QED
  BY NextCases, <1>5, <1>6, <1>7, <1>8, <1>9, <1>10, <1>11, <1>12, <1>13, <1>14, <1>15,
     <1>16, <1>17, <1>18, <1>19, <1>20 DEF o

\* On Electrum only transactions are queued, and none is recorded as confirmed.
LEMMA PlainStep == ASSUME EventsOfSets, RInv, [Next]_vars PROVE Plain'
<1>0. /\ Plain /\ TypeOK /\ Single /\ feed \in Seq(Events)
      /\ reg \in [Outpoints -> [watched : BOOLEAN, tx : Txs \cup {NoTx}, block : BOOLEAN]]
  BY DEF RInv, IInv, TypeOK
<1>1. SUFFICES ASSUME Electrum
               PROVE  /\ pc' # "rescan"
                      /\ \A i \in 1..Len(feed') : feed'[i][1] = "tx"
                      /\ \A o \in Outpoints : ~reg'[o].block
  BY WorldFrame DEF Plain, Electrum
<1>2. /\ pc # "rescan" /\ (\A i \in 1..Len(feed) : feed[i][1] = "tx")
      /\ \A o \in Outpoints : ~reg[o].block
  BY <1>0, <1>1 DEF Plain
<1>3. pc' # "rescan"
  <2>1. CASE Chain \/ Calls \/ Restart \/ Links \/ UNCHANGED vars
    BY <1>2, <2>1, ChainFrame, CallsFrame, RestartFrame, LinksFrame, Stutter
  <2>2. CASE Ends
    BY <2>2, EndsFrame
  <2>3. CASE Moves
    BY <1>1, <2>3 DEF Moves, Startup, RebuildReplies, RescanLookup, BeginEvents, EndEvents
  <2>4. CASE HandleRegister \/ HandleRebuild \/ Rescan \/ HandleWatch \/ HandleUnwatch
    BY <2>4 DEF HandleRegister, HandleRebuild, Rescan, HandleWatch, HandleUnwatch
  <2>5. CASE Arm \/ SubscribeRead \/ RetrySubscribes \/ HandleEvent \/ PopStatus \/ ReadHistory \/ ZmqLost
    BY <1>2, <2>5 DEF Arm, SubscribeRead, RetrySubscribes, HandleEvent, PopStatus, ReadHistory, ZmqLost
  <2>6. QED
    BY NextCases, <2>1, <2>2, <2>3, <2>4, <2>5
<1>4. ASSUME NEW R \in SUBSET Txs, feed' = feed \o TxEvents(R)
      PROVE  \A i \in 1..Len(feed') : feed'[i][1] = "tx"
  <2> DEFINE e == TxEvents(R)
  <2>1. e \in Seq(Events) /\ \A j \in 1..Len(e) : e[j][1] = "tx"
    BY DEF EventsOfSets
  <2> HIDE DEF e
  <2>2. /\ Len(feed) \in Nat /\ Len(e) \in Nat /\ Len(feed \o e) = Len(feed) + Len(e)
        /\ \A j \in 1..Len(feed) + Len(e) :
             \/ j \in 1..Len(feed) /\ (feed \o e)[j] = feed[j]
             \/ \E i \in 1..Len(e) : j = Len(feed) + i /\ (feed \o e)[j] = e[i]
    BY <1>0, <2>1, SeqJoin, SMTT(20)
  <2>3. feed' = feed \o e
    BY <1>4 DEF e
  <2>4. SUFFICES ASSUME NEW j \in 1..Len(feed) + Len(e) PROVE (feed \o e)[j][1] = "tx"
    BY <2>2, <2>3
  <2>5. CASE j \in 1..Len(feed) /\ (feed \o e)[j] = feed[j]
    BY <1>2, <2>5
  <2>6. CASE \E i \in 1..Len(e) : (feed \o e)[j] = e[i]
    BY <2>1, <2>6
  <2>7. QED
    BY <2>2, <2>5, <2>6
<1>5. \A i \in 1..Len(feed') : feed'[i][1] = "tx"
  <2>1. CASE Chain
    <3>1. feed' = feed
      BY <1>0, <1>1, <2>1, ChainStep
    <3>2. QED
      BY <1>2, <3>1
  <2>2. CASE Ends
    BY <2>2, EndsFrame DEF Forget
  <2>3. CASE SubscribeRead
    <3>1. feed' = feed \/ \E R \in SUBSET Txs : feed' = feed \o TxEvents(R)
      <4>1. \A s \in Scripts : Fetch(s, History(s)) => \E R \in SUBSET Txs : feed' = feed \o TxEvents(R)
        BY HistoryType DEF Fetch
      <4>2. job[2] \in Outpoints /\ script[job[2]] \in Scripts
        BY <1>0, <2>3, JobArgument DEF SubscribeRead, TypeOK
      <4>3. QED
        BY <2>3, <4>1, <4>2 DEF SubscribeRead
    <3>2. QED
      BY <1>2, <1>4, <3>1
  <2>4. CASE ReadHistory
    <3>1. feed' = feed \/ \E R \in SUBSET Txs : feed' = feed \o TxEvents(R)
      <4>1. \A s \in Scripts : Fetch(s, History(s) \ seen[s]) => \E R \in SUBSET Txs : feed' = feed \o TxEvents(R)
        BY HistoryType DEF Fetch
      <4>2. job[2] \in Scripts
        BY <1>0, <2>4, JobArgument DEF ReadHistory
      <4>3. QED
        BY <2>4, <4>1, <4>2 DEF ReadHistory
    <3>2. QED
      BY <1>2, <1>4, <3>1
  <2>5. CASE HandleEvent
    <3>1. feed # <<>> /\ feed' = Tail(feed)
      BY <2>5 DEF HandleEvent
    <3>2. /\ Len(feed) \in Nat /\ Len(feed') = Len(feed) - 1
          /\ \A j \in 1..Len(feed) - 1 : feed'[j] = feed[j + 1]
      BY <1>0, <3>1, SeqTail
    <3>3. \A j \in 1..Len(feed) - 1 : j + 1 \in 1..Len(feed)
      BY <3>2
    <3>4. QED
      BY <1>2, <3>2, <3>3
  <2>6. CASE ZmqLost
    BY <1>1, <2>6 DEF ZmqLost
  <2>7. CASE feed' = feed
    BY <1>2, <2>7
  <2>8. QED
    BY FeedCases, <2>1, <2>2, <2>3, <2>4, <2>5, <2>6, <2>7
<1>6. \A o \in Outpoints : ~reg'[o].block
  <2>1. CASE Ends
    BY <2>1, EndsFrame DEF Forget, None
  <2>2. CASE HandleRegister
    BY <1>0, <1>2, <2>2, CommandArgument DEF HandleRegister, Command, Merge
  <2>3. CASE HandleRebuild
    BY <1>0, <1>2, <2>3, CommandArgument DEF HandleRebuild, Command, Merge
  <2>4. CASE Rescan
    BY <1>2, <2>4 DEF Rescan
  <2>5. CASE HandleWatch
    <3>1. Head(cmds)[2] \in Outpoints
      BY <1>0, <2>5, CommandArgument DEF HandleWatch, Command
    <3>2. reg' = reg
      BY <1>2, <2>5, <3>1 DEF HandleWatch
    <3>3. QED
      BY <1>2, <3>2
  <2>6. CASE HandleUnwatch
    BY <1>0, <1>2, <2>6, CommandArgument DEF HandleUnwatch, Command, None
  <2>7. CASE HandleEvent
    <3> DEFINE x == Head(feed)[2]
    <3>1. x \in Txs /\ feed # <<>> /\ reg' = Record(reg, x, Head(feed)[1] = "block")
      BY <1>0, <2>7, EventArgument DEF HandleEvent
    <3>2. Head(feed) = feed[1] /\ 1 \in 1..Len(feed)
      BY <1>0, <3>1, SeqTail
    <3>3. (Head(feed)[1] = "block") = FALSE
      BY <1>2, <3>2
    <3>4. reg' = Record(reg, x, FALSE)
      BY <3>1, <3>3
    <3>5. Spends[x] \in Outpoints
      BY <3>1, WatchAssumption
    <3> HIDE DEF x
    <3>6. /\ \A p \in Outpoints : p # Spends[x] => Record(reg, x, FALSE)[p] = reg[p]
          /\ ~reg[Spends[x]].block => ~Record(reg, x, FALSE)[Spends[x]].block
      BY <1>0, <3>1, RecordOf
    <3>7. QED
      BY <1>2, <3>4, <3>5, <3>6
  <2>8. CASE Arm \/ SubscribeRead \/ RetrySubscribes \/ PopStatus \/ ReadHistory
    BY <1>2, <2>8 DEF Arm, SubscribeRead, RetrySubscribes, PopStatus, ReadHistory
  <2>9. CASE UNCHANGED reg
    BY <1>2, <2>9
  <2>10. QED
    BY HoldCases, <2>1, <2>2, <2>3, <2>4, <2>5, <2>6, <2>7, <2>8, <2>9
<1>7. QED
  BY <1>3, <1>5, <1>6

\* A request or a subscription is of a watched contract, from the command to the unwatch.
LEMMA OwnedStep == ASSUME RInv, [Next]_vars PROVE Owned'
<1>0. /\ TypeOK /\ Owned /\ Ours /\ Unsubscribed /\ used \subseteq Outpoints
      /\ script \in [Outpoints -> Scripts] /\ subs \in [Scripts -> SUBSET Outpoints]
      /\ reg \in [Outpoints -> [watched : BOOLEAN, tx : Txs \cup {NoTx}, block : BOOLEAN]]
      /\ retry \subseteq Outpoints /\ todo \subseteq Outpoints
  BY DEF RInv, IInv, TypeOK
<1>1. SUFFICES /\ \A o \in retry' \cup todo' : o \in used /\ reg'[o].watched
               /\ \A o \in Outpoints : job' = <<"subscribe", o>> =>
                    o \in used /\ reg'[o].watched /\ subs'[script[o]] = {}
               /\ \A s \in Scripts : job' = <<"read", s>> => subs'[s] # {}
               /\ \A s \in Scripts, o \in Outpoints : o \in subs'[s] =>
                    o \in used /\ reg'[o].watched /\ script[o] = s
  BY WorldFrame DEF Owned
<1>2. /\ \A o \in retry \cup todo : o \in used /\ reg[o].watched
      /\ \A o \in Outpoints : job = <<"subscribe", o>> =>
           o \in used /\ reg[o].watched /\ subs[script[o]] = {}
      /\ \A s \in Scripts : job = <<"read", s>> => subs[s] # {}
      /\ \A s \in Scripts, o \in Outpoints : o \in subs[s] =>
           o \in used /\ reg[o].watched /\ script[o] = s
  BY <1>0 DEF Owned
<1>3. CASE Ends
  <2>1. /\ retry' = {} /\ todo' = {} /\ job' = Idle /\ subs' = [s \in Scripts |-> {}]
    BY <1>3, EndsFrame DEF Forget
  <2>2. QED
    BY <2>1, IdleIsNoJob
<1>4. CASE HandleRegister
  <2> DEFINE p == Head(cmds)[2]
  <2>1. /\ p \in used /\ reg' = [reg EXCEPT ![p].watched = TRUE] /\ todo' \subseteq {p}
        /\ retry' = retry /\ job' = job /\ subs' = subs
    BY <1>0, <1>4, OurCommand DEF HandleRegister, Command, Merge, electrum
  <2> HIDE DEF p
  <2>2. \A o \in Outpoints : reg'[o].watched = (reg[o].watched \/ o = p)
    BY <1>0, <2>1
  <2>3. QED
    BY <1>0, <1>2, <2>1, <2>2
<1>5. CASE HandleRebuild
  <2> DEFINE W == Head(cmds)[2]
  <2>1. /\ W \subseteq used /\ todo' \subseteq W
        /\ reg' = [o \in Outpoints |-> IF o \in W THEN [reg EXCEPT ![o].watched = TRUE][o] ELSE reg[o]]
        /\ retry' = retry /\ job' = job /\ subs' = subs
    BY <1>0, <1>5, OurCommand DEF HandleRebuild, Command, Merge, electrum
  <2> HIDE DEF W
  <2>2. \A o \in Outpoints : reg'[o].watched = (reg[o].watched \/ o \in W)
    BY <1>0, <2>1
  <2>3. QED
    BY <1>0, <1>2, <2>1, <2>2
<1>6. ASSUME \A o \in Outpoints : reg'[o].watched = reg[o].watched,
             retry' = retry, todo' = todo, job' = job, subs' = subs
      PROVE  /\ \A o \in retry' \cup todo' : o \in used /\ reg'[o].watched
             /\ \A o \in Outpoints : job' = <<"subscribe", o>> =>
                  o \in used /\ reg'[o].watched /\ subs'[script[o]] = {}
             /\ \A s \in Scripts : job' = <<"read", s>> => subs'[s] # {}
             /\ \A s \in Scripts, o \in Outpoints : o \in subs'[s] =>
                  o \in used /\ reg'[o].watched /\ script[o] = s
  BY <1>0, <1>2, <1>6
<1>7. CASE Rescan
  <2>1. reg' = reg \/ \E S \in SUBSET Txs : reg' = RecordBlocks(reg, S)
    BY <1>7 DEF Rescan
  <2>2. ASSUME NEW S \in SUBSET Txs, reg' = RecordBlocks(reg, S), NEW o \in Outpoints
        PROVE  reg'[o].watched = reg[o].watched
    BY <1>0, <2>2 DEF RecordBlocks
  <2>3. \A o \in Outpoints : reg'[o].watched = reg[o].watched
    BY <2>1, <2>2
  <2>4. QED
    BY <1>6, <1>7, <2>3 DEF Rescan, electrum
<1>8. CASE HandleWatch
  <2> DEFINE p == Head(cmds)[2]
  <2>1. reg' = [reg EXCEPT ![p].tx = NoTx, ![p].block = FALSE] \/ reg' = reg
    BY <1>8 DEF HandleWatch
  <2> HIDE DEF p
  <2>2. \A o \in Outpoints : reg'[o].watched = reg[o].watched
    BY <1>0, <2>1
  <2>3. QED
    BY <1>6, <1>8, <2>2 DEF HandleWatch, electrum
<1>9. CASE HandleEvent
  <2> DEFINE t == Head(feed)[2]  b == Head(feed)[1] = "block"
  <2>1. t \in Txs /\ b \in BOOLEAN /\ reg' = Record(reg, t, b)
    BY <1>0, <1>9, EventArgument DEF HandleEvent
  <2> HIDE DEF t, b
  <2>2. \A o \in Outpoints : reg'[o].watched = reg[o].watched
    BY <1>0, <2>1, RecordKeepsWatches
  <2>3. QED
    BY <1>6, <1>9, <2>2 DEF HandleEvent, electrum
<1>10. CASE HandleUnwatch
  <2> DEFINE u == Head(cmds)[2]
  <2>1. /\ u \in Outpoints /\ reg' = [reg EXCEPT ![u] = None] /\ retry' = retry \ {u}
        /\ todo' = todo /\ job' = job /\ todo = {} /\ job = Idle
    BY <1>0, <1>10, CommandArgument DEF HandleUnwatch, Command, Free
  <2>2. \A s \in Scripts : subs'[s] \subseteq subs[s] /\ u \notin subs'[s]
    <3>1. CASE Electrum
      <4>1. subs' = [subs EXCEPT ![script[u]] = @ \ {u}]
        BY <1>10, <3>1 DEF HandleUnwatch, Unsubscribe
      <4> HIDE DEF u
      <4>2. QED
        BY <1>0, <1>2, <2>1, <4>1
    <3>2. CASE ~Electrum
      <4>1. subs' = subs /\ \A s \in Scripts : subs[s] = {}
        BY <1>0, <1>10, <3>2 DEF HandleUnwatch, electrum, Unsubscribed
      <4>2. QED
        BY <4>1
    <3>3. QED
      BY <3>1, <3>2
  <2> HIDE DEF u
  <2>3. \A o \in Outpoints : o # u => reg'[o] = reg[o]
    BY <1>0, <2>1
  <2>4. \A o \in retry' \cup todo' : o \in used /\ reg'[o].watched
    BY <1>0, <1>2, <2>1, <2>3
  <2>5. \A o \in Outpoints : job' # <<"subscribe", o>>
    BY <2>1, IdleIsNoJob
  <2>6. \A s \in Scripts : job' # <<"read", s>>
    BY <2>1, IdleIsNoJob
  <2>7. \A s \in Scripts, o \in Outpoints : o \in subs'[s] =>
          o \in used /\ reg'[o].watched /\ script[o] = s
    BY <1>0, <1>2, <2>2, <2>3, SMTT(20)
  <2>8. QED
    BY <2>4, <2>5, <2>6, <2>7
<1>11. CASE Arm
  <2>1. PICK p \in todo :
          /\ todo' = todo \ {p}
          /\ \/ /\ subs[script[p]] # {} /\ subs' = [subs EXCEPT ![script[p]] = @ \cup {p}]
                /\ job' = job /\ retry' = retry
             \/ subs[script[p]] = {} /\ subs' = subs /\ job' = <<"subscribe", p>> /\ retry' = retry
             \/ retry' = retry \cup {p} /\ subs' = subs /\ job' = job
    BY <1>11 DEF Arm
  <2>2. reg' = reg /\ job = Idle /\ p \in used /\ reg[p].watched /\ p \in Outpoints /\ script[p] \in Scripts
    BY <1>0, <1>2, <1>11 DEF Arm
  <2>3. CASE /\ subs[script[p]] # {} /\ subs' = [subs EXCEPT ![script[p]] = @ \cup {p}]
             /\ job' = job /\ retry' = retry
    BY <1>0, <1>2, <2>1, <2>2, <2>3, IdleIsNoJob, SMTT(20)
  <2>4. CASE subs[script[p]] = {} /\ subs' = subs /\ job' = <<"subscribe", p>> /\ retry' = retry
    <3>1. /\ \A o \in Outpoints : job' = <<"subscribe", o>> => o = p
          /\ \A s \in Scripts : job' # <<"read", s>>
      BY <2>4
    <3>2. QED
      BY <1>2, <2>1, <2>2, <2>4, <3>1
  <2>5. CASE retry' = retry \cup {p} /\ subs' = subs /\ job' = job
    BY <1>2, <2>1, <2>2, <2>5
  <2>6. QED
    BY <2>1, <2>3, <2>4, <2>5
<1>12. CASE SubscribeRead
  <2> DEFINE p == job[2]
  <2>1. p \in Outpoints /\ job = <<"subscribe", p>>
    BY <1>0, <1>12, JobArgument DEF SubscribeRead
  <2>2. \/ subs' = [subs EXCEPT ![script[p]] = @ \cup {p}] /\ retry' = retry
        \/ subs' = subs /\ retry' = retry \cup {p}
    BY <1>12 DEF SubscribeRead
  <2>3. reg' = reg /\ todo' = todo /\ job' = Idle
    BY <1>12 DEF SubscribeRead
  <2>4. p \in used /\ reg[p].watched /\ script[p] \in Scripts
    BY <1>0, <1>2, <2>1
  <2> HIDE DEF p
  <2>5. /\ \A s \in Scripts, o \in Outpoints : o \in subs'[s] => o \in subs[s] \/ (o = p /\ s = script[p])
        /\ retry' \subseteq retry \cup {p}
    <3>1. CASE subs' = [subs EXCEPT ![script[p]] = @ \cup {p}] /\ retry' = retry
      BY <1>0, <2>4, <3>1
    <3>2. CASE subs' = subs /\ retry' = retry \cup {p}
      BY <3>2
    <3>3. QED
      BY <2>2, <3>1, <3>2
  <2>6. QED
    BY <1>2, <2>3, <2>4, <2>5, IdleIsNoJob, SMTT(20)
<1>13. CASE RetrySubscribes
  <2>1. /\ todo' = retry /\ retry' = {} /\ reg' = reg /\ job' = job /\ subs' = subs
    BY <1>13 DEF RetrySubscribes, electrum
  <2>2. QED
    BY <1>2, <2>1
<1>14. CASE PopStatus
  <2>1. PICK s \in Scripts : subs[s] # {} /\ job' = <<"read", s>>
    BY <1>14 DEF PopStatus, Subscribed
  <2>2. reg' = reg /\ retry' = retry /\ todo' = todo /\ subs' = subs
    BY <1>14 DEF PopStatus
  <2>3. /\ \A o \in Outpoints : job' # <<"subscribe", o>>
        /\ \A x \in Scripts : job' = <<"read", x>> => x = s
    BY <2>1
  <2>4. QED
    BY <1>2, <2>1, <2>2, <2>3
<1>15. CASE ReadHistory
  <2>1. reg' = reg /\ retry' = retry /\ todo' = todo /\ subs' = subs /\ job' = Idle
    BY <1>15 DEF ReadHistory
  <2>2. QED
    BY <1>2, <2>1, IdleIsNoJob
<1>16. CASE UNCHANGED <<reg, retry, todo, job, subs, seen, attempts>>
  BY <1>6, <1>16
<1>17. QED
  BY HoldCases, <1>3, <1>4, <1>5, <1>7, <1>8, <1>9, <1>10, <1>11, <1>12, <1>13, <1>14,
     <1>15, <1>16

\* Scripts are read for what is on the chain, and forgotten with their last watcher.
LEMMA SightedStep == ASSUME RInv, [Next]_vars PROVE Sighted'
<1>0. /\ TypeOK /\ Sighted /\ Owned /\ Single
      /\ script \in [Outpoints -> Scripts] /\ subs \in [Scripts -> SUBSET Outpoints]
      /\ seen \in [Scripts -> SUBSET Txs]
  BY DEF RInv, IInv, TypeOK
<1>1. SUFFICES \A s \in Scripts :
                 /\ subs'[s] = {} => seen'[s] = {}
                 /\ \A t \in seen'[s] : chain'[t] # "none" /\ ScriptOf(t) = s
  BY WorldFrame DEF Sighted, ScriptOf
<1>2. \A s \in Scripts :
        /\ subs[s] = {} => seen[s] = {}
        /\ \A t \in seen[s] : chain[t] # "none" /\ ScriptOf(t) = s
  BY <1>0 DEF Sighted
<1>3. \A t \in Txs : chain[t] # "none" => chain'[t] # "none"
  <2>1. CASE Chain
    BY <1>0, <2>1, ChainStep
  <2>2. CASE chain' = chain
    BY <2>2
  <2>3. QED
    BY <2>1, <2>2, WorldFrame
<1>4. \A s \in Scripts : \A t \in seen[s] : chain'[t] # "none" /\ ScriptOf(t) = s
  BY <1>0, <1>2, <1>3
<1>5. CASE Ends
  BY <1>5, EndsFrame DEF Forget
<1>6. CASE HandleRegister \/ HandleRebuild \/ Rescan \/ HandleWatch \/ RetrySubscribes \/ HandleEvent \/ PopStatus
  <2>1. subs' = subs /\ seen' = seen
    BY <1>6 DEF HandleRegister, HandleRebuild, Rescan, HandleWatch, RetrySubscribes, HandleEvent,
                PopStatus, electrum
  <2>2. QED
    BY <1>2, <1>4, <2>1
<1>7. CASE HandleUnwatch
  <2> DEFINE u == Head(cmds)[2]
  <2>1. u \in Outpoints
    BY <1>0, <1>7, CommandArgument DEF HandleUnwatch, Command
  <2>2. \/ subs' = subs /\ seen' = seen
        \/ /\ subs' = [subs EXCEPT ![script[u]] = @ \ {u}]
           /\ \/ subs[script[u]] \ {u} # {} /\ seen' = seen
              \/ seen' = [seen EXCEPT ![script[u]] = {}]
    BY <1>7 DEF HandleUnwatch, Unsubscribe, electrum
  <2>3. script[u] \in Scripts
    BY <1>0, <2>1
  <2> HIDE DEF u
  <2>4. QED
    BY <1>0, <1>2, <1>4, <2>2, <2>3
<1>8. CASE Arm
  <2>1. seen' = seen /\ \A s \in Scripts : subs[s] \subseteq subs'[s]
    BY <1>0, <1>8 DEF Arm
  <2>2. QED
    BY <1>2, <1>4, <2>1
<1>9. ASSUME NEW z \in Scripts, NEW S \in SUBSET Txs, Fetch(z, S), S \subseteq History(z), chain' = chain,
             subs'[z] # {}, \A s \in Scripts : subs[s] \subseteq subs'[s]
      PROVE  \A s \in Scripts :
               /\ subs'[s] = {} => seen'[s] = {}
               /\ \A t \in seen'[s] : chain'[t] # "none" /\ ScriptOf(t) = s
  <2>1. PICK Z \in SUBSET S : seen' = [seen EXCEPT ![z] = @ \cup Z]
    BY <1>0, <1>9, FetchDoes
  <2>2. \A t \in Z : chain'[t] # "none" /\ ScriptOf(t) = z
    BY <1>9 DEF History, Live
  <2>3. seen'[z] = seen[z] \cup Z /\ \A s \in Scripts : s # z => seen'[s] = seen[s]
    BY <1>0, <2>1
  <2>4. QED
    BY <1>2, <1>4, <1>9, <2>2, <2>3
<1>10. CASE SubscribeRead
  <2> DEFINE p == job[2]  z == script[p]
  <2>1. p \in Outpoints /\ z \in Scripts /\ chain' = chain
    BY <1>0, <1>10, JobArgument DEF SubscribeRead, stepFrame, threadFrame
  <2>2. CASE subs' = [subs EXCEPT ![z] = @ \cup {p}] /\ Fetch(z, History(z))
    <3>1. subs'[z] # {} /\ \A s \in Scripts : subs[s] \subseteq subs'[s]
      BY <1>0, <2>1, <2>2
    <3> HIDE DEF p, z
    <3>2. QED
      BY <1>9, <2>1, <2>2, <3>1, HistoryType
  <2>3. CASE subs' = subs /\ seen' = seen
    BY <1>2, <1>4, <2>3
  <2>4. QED
    BY <1>10, <2>2, <2>3 DEF SubscribeRead
<1>11. CASE ReadHistory
  <2> DEFINE z == job[2]
  <2>1. z \in Scripts /\ job = <<"read", z>> /\ chain' = chain /\ subs' = subs
    BY <1>0, <1>11, JobArgument DEF ReadHistory, stepFrame, threadFrame
  <2>2. CASE Fetch(z, History(z) \ seen[z])
    <3>1. subs[z] # {}
      BY <1>0, <2>1 DEF Owned
    <3> HIDE DEF z
    <3>2. QED
      BY <1>9, <2>1, <2>2, <3>1, HistoryType
  <2>3. CASE seen' = seen
    BY <1>2, <1>4, <2>1, <2>3
  <2>4. QED
    BY <1>11, <2>2, <2>3 DEF ReadHistory
<1>12. CASE UNCHANGED <<reg, retry, todo, job, subs, seen, attempts>>
  BY <1>2, <1>4, <1>12
<1>13. QED
  BY HoldCases, <1>5, <1>6, <1>7, <1>8, <1>10, <1>11, <1>12

\* A live spend that was seen, of an outpoint that shares its script with no other: the
\* outpoint is watched and alone under the script.
LEMMA SeenIsWatched ==
  ASSUME TypeOK, Owned, Sighted, NEW t \in Txs, ~Shared(Spends[t]), t \in seen[ScriptOf(t)]
  PROVE  Spends[t] \in used /\ reg[Spends[t]].watched /\ subs[ScriptOf(t)] = {Spends[t]}
<1> DEFINE o == Spends[t]  s == ScriptOf(t)
<1>1. o \in Outpoints /\ s \in Scripts /\ s = script[o] /\ subs[s] \subseteq Outpoints
  BY WatchAssumption DEF TypeOK, ScriptOf
<1>2. subs[s] # {}
  BY <1>1 DEF Sighted
<1>3. \A p \in subs[s] : p \in used /\ reg[p].watched /\ script[p] = s
  BY <1>1 DEF Owned
<1>4. \A p \in subs[s] : p = o
  BY <1>1, <1>3 DEF Shared
<1>5. QED
  BY <1>2, <1>3, <1>4

\* A fetch of what a script has and was not seen keeps what was seen, and queues the rest.
LEMMA FetchKeeps ==
  ASSUME EventsOfSets, TypeOK, Single, NEW z \in Scripts, NEW S \in SUBSET Txs, Fetch(z, S),
         S \subseteq History(z), S \cap seen[z] = {}, reg' = reg,
         NEW t \in Txs, Live(t), t \in seen'[ScriptOf(t)],
         t \in seen[ScriptOf(t)] =>
           attempts[t] > Cap \/ (reg[Spends[t]].tx = t /\ OnlyAfter(feed, t, 0)) \/ ComingIn(feed, t)
  PROVE  attempts'[t] > Cap \/ (reg'[Spends[t]].tx = t /\ OnlyAfter(feed', t, 0)) \/ ComingIn(feed', t)
<1>0. feed \in Seq(Events) /\ seen \in [Scripts -> SUBSET Txs] /\ ScriptOf(t) \in Scripts
  BY WatchAssumption DEF TypeOK, ScriptOf
<1>1. PICK R \in SUBSET S, Z \in SUBSET S :
        /\ feed' = feed \o TxEvents(R)
        /\ seen' = [seen EXCEPT ![z] = @ \cup Z]
        /\ \A u \in Txs \ S : attempts'[u] = attempts[u]
        /\ \A u \in S \ R : u \in Z => attempts'[u] > Cap
  BY FetchDoes
<1> DEFINE e == TxEvents(R)
<1>2. /\ e \in Seq(Events) /\ feed' = feed \o e
      /\ \A j \in 1..Len(e) : e[j][2] \in R
      /\ t \in R => \E j \in 1..Len(e) : e[j][2] = t
  <2>1. R \in SUBSET Txs
    OBVIOUS
  <2>2. /\ TxEvents(R) \in Seq(Events)
        /\ \A j \in 1..Len(TxEvents(R)) : TxEvents(R)[j][1] = "tx" /\ TxEvents(R)[j][2] \in R
        /\ \A u \in R : \E j \in 1..Len(TxEvents(R)) : TxEvents(R)[j][2] = u
    BY <2>1, Zenon DEF EventsOfSets
  <2> HIDE DEF e
  <2>3. QED
    BY <1>1, <2>2 DEF e
<1> HIDE DEF e
<1>3. \A u \in S : Live(u) /\ ScriptOf(u) = z
  BY DEF History
<1>4. OnlyAfter(e, t, 0)
  BY <1>2, <1>3 DEF OnlyAfter, Single
<1>5. CASE t \in S
  <2>1. ScriptOf(t) = z /\ t \notin seen[z]
    BY <1>3, <1>5
  <2>2. t \in Z
    BY <1>0, <1>1, <2>1
  <2>3. CASE t \in R
    BY <1>0, <1>2, <1>4, <2>3, JoinComing
  <2>4. CASE t \notin R
    BY <1>1, <1>5, <2>2, <2>4
  <2>5. QED
    BY <2>3, <2>4
<1>6. CASE t \notin S
  <2>1. t \in seen[ScriptOf(t)]
    BY <1>0, <1>1, <1>6
  <2>2. attempts'[t] = attempts[t]
    BY <1>1, <1>6
  <2>3. QED
    BY <1>0, <1>2, <1>4, <2>1, <2>2, JoinComing
<1>7. QED
  BY <1>5, <1>6

\* process_transaction leaves the other outpoints alone, and records the spend of a watched
\* outpoint that has no confirmed one.
LEMMA RecordTaken ==
  ASSUME TypeOK, NEW x \in Txs, NEW b \in BOOLEAN
  PROVE  /\ \A p \in Outpoints : p # Spends[x] => Record(reg, x, b)[p] = reg[p]
         /\ reg[Spends[x]].watched /\ ~reg[Spends[x]].block => Record(reg, x, b)[Spends[x]].tx = x
BY RecordOf, SMTT(20)

\* A spend that was seen is carried from the queue into the registry.
LEMMA KeptStep == ASSUME EventsOfSets, RInv, [Next]_vars PROVE Kept'
<1>0. /\ TypeOK /\ Single /\ Plain /\ Owned /\ Sighted /\ Kept
      /\ feed \in Seq(Events) /\ script \in [Outpoints -> Scripts] /\ seen \in [Scripts -> SUBSET Txs]
      /\ reg \in [Outpoints -> [watched : BOOLEAN, tx : Txs \cup {NoTx}, block : BOOLEAN]]
      /\ subs \in [Scripts -> SUBSET Outpoints]
  BY DEF RInv, IInv, TypeOK
<1>1. SUFFICES ASSUME Electrum, NEW t \in Txs, chain'[t] \in {"mempool", "mined"},
                      ~Shared(Spends[t]), t \in seen'[ScriptOf(t)]
               PROVE  \/ attempts'[t] > Cap
                      \/ reg'[Spends[t]].tx = t /\ OnlyAfter(feed', t, 0)
                      \/ ComingIn(feed', t)
  BY WorldFrame DEF Kept, Electrum, Live, Shared, ScriptOf
<1> DEFINE o == Spends[t]  s == ScriptOf(t)
<1>2. o \in Outpoints /\ s \in Scripts /\ s = script[o]
  BY <1>0, WatchAssumption DEF ScriptOf
<1>3. ASSUME t \in seen[s]
      PROVE  Live(t) /\ reg[o].watched /\ subs[s] = {o}
  <2>1. chain[t] # "none"
    BY <1>0, <1>2, <1>3 DEF Sighted
  <2>2. CASE Chain
    <3>1. chain[t] \in {"mempool", "mined"}
      BY <1>0, <1>1, <2>1, <2>2, ChainStep
    <3>2. QED
      BY <1>0, <1>1, <1>3, <3>1, SeenIsWatched DEF Live
  <2>3. CASE chain' = chain
    BY <1>0, <1>1, <1>3, <2>3, SeenIsWatched DEF Live
  <2>4. QED
    BY <2>2, <2>3, WorldFrame
<1>4. ASSUME t \in seen[s]
      PROVE  attempts[t] > Cap \/ (reg[o].tx = t /\ OnlyAfter(feed, t, 0)) \/ ComingIn(feed, t)
  BY <1>0, <1>1, <1>3, <1>4 DEF Kept
<1> HIDE DEF o, s
<1>5. ASSUME t \in seen[s], attempts' = attempts, feed' = feed, reg'[o].tx = reg[o].tx
      PROVE  \/ attempts'[t] > Cap
             \/ reg'[Spends[t]].tx = t /\ OnlyAfter(feed', t, 0)
             \/ ComingIn(feed', t)
  BY <1>4, <1>5 DEF o
<1>6. CASE Ends
  <2>1. seen'[s] = {}
    BY <1>2, <1>6, EndsFrame DEF Forget
  <2>2. QED
    BY <1>1, <2>1 DEF s
<1>7. CASE HandleRegister
  <2>1. reg'[o].tx = reg[o].tx
    BY <1>0, <1>2, <1>7, CommandArgument DEF HandleRegister, Command, Merge
  <2>2. QED
    BY <1>1, <1>5, <1>7, <2>1 DEF HandleRegister, electrum, s
<1>8. CASE HandleRebuild
  <2>1. reg'[o].tx = reg[o].tx
    BY <1>0, <1>2, <1>8 DEF HandleRebuild, Merge
  <2>2. QED
    BY <1>1, <1>5, <1>8, <2>1 DEF HandleRebuild, electrum, s
<1>9. CASE Rescan
  BY <1>0, <1>1, <1>9 DEF Rescan, Plain
<1>10. CASE HandleWatch
  <2>1. Head(cmds)[2] \in Outpoints
    BY <1>0, <1>10, CommandArgument DEF HandleWatch, Command
  <2>2. ~reg[Head(cmds)[2]].block
    BY <1>0, <1>1, <2>1 DEF Plain
  <2>3. reg' = reg /\ feed' = feed /\ attempts' = attempts /\ seen' = seen
    BY <1>10, <2>2 DEF HandleWatch, electrum
  <2>4. QED
    BY <1>1, <1>5, <2>3 DEF s
<1>11. CASE HandleUnwatch
  <2> DEFINE u == Head(cmds)[2]
  <2>1. /\ u \in Outpoints /\ reg' = [reg EXCEPT ![u] = None] /\ feed' = feed
    BY <1>0, <1>11, CommandArgument DEF HandleUnwatch, Command
  <2>2. /\ \/ subs[script[u]] \ {u} # {} /\ seen' = seen
           \/ seen' = [seen EXCEPT ![script[u]] = {}]
        /\ attempts' = attempts
    BY <1>1, <1>11 DEF HandleUnwatch, Unsubscribe
  <2> HIDE DEF u
  <2>3. script[u] \in Scripts
    BY <1>0, <2>1
  <2>4. t \in seen[s]
    BY <1>0, <1>1, <1>2, <2>2, <2>3 DEF s
  <2>5. u # o
    <3>1. SUFFICES ASSUME u = o PROVE FALSE
      OBVIOUS
    <3>2. subs[script[u]] \ {u} = {}
      BY <1>2, <1>3, <2>4, <3>1
    <3>3. seen'[s] = {}
      BY <1>0, <1>2, <2>2, <2>3, <3>1, <3>2
    <3>4. QED
      BY <1>1, <3>3 DEF s
  <2>6. reg'[o] = reg[o]
    BY <1>0, <1>2, <2>1, <2>5
  <2>7. QED
    BY <1>5, <2>1, <2>2, <2>4, <2>6
<1>12. CASE Arm \/ RetrySubscribes \/ PopStatus
  <2>1. reg' = reg /\ feed' = feed /\ attempts' = attempts /\ seen' = seen
    BY <1>12 DEF Arm, RetrySubscribes, PopStatus, electrum
  <2>2. QED
    BY <1>1, <1>5, <2>1 DEF s
<1>13. CASE SubscribeRead
  <2> DEFINE p == job[2]  z == script[p]
  <2>1. p \in Outpoints /\ z \in Scripts /\ job = <<"subscribe", p>> /\ chain' = chain /\ reg' = reg
    BY <1>0, <1>13, JobArgument DEF SubscribeRead, stepFrame, threadFrame
  <2>2. seen[z] = {}
    BY <1>0, <2>1 DEF Owned, Sighted
  <2>3. CASE Fetch(z, History(z))
    <3> HIDE DEF p, z
    <3>1. Live(t)
      BY <1>1, <2>1 DEF Live
    <3>2. QED
      BY <1>0, <1>1, <1>4, <2>1, <2>2, <2>3, <3>1, HistoryType, FetchKeeps DEF o, s
  <2>4. CASE seen' = seen /\ attempts' = attempts /\ feed' = feed
    BY <1>1, <1>5, <2>1, <2>4 DEF s
  <2>5. QED
    BY <1>13, <2>3, <2>4 DEF SubscribeRead
<1>14. CASE ReadHistory
  <2> DEFINE z == job[2]
  <2>1. z \in Scripts /\ chain' = chain /\ reg' = reg
    BY <1>0, <1>14, JobArgument DEF ReadHistory, stepFrame, threadFrame
  <2>2. CASE Fetch(z, History(z) \ seen[z])
    <3> HIDE DEF z
    <3>1. Live(t)
      BY <1>1, <2>1 DEF Live
    <3> DEFINE S == History(z) \ seen[z]
    <3>2. S \in SUBSET Txs /\ S \subseteq History(z) /\ S \cap seen[z] = {} /\ Fetch(z, S)
      BY <2>2, HistoryType
    <3> HIDE DEF S
    <3>3. QED
      BY <1>0, <1>1, <1>4, <2>1, <3>1, <3>2, FetchKeeps DEF o, s
  <2>3. CASE seen' = seen /\ attempts' = attempts /\ feed' = feed
    BY <1>1, <1>5, <2>1, <2>3 DEF s
  <2>4. QED
    BY <1>14, <2>2, <2>3 DEF ReadHistory
<1>15. CASE HandleEvent
  <2> DEFINE x == Head(feed)[2]
  <2>1. /\ feed # <<>> /\ feed' = Tail(feed) /\ reg' = Record(reg, x, Head(feed)[1] = "block")
        /\ x \in Txs /\ attempts' = attempts /\ seen' = seen
    BY <1>0, <1>15, EventArgument DEF HandleEvent, electrum
  <2>2. (Head(feed)[1] = "block") \in BOOLEAN
    OBVIOUS
  <2> DEFINE b == Head(feed)[1] = "block"
  <2>3. t \in seen[s] /\ reg[o].watched /\ ~reg[o].block
    BY <1>0, <1>1, <1>2, <1>3, <2>1 DEF Plain, s
  <2>4. CASE attempts[t] > Cap
    BY <2>1, <2>4
  <2>5. ASSUME x = t PROVE reg'[o].tx = t
    <3> HIDE DEF x, b
    <3>1. TypeOK /\ x \in Txs /\ b \in BOOLEAN /\ reg' = Record(reg, x, b)
      BY <1>0, <2>1 DEF b
    <3>2. QED
      <4>1. reg[Spends[x]].watched /\ ~reg[Spends[x]].block => Record(reg, x, b)[Spends[x]].tx = x
        BY <3>1, RecordTaken
      <4>2. QED
        BY <2>3, <2>5, <3>1, <4>1 DEF o
  <2>6. ASSUME Spends[x] # o PROVE reg'[o] = reg[o]
    <3> HIDE DEF x, b
    <3>1. TypeOK /\ x \in Txs /\ b \in BOOLEAN /\ reg' = Record(reg, x, b)
      BY <1>0, <2>1 DEF b
    <3>2. QED
      <4>1. \A p \in Outpoints : p # Spends[x] => Record(reg, x, b)[p] = reg[p]
        BY <3>1, RecordTaken
      <4>2. QED
        BY <1>2, <2>6, <3>1, <4>1
  <2>7. CASE reg[o].tx = t /\ OnlyAfter(feed, t, 0)
    <3>1. OnlyAfter(Tail(feed), t, 0) /\ (Spends[x] = Spends[t] => x = t)
      BY <1>0, <2>1, <2>7, TailComing
    <3>2. reg'[o].tx = t
      BY <2>5, <2>6, <2>7, <3>1 DEF o
    <3>3. QED
      BY <2>1, <3>1, <3>2 DEF o
  <2>8. CASE ComingIn(feed, t)
    <3>1. ComingIn(Tail(feed), t) \/ (x = t /\ OnlyAfter(Tail(feed), t, 0))
      BY <1>0, <2>1, <2>8, TailComing
    <3>2. QED
      BY <2>1, <2>5, <3>1 DEF o
  <2>9. QED
    BY <1>4, <2>3, <2>4, <2>7, <2>8
<1>16. CASE UNCHANGED <<reg, retry, todo, job, subs, seen, attempts>>
  <2>1. CASE feed' = feed
    BY <1>1, <1>5, <1>16, <2>1 DEF s
  <2>2. CASE Chain
    <3>1. feed' = feed
      BY <1>0, <1>1, <2>2, ChainStep
    <3>2. QED
      BY <2>1, <3>1
  <2>3. CASE ZmqLost
    BY <1>1, <2>3 DEF ZmqLost
  <2>4. QED
    BY FeedCases, <1>6, <1>13, <1>14, <1>15, <2>1, <2>2, <2>3
<1>17. QED
  BY HoldCases, <1>6, <1>7, <1>8, <1>9, <1>10, <1>11, <1>12, <1>13, <1>14, <1>15, <1>16

-----------------------------------------------------------------------------
\* The second invariant holds at the start.
LEMMA RecordedInitially == Init => RInv
<1> SUFFICES ASSUME Init PROVE RInv
  OBVIOUS
<1>1. IInv
  BY Initially
<1>2. Single /\ Blank /\ Sighted /\ Kept
  BY DEF Init, Single, Live, Blank, Running, Sighted, Kept, None
<1>3. Reported /\ Noted
  BY DEF Init, Reported, Noted
<1>4. Unsubscribed /\ Plain
  BY DEF Init, Unsubscribed, Plain, None
<1>5. Owned
  BY IdleIsNoJob DEF Init, Owned
<1>6. Ours
  <2>1. <<"rebuild", {}>> \in UsedCommands
    BY DEF UsedCommands
  <2>2. \A c \in UsedCommands : <<c>> \in Seq(UsedCommands)
    OBVIOUS
  <2>3. QED
    BY <2>1, <2>2 DEF Init, Ours
<1>7. QED
  BY <1>1, <1>2, <1>3, <1>4, <1>5, <1>6 DEF RInv

\* The second invariant is inductive.
LEMMA RecordedInductive == ASSUME EventsOfSets, RInv, [Next]_vars PROVE RInv'
<1>1. IInv'
  BY Inductive DEF RInv
<1>2. QED
  BY <1>1, SingleStep, BlankStep, ReportedStep, NotedStep, UnsubscribedStep, PlainStep,
     OursStep, OwnedStep, SightedStep, KeptStep DEF RInv

-----------------------------------------------------------------------------
(* The library's facts on finite sets, taken here, where they are needed,  *)
(* so that the leaves above are tried without them.                        *)
INSTANCE FiniteSetTheorems

\* A function on 1..n is a sequence.
LEMMA FunctionIsSeq ==
  ASSUME NEW S, NEW n \in Nat, NEW q \in [1..n -> S]
  PROVE  q \in Seq(S)
OBVIOUS

\* The transactions of a set are queued as events.
LEMMA Queued ==
  ASSUME NEW S \in SUBSET Txs
  PROVE  TxEvents(S) \in Seq(Events)
<1> DEFINE n == Cardinality(S)  q == CHOOSE f \in [1..n -> S] : IsInjective(f)
<1>1. n \in Nat /\ ExistsBijection(1..n, S)
  BY FS_Subset, FS_CardinalityType, WatchAssumption
<1> HIDE DEF n
<1>2. \E f \in [1..n -> S] : IsInjective(f)
  BY <1>1 DEF ExistsBijection, Bijection, Injection
<1>3. q \in [1..n -> S]
  BY <1>2
<1> HIDE DEF q
<1>4. [i \in 1..n |-> <<"tx", q[i]>>] \in [1..n -> Events]
  BY <1>3 DEF Events
<1>5. [i \in 1..n |-> <<"tx", q[i]>>] \in Seq(Events)
  BY <1>1, <1>4, FunctionIsSeq
<1>6. QED
  BY <1>5 DEF TxEvents, n, q

\* What is queued of a set of transactions: an event of each, and of no other.
LEMMA TxEventsOf ==
  ASSUME NEW S \in SUBSET Txs
  PROVE  /\ \A j \in 1..Len(TxEvents(S)) : TxEvents(S)[j][1] = "tx" /\ TxEvents(S)[j][2] \in S
         /\ \A t \in S : \E j \in 1..Len(TxEvents(S)) : TxEvents(S)[j][2] = t
<1> DEFINE n == Cardinality(S)  q == CHOOSE f \in [1..n -> S] : IsInjective(f)
<1>1. IsFiniteSet(S) /\ n \in Nat /\ ExistsBijection(1..n, S)
  BY FS_Subset, FS_CardinalityType, WatchAssumption
<1>2. \E f \in [1..n -> S] : IsInjective(f)
  BY <1>1 DEF ExistsBijection, Bijection, Injection
<1>3. q \in [1..n -> S] /\ IsInjective(q)
  BY <1>2
<1> HIDE DEF q
<1>4. q \in Surjection(1..n, S)
  <2>1. IsFiniteSet(1..n) /\ Cardinality(1..n) = n
    BY <1>1, FS_Interval
  <2>2. q \in Injection(1..n, S)
    BY <1>3 DEF Injection
  <2>3. QED
    BY <1>1, <2>1, <2>2, FS_Injection, FS_Bijection
<1>5. \A t \in S : \E j \in 1..n : q[j] = t
  BY <1>4 DEF Surjection
<1> DEFINE e == [i \in 1..n |-> <<"tx", q[i]>>]
<1>6. TxEvents(S) = e
  BY DEF TxEvents, q
<1> HIDE DEF n
<1>7. Len(e) = n /\ \A j \in 1..n : e[j][1] = "tx" /\ e[j][2] = q[j]
  BY <1>1
<1> HIDE DEF e
<1>8. QED
  BY <1>3, <1>5, <1>6, <1>7

\* Fetch's queue holds what it fetched.
LEMMA FetchedIsQueued == EventsOfSets
BY Queued, TxEventsOf DEF EventsOfSets

-----------------------------------------------------------------------------
\* Every behaviour satisfies the invariant.
THEOREM Invariant == Spec => []IInv
<1>1. IInv /\ [Next]_vars => IInv'
  BY FetchedIsQueued, Inductive
<1>2. QED
  BY Initially, <1>1, PTL DEF Spec

\* The types hold always, and an entry of the registry marked as confirmed (in_block) always
\* names the transaction: no merge, clearing or rescan leaves the flag without it.
THEOREM TypeCorrect == Spec => []TypeOK
<1>1. IInv => TypeOK
  BY DEF IInv
<1>2. QED
  BY Invariant, <1>1, PTL

\* On Electrum a watched outpoint is never dropped between the registry and the subscriptions:
\* it holds its script's entry, or is queued in pending_subscribes or by the handler, or its
\* subscription is the request under way; for any sharing of scripts and any failures.
THEOREM AlwaysHeld == Spec => []WatchedIsHeld
<1>1. IInv => WatchedIsHeld
  BY DEF IInv
<1>2. QED
  BY Invariant, <1>1, PTL

\* On Electrum a spend under a subscribed script is never beyond hearing: seen, marked,
\* flagged or being read, or every script is about to be re-armed and marked; for any number
\* of lost connections, failed requests and recycled subscriptions.
THEOREM AlwaysHeard == Spec => []NeverDeaf
<1>1. IInv => NeverDeaf
  BY DEF IInv
<1>2. QED
  BY Invariant, <1>1, PTL

\* Every behaviour satisfies it.
THEOREM RecordedInvariant == Spec => []RInv
<1>1. RInv /\ [Next]_vars => RInv'
  BY FetchedIsQueued, RecordedInductive
<1>2. QED
  BY RecordedInitially, <1>1, PTL DEF Spec

\* On Core, whenever the queue is drained, a mined spend of a watched outpoint is recorded as
\* confirmed, for any messages queued, reorganisations, restarts and failed rescans, unless its
\* message was lost or it was mined before its outpoint was watched.
THEOREM AlwaysCaughtUp == Spec => []CoreCaughtUp
<1>1. RInv => CoreCaughtUp
  <2>1. SUFFICES ASSUME RInv, ~Electrum, pc \in {"commands", "drain", "events", "retry"}, feed = <<>>,
                        NEW t \in Txs \ missed, chain[t] = "mined", reg[Spends[t]].watched
                 PROVE  reg[Spends[t]].tx = t /\ reg[Spends[t]].block
    BY DEF CoreCaughtUp
  <2>2. Noted /\ Awake /\ SilentIn(feed, Spends[t])
    BY <2>1 DEF RInv, Awake, SilentIn
  <2>3. QED
    BY <2>1, <2>2 DEF Noted
<1>2. QED
  BY RecordedInvariant, <1>1, PTL

\* On Electrum a live spend that was seen under its outpoint's own script is recorded, or its
\* event is queued, or its fetch was given up; for any sequence of lost connections, failed
\* fetches, replaced spends and subscriptions.
THEOREM AlwaysRecorded == Spec => []SeenIsRecorded
<1>1. RInv => SeenIsRecorded
  <2>1. SUFFICES ASSUME RInv, Electrum, NEW t \in Txs, Live(t), ~Shared(Spends[t]),
                        t \in seen[script[Spends[t]]]
                 PROVE  reg[Spends[t]].tx = t \/ <<"tx", t>> \in Range(feed) \/ attempts[t] > Cap
    BY DEF SeenIsRecorded
  <2>2. Kept /\ Plain /\ feed \in Seq(Events)
    BY <2>1 DEF RInv, IInv, TypeOK
  <2>3. attempts[t] > Cap \/ reg[Spends[t]].tx = t \/ ComingIn(feed, t)
    BY <2>1, <2>2 DEF Kept, ScriptOf
  <2>4. ASSUME ComingIn(feed, t) PROVE <<"tx", t>> \in Range(feed)
    <3>1. PICK i \in 1..Len(feed) : feed[i][2] = t
      BY <2>4 DEF ComingIn
    <3>2. feed[i] = <<"tx", t>>
      BY <2>1, <2>2, <3>1, EventParts DEF Plain
    <3>3. i \in DOMAIN feed
      BY <2>2
    <3>4. QED
      BY <3>2, <3>3 DEF Range
  <2>5. QED
    BY <2>3, <2>4
<1>2. QED
  BY RecordedInvariant, <1>1, PTL
=============================================================================
