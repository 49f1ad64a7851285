----------------------------- MODULE Watchtower -----------------------------
(***************************************************************************)
(* The watchtower of a maker or a taker: the watcher thread, the service   *)
(* through which the other threads talk to it, its registry of watched     *)
(* outpoints, and the backend that tells it of spends, which is either     *)
(* Bitcoin Core (a ZMQ feed of transactions and blocks) or an Electrum     *)
(* server (one subscription per script, lost with the connection).         *)
(*                                                                         *)
(* A transaction of the model spends one contract outpoint; two that spend *)
(* the same outpoint are rivals.  The registry is memory-only: a restart   *)
(* rebuilds it from the wallet's live contracts.                           *)
(***************************************************************************)
EXTENDS Integers, Sequences, FiniteSets, Functions

CONSTANTS
  Outpoints, Scripts, Txs,
  Spends,      \* the outpoint each transaction spends
  Wallets,     \* the contracts to consider: their outpoints and each outpoint's script,
               \* which two may share
  NoTx, Idle,  \* model values: no recorded spend; no backend request under way
  Backends,    \* which backends to consider
  Cap,         \* max_retries: failed fetches of one transaction
  MaxFaults,   \* bound: failing backend calls, lost connections, reorgs, panics, crashes
  MaxCmds,     \* bound: commands queued
  MaxFeed      \* bound: events queued, the replay of a new subscription included

ASSUME WatchAssumption ==
  /\ Spends \in [Txs -> Outpoints] /\ NoTx \notin Txs /\ IsFiniteSet(Txs)
  /\ Idle \notin ({"subscribe"} \X Outpoints) \cup ({"read"} \X Scripts)
  /\ Wallets \subseteq [used : SUBSET Outpoints, script : [Outpoints -> Scripts]]
  /\ Backends \subseteq {"core", "electrum"}
  /\ Cap \in Nat /\ MaxFaults \in Nat
  /\ MaxCmds \in Nat \ {0} /\ MaxFeed \in Nat

VARIABLES
  backend,          \* the backend
  used, script,     \* the wallet's contracts; each outpoint's scriptPubKey
  chain,            \* each transaction: none, mempool, mined, gone
  contracts,        \* outpoints of the live contracts in the wallet file
  client,           \* the calling thread: ready, or blocked in rebuild or watch
  cmds,             \* the command channel
  pc,               \* where the watcher thread is
  reg,              \* registry: is the outpoint watched, its recorded spend, in_block
  retry,            \* pending_subscribes
  todo, job,        \* outpoints the handler has yet to subscribe; the request under way
  feed,             \* events the backend holds for poll_event
  subs, seen,       \* Electrum: each script's watchers (none: no entry) and seen txids
  armed, notif,     \* the connection: subscribed scripts, those with a new status
  rearm, reset,     \* needs_rearm, subscription_reset_pending
  dirty, attempts,  \* scripts to read again; failed fetches of each transaction
  missed,           \* spends whose ZMQ notification is lost
  faults

env      == <<backend, used, script>>
service  == <<client, cmds>>
electrum == <<subs, seen, armed, notif, rearm, reset, dirty, attempts>>
vars == <<env, chain, contracts, service, pc, reg, retry, todo, job, feed, electrum,
          missed, faults>>

None == [watched |-> FALSE, tx |-> NoTx, block |-> FALSE]
Live(t) == chain[t] \in {"mempool", "mined"}
ScriptOf(t) == script[Spends[t]]
Running == pc \notin {"exited", "down"}
Electrum == backend = "electrum"
Subscribed == {s \in Scripts : subs[s] # {}}
Free == todo = {} /\ job = Idle

Init ==
  /\ backend \in Backends /\ \E w \in Wallets : used = w.used /\ script = w.script
  /\ chain = [t \in Txs |-> "none"] /\ contracts = {}
  /\ client = "rebuild" /\ cmds = <<<<"rebuild", {}>>>>
  /\ pc = "start"
  /\ reg = [o \in Outpoints |-> None] /\ retry = {} /\ todo = {} /\ job = Idle
  /\ feed = <<>> /\ subs = [s \in Scripts |-> {}] /\ seen = [s \in Scripts |-> {}]
  /\ armed = {} /\ notif = {} /\ rearm = FALSE /\ reset = FALSE
  /\ dirty = {} /\ attempts = [t \in Txs |-> 0]
  /\ missed = {} /\ faults = 0

Fault == faults < MaxFaults /\ faults' = faults + 1

\* The watcher, its backend and its channel are dropped with the thread.
Forget ==
  /\ cmds' = <<>>
  /\ reg' = [o \in Outpoints |-> None] /\ retry' = {} /\ todo' = {} /\ job' = Idle
  /\ feed' = <<>> /\ subs' = [s \in Scripts |-> {}] /\ seen' = [s \in Scripts |-> {}]
  /\ armed' = {} /\ notif' = {} /\ rearm' = FALSE /\ reset' = FALSE
  /\ dirty' = {} /\ attempts' = [t \in Txs |-> 0] /\ missed' = {}

-----------------------------------------------------------------------------
(* The registry.                                                           *)

\* Mutant: a duplicate registration starts the entry anew.
MergeAfresh(r, o) == [r EXCEPT ![o] = [watched |-> TRUE, tx |-> NoTx, block |-> FALSE]]

\* register_watch: merges, so that a recorded spend survives a second registration.
Merge(r, o) == [r EXCEPT ![o].watched = TRUE]

\* process_transaction: a mempool-only rival does not replace a confirmed spend.
Record(r, t, inBlock) ==
  [r EXCEPT ![Spends[t]] =
     IF ~@.watched \/ (@.tx \notin {NoTx, t} /\ @.block /\ ~inBlock) THEN @
     ELSE [watched |-> TRUE, tx |-> t, block |-> inBlock]]

\* process_block over the blocks that hold the transactions S, each after its rival.
RecordBlocks(r, S) ==
  [o \in Outpoints |->
     IF r[o].watched /\ \E t \in S : Spends[t] = o
     THEN [watched |-> TRUE, tx |-> CHOOSE t \in S : Spends[t] = o, block |-> TRUE]
     ELSE r[o]]

-----------------------------------------------------------------------------
(* The chain, and what the backend publishes of it.                        *)

\* Core publishes to the socket, Electrum flags an armed script.  Nobody listens when the
\* process is down; a connection without the subscription hears nothing.  (A step of the
\* chain after the thread's exit is not told from one while the process is down.)
Publish(t, events) ==
  /\ pc # "exited"
  /\ IF ~Electrum /\ Running THEN /\ Len(feed) + Len(events) <= MaxFeed
                                  /\ feed' = feed \o events
     ELSE feed' = feed
  /\ notif' = IF Electrum THEN notif \cup ({ScriptOf(t)} \cap armed) ELSE notif

chainFrame == <<env, contracts, service, pc, reg, retry, todo, job, subs, seen, armed,
                rearm, reset, dirty, attempts, missed>>

Broadcast(t) ==
  /\ chain[t] = "none" /\ Spends[t] \in contracts
  /\ \A u \in Txs : Spends[u] = Spends[t] => ~Live(u)
  /\ chain' = [chain EXCEPT ![t] = "mempool"] /\ Publish(t, <<<<"tx", t>>>>)
  /\ UNCHANGED <<chainFrame, faults>>

\* A rival takes the place of an unconfirmed spend, for good.
Replace(t, u) ==
  /\ chain[t] = "mempool" /\ chain[u] = "none" /\ Spends[t] = Spends[u]
  /\ chain' = [chain EXCEPT ![t] = "gone", ![u] = "mempool"] /\ Publish(u, <<<<"tx", u>>>>)
  /\ UNCHANGED <<chainFrame, faults>>

\* Core publishes a block's transactions before the block.
Mine(t) ==
  /\ chain[t] = "mempool" /\ chain' = [chain EXCEPT ![t] = "mined"]
  /\ Publish(t, <<<<"tx", t>>, <<"block", t>>>>)
  /\ UNCHANGED <<chainFrame, faults>>

\* A reorganisation returns a mined spend to the mempool.
Unmine(t) ==
  /\ Fault /\ chain[t] = "mined" /\ chain' = [chain EXCEPT ![t] = "mempool"]
  /\ Publish(t, <<<<"tx", t>>>>)
  /\ UNCHANGED chainFrame

-----------------------------------------------------------------------------
(* The service: what the other threads call, until its owner shuts it down. *)

callFrame == <<env, chain, pc, reg, retry, todo, job, feed, electrum, missed, faults>>

\* send_command fails when the receiver is gone; a thread that has exited has also cleared
\* the service's `alive` flag, for good.
Send(c) ==
  IF pc = "exited" THEN cmds' = cmds
  ELSE Len(cmds) < MaxCmds /\ cmds' = Append(cmds, c)

RegisterWatch(o) ==
  /\ client = "ready" /\ pc # "down" /\ contracts' = contracts \cup {o}
  /\ Len(feed) + 2 <= MaxFeed
  /\ Send(<<"register", o>>)
  /\ UNCHANGED <<callFrame, client>>

Unwatch(o) ==
  /\ client = "ready" /\ pc # "down" /\ o \in contracts /\ contracts' = contracts \ {o}
  /\ Send(<<"unwatch", o>>)
  /\ UNCHANGED <<callFrame, client>>

WatchRequest(o) ==
  /\ client = "ready" /\ pc # "down" /\ Send(<<"watch", o>>)
  /\ client' = IF pc = "exited" THEN client ELSE "watch"
  /\ UNCHANGED <<callFrame, contracts>>

\* Mutant: only a reply ends the wait of watch_request.
WaitForReply ==
  /\ client = "rebuild" /\ pc = "exited" /\ client' = "ready"
  /\ UNCHANGED <<callFrame, contracts, cmds>>

\* The wait for a reply ends when the watcher is gone: the reply channel is dropped with
\* it, and a timeout finds the stop flag set.
StopWaiting ==
  /\ client \in {"watch", "rebuild"} /\ pc = "exited" /\ client' = "ready"
  /\ UNCHANGED <<callFrame, contracts, cmds>>

Crash ==
  /\ pc # "down" /\ Fault
  /\ pc' = "down" /\ client' = "down" /\ Forget
  /\ UNCHANGED <<env, chain, contracts>>

\* init spawns the watcher and blocks until its watches are rebuilt.
Restart ==
  /\ pc = "down"
  /\ pc' = "start" /\ client' = "rebuild" /\ cmds' = <<<<"rebuild", contracts>>>>
  /\ UNCHANGED <<env, chain, contracts, reg, retry, todo, job, feed, electrum,
                 missed, faults>>

-----------------------------------------------------------------------------
(* The watcher thread.                                                     *)

threadFrame == <<env, chain, contracts>>

\* run(): subscribe to ZMQ, scan the mempool.  The registry is still empty then, so the
\* scan records nothing.
Startup ==
  /\ pc = "start" /\ pc' = "commands"
  /\ UNCHANGED <<threadFrame, service, reg, retry, todo, job, feed, electrum, missed, faults>>

\* shutdown() sets the stop flag, which the thread looks at between any two backend calls,
\* and joins it.
Shutdown ==
  /\ Running /\ pc' = "exited" /\ Forget
  /\ client' = IF pc \in {"rebuild", "rescan"} THEN "ready" ELSE client
  /\ UNCHANGED <<threadFrame, faults>>

\* run() returns an error or panics; run_with_liveness marks the service dead.
Dies ==
  /\ Running /\ Fault
  /\ pc' = "exited" /\ Forget
  /\ UNCHANGED <<threadFrame, client>>

\* A pass takes one command if there is one, then more until the channel is found empty.
Command(kind) ==
  /\ pc \in {"commands", "drain"} /\ Free /\ cmds # <<>> /\ Head(cmds)[1] = kind
  /\ cmds' = Tail(cmds)

HandleRegister ==
  /\ Command("register")
  /\ LET o == Head(cmds)[2] IN
       /\ reg' = Merge(reg, o)
       /\ todo' = IF Electrum THEN {o} ELSE {}
       \* On Core nothing looks back: a spend mined by now stays unnoticed.
       /\ missed' = IF Electrum \/ reg[o].watched THEN missed
                    ELSE missed \cup {t \in Txs : Spends[t] = o /\ chain[t] = "mined"}
  /\ pc' = "drain"
  /\ UNCHANGED <<threadFrame, client, retry, job, feed, electrum, faults>>

HandleRebuild ==
  /\ Command("rebuild")
  /\ LET W == Head(cmds)[2] IN
       /\ reg' = [o \in Outpoints |-> IF o \in W THEN Merge(reg, o)[o] ELSE reg[o]]
       /\ todo' = IF Electrum THEN W ELSE {}
  /\ pc' = "rebuild"
  /\ UNCHANGED <<threadFrame, client, retry, job, feed, electrum, missed, faults>>

\* Electrum replays each script's history as it subscribes; Core's blocks are read back.
RebuildReplies ==
  /\ pc = "rebuild" /\ Free /\ Electrum
  /\ pc' = "drain" /\ client' = IF client = "rebuild" THEN "ready" ELSE client
  /\ UNCHANGED <<threadFrame, cmds, reg, retry, todo, job, feed, electrum,
                 missed, faults>>

\* rescan_for_missed_spends: the heights of the contracts' funding.  A failed lookup is
\* logged: the contract's blocks are read only if another's funding is as old.
RescanLookup ==
  /\ pc = "rebuild" /\ ~Electrum
  /\ \/ UNCHANGED <<missed, faults>>
     \/ /\ Fault
        /\ \E o \in contracts : missed' = missed \cup {t \in Txs : Spends[t] = o}
  /\ pc' = "rescan"
  /\ UNCHANGED <<threadFrame, service, reg, retry, todo, job, feed, electrum>>

\* Mutant: a failed rescan is not tried again.
RescanOnce ==
  /\ pc = "rescan"
  /\ \/ /\ reg' = RecordBlocks(reg, {t \in Txs \ missed : chain[t] = "mined"})
        /\ UNCHANGED faults
     \/ Fault /\ UNCHANGED reg
  /\ pc' = "drain" /\ client' = IF client = "rebuild" THEN "ready" ELSE client
  /\ UNCHANGED <<threadFrame, cmds, retry, todo, job, feed, electrum, missed>>

\* scan_blocks up to the tip; an error starts over at the next heartbeat.
Rescan ==
  /\ pc = "rescan"
  /\ \/ /\ reg' = RecordBlocks(reg, {t \in Txs \ missed : chain[t] = "mined"})
        /\ pc' = "drain" /\ client' = IF client = "rebuild" THEN "ready" ELSE client
        /\ UNCHANGED faults
     \/ Fault /\ pc' = "rebuild" /\ UNCHANGED <<reg, client>>
  /\ UNCHANGED <<threadFrame, cmds, retry, todo, job, feed, electrum, missed>>

\* is_confirmed_spend: some mined transaction spends the outpoint.
SpendConfirmed(o) == \E t \in Txs : Spends[t] = o /\ chain[t] = "mined"

\* Mutant: the cleared record stays marked confirmed.
ClearTxOnly ==
  /\ Command("watch")
  /\ LET o == Head(cmds)[2] IN
       IF reg[o].block /\ ~SpendConfirmed(o) THEN reg' = [reg EXCEPT ![o].tx = NoTx]
       ELSE UNCHANGED reg
  /\ client' = IF client = "watch" THEN "ready" ELSE client
  /\ pc' = "drain"
  /\ UNCHANGED <<threadFrame, retry, todo, job, feed, electrum, missed, faults>>

\* The answer is the recorded spend, if any; one recorded as confirmed and no longer on
\* chain is cleared, unless the backend cannot tell.
HandleWatch ==
  /\ Command("watch")
  /\ LET o == Head(cmds)[2] IN
       \/ /\ reg[o].block /\ ~SpendConfirmed(o)
          /\ reg' = [reg EXCEPT ![o].tx = NoTx, ![o].block = FALSE] /\ UNCHANGED faults
       \/ /\ reg[o].block => SpendConfirmed(o)
          /\ UNCHANGED <<reg, faults>>
       \/ reg[o].block /\ ~SpendConfirmed(o) /\ Fault /\ UNCHANGED reg
  /\ client' = IF client = "watch" THEN "ready" ELSE client
  /\ pc' = "drain"
  /\ UNCHANGED <<threadFrame, retry, todo, job, feed, electrum, missed>>

\* Mutant: the last outpoint's subscription goes even if another shares the script.
UnsubscribeShared(o) ==
  LET s == script[o] IN
  /\ subs' = [subs EXCEPT ![s] = {}] /\ seen' = [seen EXCEPT ![s] = {}]
  /\ dirty' = dirty \ {s} /\ reset' = TRUE
  /\ UNCHANGED <<armed, notif, rearm, attempts>>

\* unsubscribe_script: the entry goes with its last watcher; the server's subscription is
\* left to the connection, which is recycled at the next poll.
Unsubscribe(o) ==
  LET s == script[o] IN
  /\ subs' = [subs EXCEPT ![s] = @ \ {o}]
  /\ IF subs[s] \ {o} # {} THEN UNCHANGED <<seen, dirty, reset>>
     ELSE /\ seen' = [seen EXCEPT ![s] = {}] /\ dirty' = dirty \ {s} /\ reset' = TRUE
  /\ UNCHANGED <<armed, notif, rearm, attempts>>

HandleUnwatch ==
  /\ Command("unwatch")
  /\ LET o == Head(cmds)[2] IN
       /\ reg' = [reg EXCEPT ![o] = None] /\ retry' = retry \ {o}
       /\ IF Electrum THEN Unsubscribe(o) ELSE UNCHANGED electrum
  /\ pc' = "drain"
  /\ UNCHANGED <<threadFrame, client, todo, job, feed, missed, faults>>

-----------------------------------------------------------------------------
(* Subscribing a script on Electrum, in two requests.                      *)

stepFrame == <<threadFrame, service>>

\* arm_subscription; a script that has an entry already is done with that.
Arm ==
  /\ Running /\ job = Idle /\ pc # "rearm"
  /\ \E o \in todo :
       LET s == script[o] IN
       /\ todo' = todo \ {o}
       /\ \/ /\ armed' = armed \cup {s}
             /\ IF subs[s] # {} THEN subs' = [subs EXCEPT ![s] = @ \cup {o}] /\ job' = job
                ELSE subs' = subs /\ job' = <<"subscribe", o>>
             /\ UNCHANGED <<retry, faults>>
          \/ Fault /\ retry' = retry \cup {o} /\ UNCHANGED <<armed, subs, job>>
  /\ UNCHANGED <<stepFrame, pc, reg, feed, seen, notif, rearm, reset, dirty, attempts, missed>>

\* The transactions of S as events, in some order.
TxEvents(S) ==
  LET q == CHOOSE f \in [1..Cardinality(S) -> S] : IsInjective(f)
  IN  [i \in 1..Cardinality(S) |-> <<"tx", q[i]>>]

\* The transactions of S are fetched and queued; one fetch may fail, and is tried again
\* when the script is next read, up to Cap times.
Fetch(s, S) ==
  \/ /\ feed' = feed \o TxEvents(S)
     /\ seen' = [seen EXCEPT ![s] = @ \cup S]
     /\ attempts' = [t \in Txs |-> IF t \in S THEN 0 ELSE attempts[t]]
     /\ UNCHANGED <<dirty, faults>>
  \/ /\ Fault
     /\ \E f \in S :
          LET again == attempts[f] < Cap IN
          /\ feed' = feed \o TxEvents(S \ {f})
          /\ seen' = [seen EXCEPT ![s] = @ \cup (IF again THEN S \ {f} ELSE S)]
          /\ dirty' = IF again THEN dirty \cup {s} ELSE dirty
          /\ attempts' = [t \in Txs |-> IF t = f THEN attempts[t] + 1
                                        ELSE IF t \in S THEN 0 ELSE attempts[t]]

History(s) == {t \in Txs : Live(t) /\ ScriptOf(t) = s}

\* subscribe_script: the history is read before the entry exists, so that a failed read
\* leaves nothing behind that would make the retry skip it.
SubscribeRead ==
  /\ Running /\ job # Idle /\ job[1] = "subscribe" /\ job' = Idle
  /\ LET o == job[2]  s == script[o] IN
       \/ /\ subs' = [subs EXCEPT ![s] = @ \cup {o}] /\ Fetch(s, History(s))
          /\ UNCHANGED retry
       \/ /\ Fault /\ retry' = retry \cup {o}
          /\ UNCHANGED <<subs, seen, dirty, attempts, feed>>
  /\ UNCHANGED <<stepFrame, pc, reg, todo, armed, notif, rearm, reset, missed>>

\* retry_subscribes, at the end of each pass.
RetrySubscribes ==
  /\ pc = "retry" /\ Free
  /\ todo' = retry /\ retry' = {} /\ pc' = "commands"
  /\ UNCHANGED <<stepFrame, reg, job, feed, electrum, missed, faults>>

\* `call` finds the connection dead and replaces it: the new one has no subscriptions.
Reconnect ==
  /\ Electrum /\ Running /\ Fault
  /\ armed' = {} /\ notif' = {} /\ rearm' = TRUE
  /\ UNCHANGED <<stepFrame, pc, reg, retry, todo, job, feed, subs, seen, reset, dirty,
                 attempts, missed>>

\* The ZMQ socket fails and is opened again: what was queued is lost.
ZmqLost ==
  /\ ~Electrum /\ Running /\ Fault /\ feed # <<>>
  /\ feed' = <<>> /\ missed' = missed \cup {feed[i][2] : i \in 1..Len(feed)}
  /\ UNCHANGED <<stepFrame, pc, reg, retry, todo, job, electrum>>

-----------------------------------------------------------------------------
(* The events of a pass: poll_event until it has none.                     *)

BeginEvents ==
  /\ (pc = "commands" /\ cmds = <<>>) \/ pc = "drain"
  /\ Free /\ pc' = "events"
  /\ UNCHANGED <<stepFrame, reg, retry, todo, job, feed, electrum, missed, faults>>

HandleEvent ==
  /\ pc = "events" /\ job = Idle /\ feed # <<>>
  /\ feed' = Tail(feed) /\ reg' = Record(reg, Head(feed)[2], Head(feed)[1] = "block")
  /\ UNCHANGED <<stepFrame, pc, retry, todo, job, electrum, missed, faults>>

Polling == pc = "events" /\ job = Idle /\ feed = <<>>

\* The connection is replaced to be rid of a script nobody watches.
Recycle ==
  /\ Polling /\ reset
  /\ \/ reset' = FALSE /\ armed' = {} /\ notif' = {} /\ rearm' = TRUE /\ UNCHANGED <<pc, faults>>
     \/ Fault /\ pc' = "retry" /\ UNCHANGED <<reset, armed, notif, rearm>>
  /\ UNCHANGED <<stepFrame, reg, retry, todo, job, feed, subs, seen, dirty, attempts, missed>>

RearmBegins ==
  /\ Polling /\ ~reset /\ rearm /\ rearm' = FALSE /\ pc' = "rearm"
  /\ UNCHANGED <<stepFrame, reg, retry, todo, job, feed, subs, seen, armed, notif, reset,
                 dirty, attempts, missed, faults>>

\* Mutant: the scripts are armed anew and not read.
RearmOnly ==
  /\ pc = "rearm" /\ pc' = "events"
  /\ armed' = armed \cup Subscribed
  /\ UNCHANGED <<stepFrame, reg, retry, todo, job, feed, subs, seen, notif, rearm, reset,
                 dirty, attempts, missed, faults>>

\* Every subscribed script is armed on the new connection and marked to be read.
Rearm ==
  /\ pc = "rearm" /\ pc' = "events"
  /\ \/ armed' = armed \cup Subscribed /\ UNCHANGED <<rearm, faults>>
     \/ /\ Fault /\ rearm' = TRUE
        /\ \E s \in Subscribed : armed' = armed \cup (Subscribed \ {s})
  /\ dirty' = dirty \cup Subscribed
  /\ UNCHANGED <<stepFrame, reg, retry, todo, job, feed, subs, seen, notif, reset, attempts,
                 missed>>

\* A script marked, or with a new status, is to be read.
PopStatus ==
  /\ Polling /\ ~reset
  /\ \E s \in Subscribed :
       /\ s \in dirty \/ s \in notif
       /\ dirty' = dirty \ {s}
       /\ notif' = IF s \in dirty THEN notif ELSE notif \ {s}
       /\ job' = <<"read", s>>
  /\ UNCHANGED <<stepFrame, pc, reg, retry, todo, feed, subs, seen, armed, rearm, reset,
                 attempts, missed, faults>>

\* The client does not know the subscription: arm it, and read the script later.
PopFails ==
  /\ Polling /\ ~reset
  /\ \E s \in Subscribed \ (armed \cup dirty) :
       /\ dirty' = dirty \cup {s}
       /\ \/ armed' = armed \cup {s} /\ UNCHANGED faults
          \/ Fault /\ armed' = armed
  /\ UNCHANGED <<stepFrame, pc, reg, retry, todo, job, feed, subs, seen, notif, rearm, reset,
                 attempts, missed>>

\* Mutant: a failed read of the history is forgotten.
ReadHistoryOnce ==
  /\ Running /\ job # Idle /\ job[1] = "read" /\ job' = Idle
  /\ LET s == job[2] IN
       \/ Fetch(s, History(s) \ seen[s])
       \/ Fault /\ UNCHANGED <<seen, dirty, attempts, feed>>
  /\ UNCHANGED <<stepFrame, pc, reg, retry, todo, subs, armed, notif, rearm, reset, missed>>

ReadHistory ==
  /\ Running /\ job # Idle /\ job[1] = "read" /\ job' = Idle
  /\ LET s == job[2] IN
       \/ Fetch(s, History(s) \ seen[s])
       \/ Fault /\ dirty' = dirty \cup {s} /\ UNCHANGED <<seen, attempts, feed>>
  /\ UNCHANGED <<stepFrame, pc, reg, retry, todo, subs, armed, notif, rearm, reset, missed>>

\* poll_event has nothing: a marked script waits for the next ping.
EndEvents ==
  /\ Polling /\ ~reset /\ ~rearm /\ notif \cap Subscribed = {} /\ pc' = "retry"
  /\ UNCHANGED <<stepFrame, reg, retry, todo, job, feed, electrum, missed, faults>>

-----------------------------------------------------------------------------
Chain ==
  \/ \E t \in Txs : Broadcast(t) \/ Mine(t) \/ Unmine(t)
  \/ \E t, u \in Txs : Replace(t, u)
Callers ==
  \/ \E o \in used : RegisterWatch(o) \/ Unwatch(o) \/ WatchRequest(o)
  \/ StopWaiting \/ Shutdown \/ Crash \/ Restart
Handlers ==
  HandleRegister \/ HandleRebuild \/ RebuildReplies \/ RescanLookup \/ Rescan
  \/ HandleWatch \/ HandleUnwatch
Polls ==
  BeginEvents \/ HandleEvent \/ Recycle \/ RearmBegins \/ Rearm \/ PopStatus \/ PopFails
  \/ ReadHistory \/ EndEvents
Watcher ==
  Startup \/ Handlers \/ Arm \/ SubscribeRead \/ RetrySubscribes \/ Polls
Faulty == Dies \/ Reconnect \/ ZmqLost

Next == Chain \/ Callers \/ Watcher \/ Faulty

\* The watcher's thread is scheduled; a burst of commands ends, for the callers sleep between
\* their calls; a marked script is read at some ping; a waiting caller's timeout comes.
Fairness ==
  /\ WF_vars(Watcher) /\ SF_vars(BeginEvents) /\ SF_vars(PopStatus) /\ WF_vars(StopWaiting)

Spec == Init /\ [][Next]_vars /\ Fairness

-----------------------------------------------------------------------------
Commands == ({"register", "unwatch", "watch"} \X Outpoints) \cup ({"rebuild"} \X SUBSET Outpoints)
Events == {"tx", "block"} \X Txs

\* The types; and a spend recorded as confirmed (in_block) names its transaction, through
\* every merge, clearing and replacement of the registry's records.
TypeOK ==
  /\ backend \in {"core", "electrum"} /\ used \subseteq Outpoints
  /\ script \in [Outpoints -> Scripts]
  /\ chain \in [Txs -> {"none", "mempool", "mined", "gone"}]
  /\ contracts \subseteq Outpoints /\ client \in {"ready", "watch", "rebuild", "down"}
  /\ cmds \in Seq(Commands) /\ feed \in Seq(Events)
  /\ pc \in {"start", "commands", "drain", "rebuild", "rescan", "events", "rearm", "retry",
             "exited", "down"}
  /\ reg \in [Outpoints -> [watched : BOOLEAN, tx : Txs \cup {NoTx}, block : BOOLEAN]]
  /\ \A o \in Outpoints : reg[o].block => reg[o].tx # NoTx
  /\ retry \subseteq Outpoints /\ todo \subseteq Outpoints
  /\ job \in {Idle} \cup ({"subscribe"} \X Outpoints) \cup ({"read"} \X Scripts)
  /\ subs \in [Scripts -> SUBSET Outpoints] /\ seen \in [Scripts -> SUBSET Txs]
  /\ armed \subseteq Scripts /\ notif \subseteq Scripts /\ dirty \subseteq Scripts
  /\ rearm \in BOOLEAN /\ reset \in BOOLEAN
  /\ attempts \in [Txs -> Nat] /\ missed \subseteq Txs /\ faults \in Nat

\* On Electrum every watched outpoint holds its script's subscription or is queued for one,
\* whatever requests failed and whichever other outpoint of the script was unwatched.
WatchedIsHeld ==
  Electrum /\ Running =>
    \A o \in Outpoints : reg[o].watched =>
      \/ o \in subs[script[o]] \cup retry \cup todo
      \/ job = <<"subscribe", o>>

\* On Electrum no spend under a subscribed script goes unheard: it has been seen, or the
\* script is marked, flagged by the server or being read, or the connection is new and every
\* script is about to be armed on it and marked.
NeverDeaf ==
  Electrum /\ Running =>
    \A t \in Txs : Live(t) /\ ScriptOf(t) \in Subscribed =>
      \/ t \in seen[ScriptOf(t)]
      \/ ScriptOf(t) \in dirty \cup notif
      \/ job = <<"read", ScriptOf(t)>> \/ rearm \/ pc = "rearm"

Shared(o) == \E p \in used \ {o} : script[p] = script[o]

\* On Electrum a spend that was seen is recorded, or queued for the registry, or was given
\* up after Cap retries.  An outpoint that joins a script already subscribed is out: its
\* history is not replayed.
SeenIsRecorded ==
  Electrum /\ Running =>
    \A t \in Txs :
      LET o == Spends[t] IN
      Live(t) /\ reg[o].watched /\ ~Shared(o) /\ t \in seen[script[o]] =>
        reg[o].tx = t \/ <<"tx", t>> \in Range(feed) \/ attempts[t] > Cap

\* On Core, once the queue is drained, a mined spend of a watched outpoint is recorded as
\* confirmed, however old the queued messages were and whatever was mined while the process
\* was down; unless its message was lost, or it was mined before the watch was registered.
CoreCaughtUp ==
  ~Electrum /\ pc \in {"commands", "drain", "events", "retry"} /\ feed = <<>> =>
    \A t \in Txs \ missed :
      LET o == Spends[t] IN
      chain[t] = "mined" /\ reg[o].watched => reg[o].tx = t /\ reg[o].block

Unrecorded(t) ==
  LET o == Spends[t] IN
  /\ Live(t) /\ reg[o].watched /\ reg[o].tx # t
  /\ attempts[t] <= Cap /\ ~Shared(o)

\* On Electrum a spend of a watched outpoint that lasts is recorded in the end, whatever
\* connections were lost and requests failed, unless its fetch was given up.
SpendsAreRecorded ==
  (Electrum /\ \E t \in Txs : Unrecorded(t)) ~> ~(\E t \in Txs : Unrecorded(t))

\* Every blocking call on the watcher returns: with its answer, or because it is gone.
CallsReturn == client \in {"watch", "rebuild"} ~> client \notin {"watch", "rebuild"}
=============================================================================
