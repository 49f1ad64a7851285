----------------------------- MODULE OfferBook -----------------------------
(***************************************************************************)
(* How a taker learns of makers: the relay sessions of nostr discovery     *)
(* fill the registry, the offer sync service polls what the registry names *)
(* and keeps the scored offer book, in memory and in its file; against     *)
(* makers and a backend that come and go, sessions that drop, users that   *)
(* sync, poll and remove, shutdowns and crashes.                           *)
(*                                                                         *)
(* A maker has one bond here, so a maker also stands for its bond's txid.  *)
(* Times are abstracted to a flag: an entry is due once its back-off or    *)
(* the age of its offer has run out, which takes an interval of the        *)
(* service; a sync a user asks for comes before that.                      *)
(***************************************************************************)
EXTENDS Integers, Sequences, FiniteSets, Functions

CONSTANTS
  Makers, Relays,
  BadAfter,      \* failures of an unresponsive maker before it is bad: 10
  MaxSeen,       \* MAX_SEEN_TXIDS
  BookFaults     \* bound: outages, dropped sessions, calls of users, stops

ASSUME BookAssumption == "idle" \notin Makers /\ BadAfter \in Nat \ {0}

VARIABLES
  backend, reach, valid,  \* the node answers; the maker answers; its bond is not expired
  queue, held,    \* per relay: events to be read; events that failed, not passed by the cursor
  session,        \* per relay: the maker whose bond is being fetched, or "idle"
  seen, inflight, \* SeenTxids
  registry,       \* the registry's fidelity records
  book, file,     \* the offer book and offerbook.json
  svc,            \* the offer sync thread
  manual,         \* the caller whose SyncNow is being run, or "none"
  work,           \* per maker: how far a worker has come
  cmds, call,     \* queued commands; the state of the caller of each
  blame,          \* ghost: polls the maker or the taker's own shutdown made fail
  marked,         \* ghost: makers the user marked bad
  bookFaults

network  == <<backend, reach, valid>>
found    == <<queue, held, session, seen, inflight, registry>>
service  == <<svc, manual, work>>
calls    == <<cmds, call>>
bookVars == <<network, found, book, file, service, calls, blame, marked, bookFaults>>

Callers == {"sync", "poll"}
Absent == [st |-> "none", n |-> 0, due |-> FALSE]
Fresh == [st |-> "unresponsive", n |-> 0, due |-> TRUE]
Empty == [m \in Makers |-> Absent]
Idle == [m \in Makers |-> "none"]
Running == svc \notin {"down", "stopping"}

\* The taker's constructor: the book is read from its file; everything else starts empty.
BookInit ==
  /\ backend = TRUE /\ reach = [m \in Makers |-> TRUE] /\ valid = [m \in Makers |-> TRUE]
  /\ queue = [r \in Relays |-> <<>>] /\ held = [r \in Relays |-> <<>>]
  /\ session = [r \in Relays |-> "idle"]
  /\ seen = {} /\ inflight = {} /\ registry = {}
  /\ book = Empty /\ file = Empty
  /\ svc = "run" /\ manual = "none" /\ work = Idle
  /\ cmds = <<>> /\ call = [c \in Callers |-> "idle"]
  /\ blame = [m \in Makers |-> 0] /\ marked = {} /\ bookFaults = 0

BookFault == bookFaults < BookFaults /\ bookFaults' = bookFaults + 1

-----------------------------------------------------------------------------
(* Makers and the backend.                                                 *)

world == <<found, book, file, service, calls, blame, marked>>

BackendStops == BookFault /\ backend /\ backend' = FALSE /\ UNCHANGED <<reach, valid, world>>
BackendBack ==
  ~backend /\ backend' = TRUE /\ UNCHANGED <<reach, valid, world, bookFaults>>

MakerLeaves(m) ==
  /\ BookFault /\ reach[m] /\ reach' = [reach EXCEPT ![m] = FALSE]
  /\ UNCHANGED <<backend, valid, world>>
MakerBack(m) ==
  /\ ~reach[m] /\ reach' = [reach EXCEPT ![m] = TRUE]
  /\ UNCHANGED <<backend, valid, world, bookFaults>>

BondExpires(m) ==
  /\ BookFault /\ valid[m] /\ valid' = [valid EXCEPT ![m] = FALSE]
  /\ UNCHANGED <<backend, reach, world>>

\* broadcast_to_relay: a maker announces its bond again and again, on every relay (once it is
\* seen, the sessions skip it).
MakerAnnounces(m) ==
  /\ Running /\ valid[m] /\ m \notin seen /\ \E r \in Relays : m \notin Range(queue[r])
  /\ queue' = [r \in Relays |-> IF m \in Range(queue[r]) THEN queue[r] ELSE Append(queue[r], m)]
  /\ UNCHANGED <<network, held, session, seen, inflight, registry, book, file, service,
                 calls, blame, marked, bookFaults>>

-----------------------------------------------------------------------------
(* Nostr discovery: one session for each relay.                            *)

rest == <<network, book, file, service, calls, blame, marked>>

\* The event at the head of the session is done with: the relay's cursor passes it, and
\* whatever had failed before it.
Passed(r) ==
  /\ queue' = [queue EXCEPT ![r] = Tail(@)] /\ held' = [held EXCEPT ![r] = <<>>]

\* A frame that does not decode, an event of another kind, expired, stale, dated in the future
\* or not parsable is dropped; the cursor stays where it is.
Ignored(r) ==
  /\ Running /\ BookFault /\ session[r] = "idle" /\ queue[r] # <<>>
  /\ queue' = [queue EXCEPT ![r] = Tail(@)]
  /\ UNCHANGED <<rest, held, session, seen, inflight, registry>>

\* SeenTxids::claim: an event whose bond is seen, or being fetched by any session, is skipped.
Claim(r) ==
  /\ Running /\ session[r] = "idle" /\ queue[r] # <<>>
  /\ LET m == Head(queue[r]) IN
       IF m \in seen \cup inflight
       THEN Passed(r) /\ UNCHANGED <<session, inflight>>
       ELSE /\ session' = [session EXCEPT ![r] = m] /\ inflight' = inflight \cup {m}
            /\ UNCHANGED <<queue, held>>
  /\ UNCHANGED <<rest, seen, registry, bookFaults>>

\* SeenTxids::insert: at capacity the oldest are forgotten.
Seen(m) == IF Cardinality(seen) < MaxSeen THEN seen \cup {m} ELSE {m}

\* The bond's transaction is fetched, marked as seen and its announcement stored.
Fetched(r) ==
  /\ Running /\ session[r] # "idle" /\ backend
  /\ session' = [session EXCEPT ![r] = "idle"] /\ inflight' = inflight \ {session[r]}
  /\ seen' = Seen(session[r]) /\ registry' = registry \cup {session[r]}
  /\ Passed(r) /\ UNCHANGED <<rest, bookFaults>>

\* Mutant: a bond that could not be fetched counts as seen.
FetchGivesUp(r) ==
  /\ Running /\ session[r] # "idle" /\ ~backend
  /\ session' = [session EXCEPT ![r] = "idle"] /\ inflight' = inflight \ {session[r]}
  /\ seen' = Seen(session[r])
  /\ Passed(r) /\ UNCHANGED <<rest, registry, bookFaults>>

\* The claim is released and the cursor stays where it is.
FetchFails(r) ==
  /\ Running /\ session[r] # "idle" /\ ~backend
  /\ session' = [session EXCEPT ![r] = "idle"] /\ inflight' = inflight \ {session[r]}
  /\ queue' = [queue EXCEPT ![r] = Tail(@)]
  /\ held' = [held EXCEPT ![r] = IF session[r] \in Range(@) THEN @ ELSE Append(@, session[r])]
  /\ UNCHANGED <<rest, seen, registry, bookFaults>>

\* The connection drops; the next one asks for what is stored from the cursor on.
SessionDrops(r) ==
  /\ Running /\ BookFault /\ session[r] = "idle"
  /\ queue' = [queue EXCEPT ![r] = held[r] \o @]
  /\ held' = [held EXCEPT ![r] = <<>>]
  /\ UNCHANGED <<rest, session, seen, inflight, registry>>

-----------------------------------------------------------------------------
(* The offer book.                                                         *)

UpsertAddress(b, S) == [m \in Makers |-> IF m \in S /\ b[m].st = "none" THEN Fresh ELSE b[m]]

\* An entry that is not there is not updated: a concurrent removal won.
MarkSuccess(b, m) ==
  IF b[m].st = "none" THEN b ELSE [b EXCEPT ![m] = [st |-> "good", n |-> 0, due |-> FALSE]]

\* Mutant: the retries are counted and never judged.
MarkUnresponsive(b, m) ==
  IF b[m].st = "none" THEN b
  ELSE [b EXCEPT ![m] = [st |-> "unresponsive", n |-> b[m].n + 1, due |-> FALSE]]

MarkFailure(b, m) ==
  IF b[m].st = "none" THEN b
  ELSE LET e == b[m] IN
       [b EXCEPT ![m] =
          IF e.st = "good" THEN [st |-> "unresponsive", n |-> 1, due |-> FALSE]
          ELSE IF e.st = "unresponsive" /\ e.n < BadAfter
          THEN [st |-> "unresponsive", n |-> e.n + 1, due |-> FALSE]
          ELSE [st |-> "bad", n |-> 0, due |-> FALSE]]

\* Mutant: every failed check counts against the maker.
ScoreEveryFailure(b, m, verdict) == MarkFailure(b, m)

\* An outage of the taker's own backend leaves the score and the back-off alone.
RecordFidelityFailure(b, m, verdict) ==
  IF verdict = "bad bond" THEN MarkFailure(b, m) ELSE b

\* Mutant: only makers whose offer is known are polled.
KnownToPoll(b) == {m \in Makers : b[m].st = "good" /\ b[m].due}

MakersToPoll(b) == {m \in Makers : b[m].st \in {"good", "unresponsive"} /\ b[m].due}

-----------------------------------------------------------------------------
(* OfferSyncService.                                                       *)

outside == <<network, queue, held, session, seen, inflight, marked, bookFaults>>

\* list_fidelity: expired records go, if the height is known.
Listed == IF backend THEN {m \in registry : valid[m]} ELSE registry

\* run_once: registry to book, then a worker for every maker that is due.
RunOnce ==
  /\ svc = "run" /\ registry' = Listed /\ book' = UpsertAddress(book, Listed)
  /\ work' = [m \in Makers |-> IF m \in MakersToPoll(book') THEN "queued" ELSE "none"]
  /\ svc' = "work" /\ UNCHANGED <<outside, file, manual, calls, blame>>

\* A worker starts on a maker; without a connection of its own it leaves the cycle, and with
\* it, in an outage, every worker.
TakeJob(m) ==
  /\ svc = "work" /\ work[m] = "queued"
  /\ work' = [work EXCEPT ![m] = IF backend THEN "fetching" ELSE "none"]
  /\ UNCHANGED <<outside, registry, book, file, svc, manual, calls, blame>>

Blame(m) == blame' = [blame EXCEPT ![m] = IF @ > BadAfter THEN @ ELSE @ + 1]

\* download_offer_with_retries gives up: nobody answers, or the taker is shutting down.
DownloadFails(m) ==
  /\ work[m] = "fetching" /\ (~reach[m] \/ svc = "stopping") /\ Blame(m)
  /\ work' = [work EXCEPT ![m] = "no offer"]
  /\ UNCHANGED <<outside, registry, book, file, svc, manual, calls>>

\* fetch_offer: hello, request and offer, each of which a maker that left does not answer.
FetchOffer(m) == work[m] = "fetching" /\ reach[m]

\* The offer's bond is verified with the backend, with no lock held.
Download(m) ==
  /\ FetchOffer(m)
  /\ work' = [work EXCEPT ![m] = IF ~backend THEN "backend down"
                                 ELSE IF valid[m] THEN "verified" ELSE "bad bond"]
  /\ IF backend /\ ~valid[m] THEN Blame(m) ELSE UNCHANGED blame
  /\ UNCHANGED <<outside, registry, book, file, svc, manual, calls>>

Outcome(m) ==
  CASE work[m] = "verified" -> MarkSuccess(book, m)
    [] work[m] \in {"bad bond", "backend down"} -> RecordFidelityFailure(book, m, work[m])
    [] OTHER -> MarkFailure(book, m)

Results == {"verified", "bad bond", "backend down", "no offer"}

\* The outcome is recorded, and the whole book written, under one lock.
Record(m) ==
  /\ work[m] \in Results /\ book' = Outcome(m) /\ file' = book'
  /\ work' = [work EXCEPT ![m] = "none"]
  /\ blame' = IF work[m] = "verified" /\ book[m].st # "none" THEN [blame EXCEPT ![m] = 0] ELSE blame
  /\ IF svc = "poll"
     THEN /\ svc' = "sleep"
          /\ call' = [call EXCEPT !["poll"] = "idle"]
     ELSE UNCHANGED <<svc, call>>
  /\ UNCHANGED <<outside, registry, manual, cmds>>

\* Mutant: the commands queued meanwhile are thrown away without an answer.
Discard == cmds' = <<>> /\ call' = [call EXCEPT !["sync"] = "idle"]

\* drain_and_ack: every SyncNow queued meanwhile is answered; the first poll ends the drain
\* and is dropped with its sender, so its caller gets an error.
DrainAndAck ==
  LET polls == {i \in 1..Len(cmds) : cmds[i] # "sync"} IN
  IF polls = {}
  THEN cmds' = <<>> /\ call' = [call EXCEPT !["sync"] = "idle"]
  ELSE \E i \in polls :
       /\ \A j \in polls : i <= j
       /\ cmds' = SubSeq(cmds, i + 1, Len(cmds))
       /\ call' = [call EXCEPT !["sync"] = "idle", !["poll"] = "idle"]

\* The workers are joined.  After a manual sync the service runs again at once.
RunDone ==
  /\ svc = "work" /\ work = Idle
  /\ IF manual = "none" THEN svc' = "sleep" /\ UNCHANGED calls
     ELSE svc' = "run" /\ DrainAndAck
  /\ manual' = "none" /\ UNCHANGED <<outside, registry, book, file, work, blame>>

\* The sleep between two runs: the commands, looked for every second, and its end.
NextCommand ==
  /\ svc = "sleep" /\ cmds # <<>> /\ cmds' = Tail(cmds)
  /\ IF Head(cmds) = "sync"
     THEN svc' = "discover" /\ manual' = "sync" /\ UNCHANGED <<book, work>>
     ELSE /\ svc' = "poll" /\ book' = UpsertAddress(book, {Head(cmds)})
          /\ work' = [work EXCEPT ![Head(cmds)] = "fetching"] /\ UNCHANGED manual
  /\ UNCHANGED <<outside, registry, file, call, blame>>

IntervalEnds ==
  /\ svc = "sleep" /\ cmds = <<>> /\ svc' = "run"
  /\ book' = [m \in Makers |-> [book[m] EXCEPT !.due = book[m].st # "none"]]
  /\ UNCHANGED <<outside, registry, file, manual, work, calls, blame>>

\* wait_for_discovery: until a relay has sent what it had stored, or a deadline.
Discovered ==
  /\ svc = "discover" /\ svc' = "run"
  /\ UNCHANGED <<outside, registry, book, file, manual, work, calls, blame>>

-----------------------------------------------------------------------------
(* Callers.                                                                *)

caller == <<network, found, file, service, blame>>

SyncAndWait ==
  /\ Running /\ BookFault /\ call["sync"] = "idle"
  /\ cmds' = Append(cmds, "sync") /\ call' = [call EXCEPT !["sync"] = "waiting"]
  /\ UNCHANGED <<caller, book, marked>>

\* The caller goes on with the book as it is; the command stays queued.
SyncTimesOut ==
  /\ call["sync"] = "waiting" /\ call' = [call EXCEPT !["sync"] = "idle"]
  /\ UNCHANGED <<caller, book, cmds, marked, bookFaults>>

PollMaker(m) ==
  /\ Running /\ BookFault /\ call["poll"] = "idle"
  /\ cmds' = Append(cmds, m) /\ call' = [call EXCEPT !["poll"] = "waiting"]
  /\ UNCHANGED <<caller, book, marked>>

\* remove_maker takes the entry out of the book and its file, and not out of the registry.
RemoveMaker(m) ==
  /\ Running /\ BookFault /\ book[m].st # "none"
  /\ book' = [book EXCEPT ![m] = Absent] /\ file' = book'
  /\ UNCHANGED <<network, found, service, calls, blame, marked>>

\* add_bad_maker, in memory only.
MarkBad(m) ==
  /\ Running /\ BookFault /\ book[m].st # "none"
  /\ book' = [book EXCEPT ![m].st = "bad", ![m].n = 0] /\ marked' = marked \cup {m}
  /\ UNCHANGED <<caller, calls>>

-----------------------------------------------------------------------------
(* Shutdown and restart.                                                   *)

\* The flag is set: queued makers are left, downloads give up, results are still recorded.
Shutdown ==
  /\ Running /\ BookFault /\ svc' = "stopping"
  /\ work' = [m \in Makers |-> IF work[m] = "queued" THEN "none" ELSE work[m]]
  /\ UNCHANGED <<network, found, book, file, manual, calls, blame, marked>>

\* Everything in memory is gone; whoever waits for an answer gets an error.
Gone ==
  /\ svc' = "down" /\ manual' = "none" /\ work' = Idle /\ cmds' = <<>>
  /\ call' = [c \in Callers |-> "idle"]
  /\ queue' = [r \in Relays |-> <<>>] /\ held' = [r \in Relays |-> <<>>]
  /\ session' = [r \in Relays |-> "idle"]
  /\ seen' = {} /\ inflight' = {} /\ registry' = {}
  /\ book' = Empty /\ UNCHANGED <<network, blame, marked>>

\* The service is joined and the book persisted.
Stopped == svc = "stopping" /\ work = Idle /\ Gone /\ file' = book /\ UNCHANGED bookFaults

\* A crash; while the book is being written it leaves a truncated file.
TakerCrash ==
  /\ svc # "down" /\ BookFault /\ Gone
  /\ file' \in {file} \cup {Empty : m \in {x \in Makers : work[x] \in Results}}

\* load_or_create: a file that does not parse is replaced by an empty book.
TakerStart ==
  /\ svc = "down" /\ svc' = "run" /\ book' = file
  /\ UNCHANGED <<network, found, file, manual, work, calls, blame, marked, bookFaults>>

-----------------------------------------------------------------------------
Environment ==
  \/ BackendStops \/ BackendBack
  \/ \E m \in Makers : MakerLeaves(m) \/ MakerBack(m) \/ BondExpires(m) \/ MakerAnnounces(m)
Discovery ==
  \E r \in Relays : Ignored(r) \/ Claim(r) \/ Fetched(r) \/ FetchFails(r) \/ SessionDrops(r)
Workers == \E m \in Makers : TakeJob(m) \/ DownloadFails(m) \/ Download(m) \/ Record(m)
SyncService == RunOnce \/ RunDone \/ NextCommand \/ IntervalEnds \/ Discovered
Users ==
  \/ SyncAndWait \/ SyncTimesOut
  \/ \E m \in Makers : PollMaker(m) \/ RemoveMaker(m) \/ MarkBad(m)
Lifetime == Shutdown \/ Stopped \/ TakerCrash \/ TakerStart

BookNext ==
  \/ Environment \/ Discovery \/ Workers \/ SyncService \/ Users \/ Lifetime

\* Threads are scheduled and waits meet their deadlines; outages end; makers announce their
\* bonds again every half hour; the taker is started again.
BookFairness ==
  /\ WF_bookVars(BackendBack) /\ \A m \in Makers : WF_bookVars(MakerBack(m))
  /\ \A m \in Makers : WF_bookVars(MakerAnnounces(m))
  /\ \A r \in Relays : WF_bookVars(Claim(r) \/ Fetched(r) \/ FetchFails(r))
  /\ WF_bookVars(Workers) /\ WF_bookVars(RunOnce \/ RunDone \/ Discovered)
  /\ WF_bookVars(NextCommand) /\ WF_bookVars(IntervalEnds)
  /\ WF_bookVars(SyncTimesOut) /\ WF_bookVars(Stopped) /\ WF_bookVars(TakerStart)

BookSpec == BookInit /\ [][BookNext]_bookVars /\ BookFairness

-----------------------------------------------------------------------------
Entries == [st : {"none", "good", "unresponsive", "bad"}, n : 0..BadAfter, due : BOOLEAN]

\* Every variable has its type; a bond is fetched by one session at a time, and only the
\* maker being polled is worked on in a poll.
BookTypeOK ==
  /\ backend \in BOOLEAN /\ reach \in [Makers -> BOOLEAN] /\ valid \in [Makers -> BOOLEAN]
  /\ queue \in [Relays -> Seq(Makers)] /\ held \in [Relays -> Seq(Makers)]
  /\ session \in [Relays -> Makers \cup {"idle"}]
  /\ seen \subseteq Makers /\ inflight = {session[r] : r \in Relays} \ {"idle"}
  /\ \A r, s \in Relays : session[r] = session[s] => r = s \/ session[r] = "idle"
  /\ registry \subseteq Makers
  /\ book \in [Makers -> Entries] /\ file \in [Makers -> Entries]
  /\ svc \in {"run", "work", "sleep", "discover", "poll", "stopping", "down"}
  /\ work \in [Makers -> Results \cup {"none", "queued", "fetching"}]
  /\ svc = "poll" => \E m \in Makers : /\ work[m] \in Results \cup {"fetching"}
                                       /\ \A o \in Makers \ {m} : work[o] = "none"
  /\ manual \in {"none", "sync"} /\ cmds \in Seq(Makers \cup {"sync"})
  /\ call \in [Callers -> {"idle", "waiting"}]
  /\ blame \in [Makers -> Nat] /\ marked \subseteq Makers

\* "Only `BadBond` is the maker's doing; a backend outage is ours": a maker's score, in memory
\* and on disk, counts no more than the polls the maker failed and the taker's own shutdowns
\* cut short; no outage of the taker's backend walks an honest maker to the terminal state.
NotBlamed ==
  \A m \in Makers, b \in {book, file} :
    /\ b[m].st = "unresponsive" => b[m].n <= blame[m]
    /\ b[m].st = "bad" => m \in marked \/ blame[m] > BadAfter

\* A bond that discovery will not look at again is known to the offer book's registry.
SeenIsListed == \A m \in seen : m \in registry \/ ~valid[m]

\* Every maker that keeps announcing a valid bond is, in the end, in the book with an offer
\* (or judged bad), whatever outages, dropped sessions, removals and restarts came before.
EventuallyListed == <>[](\A m \in Makers : valid[m] => book[m].st \in {"good", "bad"})

\* Whoever triggers a sync or a poll gets an answer, in an outage and in a shutdown too.
CallersAnswered == \A c \in Callers : (call[c] = "waiting") ~> (call[c] # "waiting")
=============================================================================
