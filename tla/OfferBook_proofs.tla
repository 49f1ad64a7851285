-------------------------- MODULE OfferBook_proofs --------------------------
(***************************************************************************)
(* Proofs about the taker's offer book, for every set of makers and relays *)
(* and every threshold: its types, that no outage of the taker's own       *)
(* backend counts against a maker, and that discovery forgets no bond.     *)
(*                                                                         *)
(* NotBlamed is not inductive: between a failed poll and its record the    *)
(* score may be changed by others (a removal, a new announcement, the      *)
(* user), which Owed allows for; and what is read back from the file after *)
(* a restart meets no failure that is still to be recorded (Quiet).        *)
(***************************************************************************)
EXTENDS OfferBook, TLAPS

\* No maker is worked on while the service sleeps, waits or is not running.
Quiet == svc \in {"run", "sleep", "discover", "down"} => work = Idle

\* A failure that is not recorded yet is one the maker (or a shutdown) is to blame for, and there is
\* room for it in the score.
Owed ==
  \A m \in Makers : work[m] \in {"bad bond", "no offer"} =>
    /\ blame[m] > 0
    /\ book[m].st = "unresponsive" => book[m].n < blame[m]

\* The event whose bond a session fetches is the next one its cursor passes.
AtHead ==
  \A r \in Relays : session[r] # "idle" => queue[r] # <<>> /\ Head(queue[r]) = session[r]

IInv == BookTypeOK /\ AtHead /\ Quiet /\ Owed /\ NotBlamed /\ SeenIsListed

\* The type invariant in parts.
NetTypes == backend \in BOOLEAN /\ reach \in [Makers -> BOOLEAN] /\ valid \in [Makers -> BOOLEAN]
FoundTypes ==
  /\ queue \in [Relays -> Seq(Makers)] /\ held \in [Relays -> Seq(Makers)]
  /\ session \in [Relays -> Makers \cup {"idle"}]
  /\ seen \subseteq Makers /\ inflight = {session[r] : r \in Relays} \ {"idle"}
  /\ \A r, s \in Relays : session[r] = session[s] => r = s \/ session[r] = "idle"
  /\ registry \subseteq Makers
ScoreTypes ==
  /\ book \in [Makers -> Entries] /\ file \in [Makers -> Entries]
  /\ blame \in [Makers -> Nat] /\ marked \subseteq Makers
Stages == {"none", "queued", "fetching"} \cup Results
OneJob == \E m \in Makers : /\ work[m] \in Results \cup {"fetching"}
                            /\ \A o \in Makers \ {m} : work[o] = "none"
ServiceTypes ==
  /\ svc \in {"run", "work", "sleep", "discover", "poll", "stopping", "down"}
  /\ work \in [Makers -> Stages]
  /\ svc = "poll" => OneJob
CallTypes ==
  /\ manual \in {"none", "sync"} /\ cmds \in Seq(Makers \cup {"sync"})
  /\ call \in [Callers -> {"idle", "waiting"}]

-----------------------------------------------------------------------------
(* Discovery *)

\* The network keeps its types, and a bond that has expired stays so.
LEMMA NetStep == ASSUME NetTypes, [BookNext]_bookVars
  PROVE NetTypes' /\ \A m \in Makers : valid'[m] => valid[m]
<1> DEFINE P == NetTypes' /\ \A m \in Makers : valid'[m] => valid[m]
<1> SUFFICES ASSUME BookNext \/ UNCHANGED bookVars PROVE P
  OBVIOUS
<1>0. UNCHANGED network => P
  BY DEF network, NetTypes
<1> HIDE DEF P
<1>1. CASE BackendStops
  <2>1. backend' = FALSE /\ reach' = reach /\ valid' = valid
    BY <1>1, Zenon DEF BackendStops
  <2> QED BY <2>1 DEF NetTypes, P
<1>2. CASE BackendBack
  <2>1. backend' = TRUE /\ reach' = reach /\ valid' = valid
    BY <1>2, Zenon DEF BackendBack
  <2> QED BY <2>1 DEF NetTypes, P
<1>3. ASSUME NEW m \in Makers, MakerLeaves(m) PROVE P
  <2>1. backend' = backend /\ reach' = [reach EXCEPT ![m] = FALSE] /\ valid' = valid
    BY <1>3, Zenon DEF MakerLeaves
  <2> QED BY <2>1 DEF NetTypes, P
<1>4. ASSUME NEW m \in Makers, MakerBack(m) PROVE P
  <2>1. backend' = backend /\ reach' = [reach EXCEPT ![m] = TRUE] /\ valid' = valid
    BY <1>4, Zenon DEF MakerBack
  <2> QED BY <2>1 DEF NetTypes, P
<1>5. ASSUME NEW m \in Makers, BondExpires(m) PROVE P
  <2>1. backend' = backend /\ reach' = reach /\ valid' = [valid EXCEPT ![m] = FALSE]
    BY <1>5, Zenon DEF BondExpires
  <2> QED BY <2>1 DEF NetTypes, P
<1>6. ASSUME NEW m \in Makers, MakerAnnounces(m) PROVE P
  BY <1>6, <1>0, Zenon DEF MakerAnnounces, rest, outside, caller
<1>7. ASSUME NEW r \in Relays, Ignored(r) PROVE P
  BY <1>7, <1>0, Zenon DEF Ignored, rest, outside, caller
<1>8. ASSUME NEW r \in Relays, Claim(r) PROVE P
  BY <1>8, <1>0, Zenon DEF Claim, rest, outside, caller, Passed
<1>9. ASSUME NEW r \in Relays, Fetched(r) PROVE P
  BY <1>9, <1>0, Zenon DEF Fetched, rest, outside, caller, Passed
<1>10. ASSUME NEW r \in Relays, FetchFails(r) PROVE P
  BY <1>10, <1>0, Zenon DEF FetchFails, rest, outside, caller
<1>11. ASSUME NEW r \in Relays, SessionDrops(r) PROVE P
  BY <1>11, <1>0, Zenon DEF SessionDrops, rest, outside, caller
<1>12. ASSUME NEW m \in Makers, TakeJob(m) PROVE P
  BY <1>12, <1>0, Zenon DEF TakeJob, rest, outside, caller
<1>13. ASSUME NEW m \in Makers, DownloadFails(m) PROVE P
  BY <1>13, <1>0, Zenon DEF DownloadFails, rest, outside, caller
<1>14. ASSUME NEW m \in Makers, Download(m) PROVE P
  BY <1>14, <1>0, Zenon DEF Download, rest, outside, caller
<1>15. ASSUME NEW m \in Makers, Record(m) PROVE P
  BY <1>15, <1>0, Zenon DEF Record, rest, outside, caller
<1>16. CASE RunOnce
  BY <1>16, <1>0, Zenon DEF RunOnce, rest, outside, caller
<1>17. CASE RunDone
  BY <1>17, <1>0, Zenon DEF RunDone, rest, outside, caller
<1>18. CASE NextCommand
  BY <1>18, <1>0, Zenon DEF NextCommand, rest, outside, caller
<1>19. CASE IntervalEnds
  BY <1>19, <1>0, Zenon DEF IntervalEnds, rest, outside, caller
<1>20. CASE Discovered
  BY <1>20, <1>0, Zenon DEF Discovered, rest, outside, caller
<1>21. CASE SyncAndWait
  BY <1>21, <1>0, Zenon DEF SyncAndWait, rest, outside, caller
<1>22. CASE SyncTimesOut
  BY <1>22, <1>0, Zenon DEF SyncTimesOut, rest, outside, caller
<1>23. ASSUME NEW m \in Makers, PollMaker(m) PROVE P
  BY <1>23, <1>0, Zenon DEF PollMaker, rest, outside, caller
<1>24. ASSUME NEW m \in Makers, RemoveMaker(m) PROVE P
  BY <1>24, <1>0, Zenon DEF RemoveMaker, rest, outside, caller
<1>25. ASSUME NEW m \in Makers, MarkBad(m) PROVE P
  BY <1>25, <1>0, Zenon DEF MarkBad, rest, outside, caller
<1>26. CASE Shutdown
  BY <1>26, <1>0, Zenon DEF Shutdown, rest, outside, caller
<1>27. CASE Stopped
  BY <1>27, <1>0, Zenon DEF Stopped, rest, outside, caller, Gone
<1>28. CASE TakerCrash
  BY <1>28, <1>0, Zenon DEF TakerCrash, rest, outside, caller, Gone
<1>29. CASE TakerStart
  BY <1>29, <1>0, Zenon DEF TakerStart, rest, outside, caller
<1>30. CASE UNCHANGED bookVars
  BY <1>30, <1>0, Zenon DEF bookVars
<1> QED
  BY <1>1, <1>2, <1>3, <1>4, <1>5, <1>6, <1>7, <1>8, <1>9, <1>10, <1>11, <1>12, <1>13, <1>14,
     <1>15, <1>16, <1>17, <1>18, <1>19, <1>20, <1>21, <1>22, <1>23, <1>24, <1>25, <1>26, <1>27,
     <1>28, <1>29, <1>30
  DEF BookNext, Environment, Discovery, Workers, SyncService, Users, Lifetime

\* Facts about sequences: the rest of one, ...
LEMMA TailSeq == ASSUME NEW S, NEW q \in Seq(S), q # <<>> PROVE Tail(q) \in Seq(S)
  OBVIOUS

\* ... and an element at its end leaves its head.
LEMMA AppendHead == ASSUME NEW S, NEW q \in Seq(S), NEW e \in S, q # <<>>
  PROVE Append(q, e) # <<>> /\ Head(Append(q, e)) = Head(q)
  OBVIOUS

\* Discovery keeps its types, and the event a session fetches stays at the head of its events:
\* SeenTxids::claim lets one session at a time fetch a bond.
LEMMA FoundStep == ASSUME FoundTypes, AtHead, [BookNext]_bookVars PROVE FoundTypes' /\ AtHead'
<1> DEFINE P == FoundTypes' /\ AtHead'
<1> SUFFICES ASSUME BookNext \/ UNCHANGED bookVars PROVE P
  OBVIOUS
<1>0. UNCHANGED found => P
  BY DEF found, FoundTypes, AtHead
<1> HIDE DEF P
<1>1. CASE BackendStops
  BY <1>1, <1>0, Zenon DEF BackendStops, world, outside, caller, found
<1>2. CASE BackendBack
  BY <1>2, <1>0, Zenon DEF BackendBack, world, outside, caller, found
<1>3. ASSUME NEW m \in Makers, MakerLeaves(m) PROVE P
  BY <1>3, <1>0, Zenon DEF MakerLeaves, world, outside, caller, found
<1>4. ASSUME NEW m \in Makers, MakerBack(m) PROVE P
  BY <1>4, <1>0, Zenon DEF MakerBack, world, outside, caller, found
<1>5. ASSUME NEW m \in Makers, BondExpires(m) PROVE P
  BY <1>5, <1>0, Zenon DEF BondExpires, world, outside, caller, found
<1>6. ASSUME NEW m \in Makers, MakerAnnounces(m) PROVE P
  <2> DEFINE q == [x \in Relays |-> IF m \in Range(queue[x]) THEN queue[x] ELSE Append(queue[x], m)]
  <2>1. /\ queue' = q /\ held' = held /\ session' = session /\ seen' = seen
        /\ inflight' = inflight /\ registry' = registry
    BY <1>6, Zenon DEF MakerAnnounces
  <2>2. \A x \in Relays : queue[x] \in Seq(Makers) /\ Append(queue[x], m) \in Seq(Makers)
    BY DEF FoundTypes
  <2>4. \A x \in Relays : queue[x] # <<>> => q[x] # <<>> /\ Head(q[x]) = Head(queue[x])
    BY AppendHead DEF FoundTypes
  <2>3. q \in [Relays -> Seq(Makers)]
    BY <2>2
  <2> QED BY <2>1, <2>3, <2>4 DEF FoundTypes, AtHead, P
<1>7. ASSUME NEW r \in Relays, Ignored(r) PROVE P
  <2>1. /\ queue' = [queue EXCEPT ![r] = Tail(@)] /\ held' = held /\ session' = session
        /\ seen' = seen /\ inflight' = inflight /\ registry' = registry /\ queue[r] # <<>>
        /\ session[r] = "idle"
    BY <1>7, Zenon DEF Ignored
  <2> QED BY <2>1 DEF FoundTypes, AtHead, P
<1>8. ASSUME NEW r \in Relays, Claim(r) PROVE P
  <2> DEFINE m == Head(queue[r])
  <2>1. seen' = seen /\ registry' = registry /\ session[r] = "idle" /\ queue[r] # <<>>
    BY <1>8, Zenon DEF Claim
  <2>2. queue[r] \in Seq(Makers) /\ m \in Makers /\ Tail(queue[r]) \in Seq(Makers)
    BY <2>1 DEF FoundTypes
  <2>3. CASE m \in seen \cup inflight
    <3>1. /\ queue' = [queue EXCEPT ![r] = Tail(@)] /\ held' = [held EXCEPT ![r] = <<>>]
          /\ session' = session /\ inflight' = inflight
      BY <1>8, <2>3, Zenon DEF Claim, Passed
    <3> QED BY <2>1, <2>2, <3>1 DEF FoundTypes, AtHead, P
  <2>4. CASE m \notin seen \cup inflight
    <3>1. /\ session' = [session EXCEPT ![r] = m] /\ inflight' = inflight \cup {m}
          /\ queue' = queue /\ held' = held
      BY <1>8, <2>4, Zenon DEF Claim
    <3>2. m # "idle"
      BY <2>2, BookAssumption
    <3>3. AtHead'
      BY <2>1, <2>2, <3>1 DEF FoundTypes, AtHead
    <3> HIDE DEF m
    <3> QED BY <2>1, <2>2, <2>4, <3>1, <3>2, <3>3 DEF FoundTypes, P
  <2> QED BY <2>3, <2>4
<1>9. ASSUME NEW r \in Relays, Fetched(r) PROVE P
  <2>1. /\ session[r] # "idle" /\ session' = [session EXCEPT ![r] = "idle"]
        /\ inflight' = inflight \ {session[r]} /\ registry' = registry \cup {session[r]}
        /\ queue' = [queue EXCEPT ![r] = Tail(@)] /\ held' = [held EXCEPT ![r] = <<>>]
    BY <1>9, Zenon DEF Fetched, Passed
  <2>2. session[r] \in Makers /\ seen' \subseteq seen \cup {session[r]}
    BY <1>9, <2>1 DEF Fetched, Seen, FoundTypes
  <2>3. queue' \in [Relays -> Seq(Makers)]
    BY <2>1, TailSeq DEF FoundTypes, AtHead
  <2> QED BY <2>1, <2>2, <2>3 DEF FoundTypes, AtHead, P
<1>10. ASSUME NEW r \in Relays, FetchFails(r) PROVE P
  <2> DEFINE h == IF session[r] \in Range(held[r]) THEN held[r] ELSE Append(held[r], session[r])
  <2>1. /\ session[r] # "idle" /\ session' = [session EXCEPT ![r] = "idle"]
        /\ inflight' = inflight \ {session[r]} /\ registry' = registry /\ seen' = seen
        /\ queue' = [queue EXCEPT ![r] = Tail(@)] /\ held' = [held EXCEPT ![r] = h]
    BY <1>10, Zenon DEF FetchFails
  <2>2. session[r] \in Makers
    BY <2>1 DEF FoundTypes
  <2>3. queue' \in [Relays -> Seq(Makers)]
    BY <2>1, TailSeq DEF FoundTypes, AtHead
  <2>4. h \in Seq(Makers)
    BY <2>2 DEF FoundTypes
  <2> HIDE DEF h
  <2> QED BY <2>1, <2>2, <2>3, <2>4 DEF FoundTypes, AtHead, P
<1>11. ASSUME NEW r \in Relays, SessionDrops(r) PROVE P
  <2>1. /\ queue' = [queue EXCEPT ![r] = held[r] \o @] /\ held' = [held EXCEPT ![r] = <<>>]
        /\ session' = session /\ seen' = seen /\ inflight' = inflight /\ registry' = registry
        /\ session[r] = "idle"
    BY <1>11, Zenon DEF SessionDrops
  <2>2. queue' \in [Relays -> Seq(Makers)]
    BY <2>1 DEF FoundTypes
  <2> QED BY <2>1, <2>2 DEF FoundTypes, AtHead, P
<1>12. ASSUME NEW m \in Makers, TakeJob(m) PROVE P
  BY <1>12, <1>0, Zenon DEF TakeJob, world, outside, caller, found
<1>13. ASSUME NEW m \in Makers, DownloadFails(m) PROVE P
  BY <1>13, <1>0, Zenon DEF DownloadFails, world, outside, caller, found
<1>14. ASSUME NEW m \in Makers, Download(m) PROVE P
  BY <1>14, <1>0, Zenon DEF Download, world, outside, caller, found
<1>15. ASSUME NEW m \in Makers, Record(m) PROVE P
  BY <1>15, <1>0, Zenon DEF Record, world, outside, caller, found
<1>16. CASE RunOnce
  <2>1. /\ queue' = queue /\ held' = held /\ session' = session /\ seen' = seen
        /\ inflight' = inflight /\ registry' = Listed
    BY <1>16, Zenon DEF RunOnce, outside
  <2> QED BY <2>1 DEF FoundTypes, AtHead, P, Listed
<1>17. CASE RunDone
  BY <1>17, <1>0, Zenon DEF RunDone, world, outside, caller, found
<1>18. CASE NextCommand
  BY <1>18, <1>0, Zenon DEF NextCommand, world, outside, caller, found
<1>19. CASE IntervalEnds
  BY <1>19, <1>0, Zenon DEF IntervalEnds, world, outside, caller, found
<1>20. CASE Discovered
  BY <1>20, <1>0, Zenon DEF Discovered, world, outside, caller, found
<1>21. CASE SyncAndWait
  BY <1>21, <1>0, Zenon DEF SyncAndWait, world, outside, caller, found
<1>22. CASE SyncTimesOut
  BY <1>22, <1>0, Zenon DEF SyncTimesOut, world, outside, caller, found
<1>23. ASSUME NEW m \in Makers, PollMaker(m) PROVE P
  BY <1>23, <1>0, Zenon DEF PollMaker, world, outside, caller, found
<1>24. ASSUME NEW m \in Makers, RemoveMaker(m) PROVE P
  BY <1>24, <1>0, Zenon DEF RemoveMaker, world, outside, caller, found
<1>25. ASSUME NEW m \in Makers, MarkBad(m) PROVE P
  BY <1>25, <1>0, Zenon DEF MarkBad, world, outside, caller, found
<1>26. CASE Shutdown
  BY <1>26, <1>0, Zenon DEF Shutdown, world, outside, caller, found
<1>27. CASE Stopped
  <2>1. /\ queue' = [x \in Relays |-> <<>>] /\ held' = [x \in Relays |-> <<>>]
        /\ session' = [x \in Relays |-> "idle"] /\ seen' = {} /\ inflight' = {} /\ registry' = {}
    BY <1>27, Zenon DEF Stopped, Gone
  <2> QED BY <2>1 DEF FoundTypes, AtHead, P
<1>28. CASE TakerCrash
  <2>1. /\ queue' = [x \in Relays |-> <<>>] /\ held' = [x \in Relays |-> <<>>]
        /\ session' = [x \in Relays |-> "idle"] /\ seen' = {} /\ inflight' = {} /\ registry' = {}
    BY <1>28, Zenon DEF TakerCrash, Gone
  <2> QED BY <2>1 DEF FoundTypes, AtHead, P
<1>29. CASE TakerStart
  BY <1>29, <1>0, Zenon DEF TakerStart, world, outside, caller, found
<1>30. CASE UNCHANGED bookVars
  BY <1>30, <1>0, Zenon DEF bookVars
<1> QED
  BY <1>1, <1>2, <1>3, <1>4, <1>5, <1>6, <1>7, <1>8, <1>9, <1>10, <1>11, <1>12, <1>13, <1>14,
     <1>15, <1>16, <1>17, <1>18, <1>19, <1>20, <1>21, <1>22, <1>23, <1>24, <1>25, <1>26, <1>27,
     <1>28, <1>29, <1>30
  DEF BookNext, Environment, Discovery, Workers, SyncService, Users, Lifetime

-----------------------------------------------------------------------------
(* The service and its callers *)

\* The offer sync service keeps its types and its stages: one maker is worked on in a poll, none
\* while the service is not at work.
LEMMA ServiceStep == ASSUME ServiceTypes, Quiet, CallTypes, [BookNext]_bookVars
  PROVE ServiceTypes' /\ Quiet'
<1> DEFINE P == ServiceTypes' /\ Quiet'
<1> SUFFICES ASSUME BookNext \/ UNCHANGED bookVars PROVE P
  OBVIOUS
<1>0. svc' = svc /\ work' = work => P
  BY DEF ServiceTypes, Quiet, OneJob
<1>a. ASSUME work' = Idle, svc' \in {"run", "sleep", "discover", "down", "work", "stopping"}
  PROVE P
  <2>1. work' \in [Makers -> Stages]
    BY <1>a DEF Idle, Stages
  <2> QED BY <1>a, <2>1 DEF ServiceTypes, Quiet, OneJob
<1>b. ASSUME NEW m \in Makers, NEW x \in Results, work[m] = "fetching",
           work' = [work EXCEPT ![m] = x], svc' = svc
  PROVE P
  <2>1. work' \in [Makers -> Stages]
    BY <1>b DEF ServiceTypes, Stages
  <2>2. svc \notin {"run", "sleep", "discover", "down"}
    BY <1>b DEF Quiet, Idle
  <2>3. svc = "poll" => OneJob'
    BY <1>b DEF ServiceTypes, OneJob
  <2> QED BY <1>b, <2>1, <2>2, <2>3 DEF ServiceTypes, Quiet
<1> HIDE DEF P
<1>1. CASE BackendStops
  BY <1>1, <1>0, Zenon DEF BackendStops, world, rest, caller, service
<1>2. CASE BackendBack
  BY <1>2, <1>0, Zenon DEF BackendBack, world, rest, caller, service
<1>3. ASSUME NEW m \in Makers, MakerLeaves(m) PROVE P
  BY <1>3, <1>0, Zenon DEF MakerLeaves, world, rest, caller, service
<1>4. ASSUME NEW m \in Makers, MakerBack(m) PROVE P
  BY <1>4, <1>0, Zenon DEF MakerBack, world, rest, caller, service
<1>5. ASSUME NEW m \in Makers, BondExpires(m) PROVE P
  BY <1>5, <1>0, Zenon DEF BondExpires, world, rest, caller, service
<1>6. ASSUME NEW m \in Makers, MakerAnnounces(m) PROVE P
  BY <1>6, <1>0, Zenon DEF MakerAnnounces, world, rest, caller, service
<1>7. ASSUME NEW r \in Relays, Ignored(r) PROVE P
  BY <1>7, <1>0, Zenon DEF Ignored, world, rest, caller, service
<1>8. ASSUME NEW r \in Relays, Claim(r) PROVE P
  BY <1>8, <1>0, Zenon DEF Claim, world, rest, caller, service
<1>9. ASSUME NEW r \in Relays, Fetched(r) PROVE P
  BY <1>9, <1>0, Zenon DEF Fetched, world, rest, caller, service
<1>10. ASSUME NEW r \in Relays, FetchFails(r) PROVE P
  BY <1>10, <1>0, Zenon DEF FetchFails, world, rest, caller, service
<1>11. ASSUME NEW r \in Relays, SessionDrops(r) PROVE P
  BY <1>11, <1>0, Zenon DEF SessionDrops, world, rest, caller, service
<1>12. ASSUME NEW m \in Makers, TakeJob(m) PROVE P
  <2>1. svc' = svc /\ svc = "work"
    BY <1>12, Zenon DEF TakeJob
  <2>2. work' = [work EXCEPT ![m] = IF backend THEN "fetching" ELSE "none"]
    BY <1>12, Zenon DEF TakeJob
  <2>3. work' \in [Makers -> Stages]
    BY <2>2 DEF ServiceTypes, Stages
  <2> QED BY <2>1, <2>3 DEF ServiceTypes, Quiet, OneJob, P
<1>13. ASSUME NEW m \in Makers, DownloadFails(m) PROVE P
  <2>1. work[m] = "fetching" /\ work' = [work EXCEPT ![m] = "no offer"] /\ svc' = svc
    BY <1>13, Zenon DEF DownloadFails
  <2> QED BY <2>1, <1>b DEF Results
<1>14. ASSUME NEW m \in Makers, Download(m) PROVE P
  <2> DEFINE x == IF ~backend THEN "backend down" ELSE IF valid[m] THEN "verified" ELSE "bad bond"
  <2>1. work[m] = "fetching" /\ work' = [work EXCEPT ![m] = x] /\ svc' = svc
    BY <1>14, Zenon DEF Download, FetchOffer
  <2>2. x \in Results
    BY DEF Results
  <2> QED BY <2>1, <2>2, <1>b
<1>15. ASSUME NEW m \in Makers, Record(m) PROVE P
  <2>1. work[m] \in Results /\ work' = [work EXCEPT ![m] = "none"]
    BY <1>15, Zenon DEF Record
  <2>2. svc \notin {"run", "sleep", "discover", "down"}
    BY <2>1 DEF Quiet, Idle, Results
  <2>3. work' \in [Makers -> Stages]
    BY <2>1 DEF ServiceTypes, Stages
  <2>4. CASE svc = "poll"
    <3>1. svc' = "sleep"
      BY <1>15, <2>4, Zenon DEF Record
    <3>2. \A o \in Makers : work'[o] = "none"
      BY <2>1, <2>4 DEF ServiceTypes, OneJob, Results
    <3>3. work' = Idle
      BY <2>3, <3>2 DEF Idle
    <3> QED BY <3>1, <3>3, <1>a
  <2>5. CASE svc # "poll"
    <3>1. svc' = svc
      BY <1>15, <2>5, Zenon DEF Record
    <3> QED BY <2>2, <2>3, <2>5, <3>1 DEF ServiceTypes, Quiet, P
  <2> QED BY <2>4, <2>5
<1>16. CASE RunOnce
  <2>1. svc' = "work"
        /\ work' = [m \in Makers |-> IF m \in MakersToPoll(book') THEN "queued" ELSE "none"]
    BY <1>16, Zenon DEF RunOnce
  <2>2. work' \in [Makers -> Stages]
    BY <2>1 DEF Stages
  <2> QED BY <2>1, <2>2 DEF ServiceTypes, Quiet, P
<1>17. CASE RunDone
  <2>1. work' = Idle /\ svc' \in {"sleep", "run"}
    BY <1>17, Zenon DEF RunDone
  <2> QED BY <2>1, <1>a
<1>18. CASE NextCommand
  <2>1. svc = "sleep" /\ cmds # <<>> /\ work = Idle
    BY <1>18, Zenon DEF NextCommand, Quiet
  <2>2. CASE Head(cmds) = "sync"
    <3>1. svc' = "discover" /\ work' = work
      BY <1>18, <2>2, Zenon DEF NextCommand
    <3> QED BY <2>1, <3>1, <1>a
  <2>3. CASE Head(cmds) # "sync"
    <3>1. svc' = "poll" /\ work' = [work EXCEPT ![Head(cmds)] = "fetching"]
      BY <1>18, <2>3, Zenon DEF NextCommand
    <3>2. Head(cmds) \in Makers
      BY <2>1, <2>3 DEF CallTypes
    <3>3. work' \in [Makers -> Stages]
      BY <2>1, <3>1, <3>2 DEF ServiceTypes, Stages
    <3>4. OneJob'
      BY <2>1, <3>1, <3>2 DEF OneJob, Idle
    <3> QED BY <3>1, <3>3, <3>4 DEF ServiceTypes, Quiet, P
  <2> QED BY <2>2, <2>3
<1>19. CASE IntervalEnds
  <2>1. svc = "sleep" /\ svc' = "run" /\ work' = work
    BY <1>19, Zenon DEF IntervalEnds
  <2> QED BY <2>1, <1>a DEF Quiet
<1>20. CASE Discovered
  <2>1. svc = "discover" /\ svc' = "run" /\ work' = work
    BY <1>20, Zenon DEF Discovered
  <2> QED BY <2>1, <1>a DEF Quiet
<1>21. CASE SyncAndWait
  BY <1>21, <1>0, Zenon DEF SyncAndWait, world, rest, caller, service
<1>22. CASE SyncTimesOut
  BY <1>22, <1>0, Zenon DEF SyncTimesOut, world, rest, caller, service
<1>23. ASSUME NEW m \in Makers, PollMaker(m) PROVE P
  BY <1>23, <1>0, Zenon DEF PollMaker, world, rest, caller, service
<1>24. ASSUME NEW m \in Makers, RemoveMaker(m) PROVE P
  BY <1>24, <1>0, Zenon DEF RemoveMaker, world, rest, caller, service
<1>25. ASSUME NEW m \in Makers, MarkBad(m) PROVE P
  BY <1>25, <1>0, Zenon DEF MarkBad, world, rest, caller, service
<1>26. CASE Shutdown
  <2>1. svc' = "stopping"
        /\ work' = [m \in Makers |-> IF work[m] = "queued" THEN "none" ELSE work[m]]
    BY <1>26, Zenon DEF Shutdown
  <2>2. work' \in [Makers -> Stages]
    BY <2>1 DEF ServiceTypes, Stages
  <2> QED BY <2>1, <2>2 DEF ServiceTypes, Quiet, P
<1>27. CASE Stopped
  <2>1. svc' = "down" /\ work' = Idle
    BY <1>27, Zenon DEF Stopped, Gone
  <2> QED BY <2>1, <1>a
<1>28. CASE TakerCrash
  <2>1. svc' = "down" /\ work' = Idle
    BY <1>28, Zenon DEF TakerCrash, Gone
  <2> QED BY <2>1, <1>a
<1>29. CASE TakerStart
  <2>1. svc = "down" /\ svc' = "run" /\ work' = work
    BY <1>29, Zenon DEF TakerStart
  <2> QED BY <2>1, <1>a DEF Quiet
<1>30. CASE UNCHANGED bookVars
  BY <1>30, <1>0, Zenon DEF bookVars, service
<1> QED
  BY <1>1, <1>2, <1>3, <1>4, <1>5, <1>6, <1>7, <1>8, <1>9, <1>10, <1>11, <1>12, <1>13, <1>14,
     <1>15, <1>16, <1>17, <1>18, <1>19, <1>20, <1>21, <1>22, <1>23, <1>24, <1>25, <1>26, <1>27,
     <1>28, <1>29, <1>30
  DEF BookNext, Environment, Discovery, Workers, SyncService, Users, Lifetime

\* An element may be added to a sequence, ...
LEMMA AppendIn == ASSUME NEW S, NEW q \in Seq(S), NEW e \in S PROVE Append(q, e) \in Seq(S)
  OBVIOUS

\* ... and its front cut off.
LEMMA SubSeqIn == ASSUME NEW S, NEW q \in Seq(S), NEW i \in 1..Len(q)
  PROVE SubSeq(q, i + 1, Len(q)) \in Seq(S)
  OBVIOUS

\* Commands and callers keep their types.
LEMMA CallStep == ASSUME CallTypes, [BookNext]_bookVars PROVE CallTypes'
<1> SUFFICES ASSUME BookNext \/ UNCHANGED bookVars PROVE CallTypes'
  OBVIOUS
<1>0. manual' = manual /\ cmds' = cmds /\ call' = call => CallTypes'
  BY DEF CallTypes
<1>1. CASE BackendStops
  BY <1>1, <1>0, Zenon DEF BackendStops, world, rest, caller, service, calls
<1>2. CASE BackendBack
  BY <1>2, <1>0, Zenon DEF BackendBack, world, rest, caller, service, calls
<1>3. ASSUME NEW m \in Makers, MakerLeaves(m) PROVE CallTypes'
  BY <1>3, <1>0, Zenon DEF MakerLeaves, world, rest, caller, service, calls
<1>4. ASSUME NEW m \in Makers, MakerBack(m) PROVE CallTypes'
  BY <1>4, <1>0, Zenon DEF MakerBack, world, rest, caller, service, calls
<1>5. ASSUME NEW m \in Makers, BondExpires(m) PROVE CallTypes'
  BY <1>5, <1>0, Zenon DEF BondExpires, world, rest, caller, service, calls
<1>6. ASSUME NEW m \in Makers, MakerAnnounces(m) PROVE CallTypes'
  BY <1>6, <1>0, Zenon DEF MakerAnnounces, world, rest, caller, service, calls
<1>7. ASSUME NEW r \in Relays, Ignored(r) PROVE CallTypes'
  BY <1>7, <1>0, Zenon DEF Ignored, world, rest, caller, service, calls
<1>8. ASSUME NEW r \in Relays, Claim(r) PROVE CallTypes'
  BY <1>8, <1>0, Zenon DEF Claim, world, rest, caller, service, calls
<1>9. ASSUME NEW r \in Relays, Fetched(r) PROVE CallTypes'
  BY <1>9, <1>0, Zenon DEF Fetched, world, rest, caller, service, calls
<1>10. ASSUME NEW r \in Relays, FetchFails(r) PROVE CallTypes'
  BY <1>10, <1>0, Zenon DEF FetchFails, world, rest, caller, service, calls
<1>11. ASSUME NEW r \in Relays, SessionDrops(r) PROVE CallTypes'
  BY <1>11, <1>0, Zenon DEF SessionDrops, world, rest, caller, service, calls
<1>12. ASSUME NEW m \in Makers, TakeJob(m) PROVE CallTypes'
  BY <1>12, <1>0, Zenon DEF TakeJob, world, rest, caller, service, calls
<1>13. ASSUME NEW m \in Makers, DownloadFails(m) PROVE CallTypes'
  BY <1>13, <1>0, Zenon DEF DownloadFails, world, rest, caller, service, calls
<1>14. ASSUME NEW m \in Makers, Download(m) PROVE CallTypes'
  BY <1>14, <1>0, Zenon DEF Download, world, rest, caller, service, calls
<1>15. ASSUME NEW m \in Makers, Record(m) PROVE CallTypes'
  <2>1. manual' = manual /\ cmds' = cmds
    BY <1>15, Zenon DEF Record
  <2>2. call' \in {call, [call EXCEPT !["poll"] = "idle"]}
    BY <1>15, Zenon DEF Record
  <2> QED BY <2>1, <2>2 DEF CallTypes
<1>16. CASE RunOnce
  BY <1>16, <1>0, Zenon DEF RunOnce, world, rest, caller, service, calls
<1>17. CASE RunDone
  <2>1. manual' = "none" /\ (UNCHANGED calls \/ DrainAndAck)
    BY <1>17, Zenon DEF RunDone
  <2>2. CASE UNCHANGED calls
    BY <2>1, <2>2 DEF CallTypes, calls
  <2>3. CASE DrainAndAck
    <3> DEFINE polls == {k \in 1..Len(cmds) : cmds[k] # "sync"}
    <3>1. CASE polls = {}
      <4>1. cmds' = <<>> /\ call' = [call EXCEPT !["sync"] = "idle"]
        BY <2>3, <3>1, Zenon DEF DrainAndAck
      <4>2. cmds' \in Seq(Makers \cup {"sync"})
        BY <4>1
      <4> QED BY <2>1, <4>1, <4>2 DEF CallTypes
    <3>2. CASE polls # {}
      <4>1. PICK i \in polls : /\ cmds' = SubSeq(cmds, i + 1, Len(cmds))
                               /\ call' = [call EXCEPT !["sync"] = "idle", !["poll"] = "idle"]
        BY <2>3, <3>2, Zenon DEF DrainAndAck
      <4>3. cmds' \in Seq(Makers \cup {"sync"})
        BY <4>1, SubSeqIn DEF CallTypes
      <4> QED BY <2>1, <4>1, <4>3 DEF CallTypes
    <3> QED BY <3>1, <3>2
  <2> QED BY <2>1, <2>2, <2>3
<1>18. CASE NextCommand
  <2>1. /\ cmds # <<>> /\ cmds' = Tail(cmds) /\ call' = call /\ manual' \in {manual, "sync"}
    BY <1>18, Zenon DEF NextCommand
  <2> QED BY <2>1 DEF CallTypes
<1>19. CASE IntervalEnds
  BY <1>19, <1>0, Zenon DEF IntervalEnds, world, rest, caller, service, calls
<1>20. CASE Discovered
  BY <1>20, <1>0, Zenon DEF Discovered, world, rest, caller, service, calls
<1>21. CASE SyncAndWait
  <2>1. manual' = manual /\ cmds' = Append(cmds, "sync")
        /\ call' = [call EXCEPT !["sync"] = "waiting"]
    BY <1>21, Zenon DEF SyncAndWait, caller, service
  <2>2. cmds' \in Seq(Makers \cup {"sync"})
    BY <2>1, AppendIn DEF CallTypes
  <2> QED BY <2>1, <2>2 DEF CallTypes
<1>22. CASE SyncTimesOut
  <2>1. manual' = manual /\ cmds' = cmds /\ call' = [call EXCEPT !["sync"] = "idle"]
    BY <1>22, Zenon DEF SyncTimesOut, caller, service
  <2> QED BY <2>1 DEF CallTypes
<1>23. ASSUME NEW m \in Makers, PollMaker(m) PROVE CallTypes'
  <2>1. manual' = manual /\ cmds' = Append(cmds, m) /\ call' = [call EXCEPT !["poll"] = "waiting"]
    BY <1>23, Zenon DEF PollMaker, caller, service
  <2>2. cmds' \in Seq(Makers \cup {"sync"})
    BY <2>1, AppendIn DEF CallTypes
  <2> QED BY <2>1, <2>2 DEF CallTypes
<1>24. ASSUME NEW m \in Makers, RemoveMaker(m) PROVE CallTypes'
  BY <1>24, <1>0, Zenon DEF RemoveMaker, world, rest, caller, service, calls
<1>25. ASSUME NEW m \in Makers, MarkBad(m) PROVE CallTypes'
  BY <1>25, <1>0, Zenon DEF MarkBad, world, rest, caller, service, calls
<1>26. CASE Shutdown
  BY <1>26, <1>0, Zenon DEF Shutdown, world, rest, caller, service, calls
<1>27. CASE Stopped
  <2>1. manual' = "none" /\ cmds' = <<>> /\ call' = [c \in Callers |-> "idle"]
    BY <1>27, Zenon DEF Stopped, Gone
  <2> QED BY <2>1 DEF CallTypes
<1>28. CASE TakerCrash
  <2>1. manual' = "none" /\ cmds' = <<>> /\ call' = [c \in Callers |-> "idle"]
    BY <1>28, Zenon DEF TakerCrash, Gone
  <2> QED BY <2>1 DEF CallTypes
<1>29. CASE TakerStart
  BY <1>29, <1>0, Zenon DEF TakerStart, world, rest, caller, service, calls
<1>30. CASE UNCHANGED bookVars
  BY <1>30, <1>0, Zenon DEF bookVars, service, calls
<1> QED
  BY <1>1, <1>2, <1>3, <1>4, <1>5, <1>6, <1>7, <1>8, <1>9, <1>10, <1>11, <1>12, <1>13, <1>14,
     <1>15, <1>16, <1>17, <1>18, <1>19, <1>20, <1>21, <1>22, <1>23, <1>24, <1>25, <1>26, <1>27,
     <1>28, <1>29, <1>30
  DEF BookNext, Environment, Discovery, Workers, SyncService, Users, Lifetime

-----------------------------------------------------------------------------
(* The scores *)

\* The fields of an entry of the book.
LEMMA EntryFields == ASSUME NEW e \in Entries
  PROVE e.st \in {"none", "good", "unresponsive", "bad"} /\ e.n \in 0..BadAfter /\ e.n \in Nat
  BY BookAssumption DEF Entries

\* An entry that is not there, and a new one.
LEMMA Constants ==
  /\ Absent \in Entries /\ Absent.st = "none"
  /\ Fresh \in Entries /\ Fresh.st = "unresponsive" /\ Fresh.n = 0
  BY BookAssumption DEF Entries, Absent, Fresh

\* What mark_failure makes of an entry whose state is st and whose failures are n.
Judged(e, st, n) ==
  /\ e.st = "unresponsive" => st = "good" \/ (st = "unresponsive" /\ e.n = n + 1)
  /\ e.st = "unresponsive" /\ st = "good" => e.n = 1
  /\ e.st = "bad" => st = "bad" \/ (st = "unresponsive" /\ n = BadAfter)

\* mark_failure leaves a book alone, or replaces one entry as it should.
LEMMA Failure == ASSUME NEW b \in [Makers -> Entries], NEW m \in Makers
  PROVE \/ MarkFailure(b, m) = b /\ b[m].st = "none"
        \/ \E e \in Entries : MarkFailure(b, m) = [b EXCEPT ![m] = e] /\ Judged(e, b[m].st, b[m].n)
<1> DEFINE f == b[m]
<1>0. f.st \in {"none", "good", "unresponsive", "bad"} /\ f.n \in 0..BadAfter /\ f.n \in Nat
      /\ BadAfter \in Nat \ {0}
  BY EntryFields, BookAssumption
<1>1. CASE f.st = "none"
  BY <1>1, Zenon DEF MarkFailure
<1>2. CASE f.st = "good"
  <2> DEFINE e == [st |-> "unresponsive", n |-> 1, due |-> FALSE]
  <2>1. MarkFailure(b, m) = [b EXCEPT ![m] = e]
    BY <1>2, Zenon DEF MarkFailure
  <2>2. e \in Entries /\ Judged(e, f.st, f.n)
    BY <1>0, <1>2 DEF Entries, Judged
  <2> QED BY <2>1, <2>2
<1>3. CASE f.st = "unresponsive" /\ f.n < BadAfter
  <2> DEFINE e == [st |-> "unresponsive", n |-> f.n + 1, due |-> FALSE]
  <2>1. MarkFailure(b, m) = [b EXCEPT ![m] = e]
    BY <1>3, Zenon DEF MarkFailure
  <2>2. e \in Entries /\ Judged(e, f.st, f.n)
    BY <1>0, <1>3 DEF Entries, Judged
  <2> QED BY <2>1, <2>2
<1>4. CASE f.st = "bad" \/ (f.st = "unresponsive" /\ ~(f.n < BadAfter))
  <2> DEFINE e == [st |-> "bad", n |-> 0, due |-> FALSE]
  <2>1. MarkFailure(b, m) = [b EXCEPT ![m] = e]
    BY <1>4, Zenon DEF MarkFailure
  <2>2. e \in Entries /\ Judged(e, f.st, f.n)
    BY <1>0, <1>4 DEF Entries, Judged
  <2> QED BY <2>1, <2>2
<1> QED BY <1>0, <1>1, <1>2, <1>3, <1>4

\* NotBlamed, of entry e of maker m, with its failures bl and the makers mk that the user marked.
Fair(e, m, bl, mk) ==
  /\ e.st = "unresponsive" => e.n <= bl
  /\ e.st = "bad" => m \in mk \/ bl > BadAfter

\* NotBlamed, entry by entry.
LEMMA NotBlamedIs ==
  /\ NotBlamed <=> \A m \in Makers : /\ Fair(book[m], m, blame[m], marked)
                                     /\ Fair(file[m], m, blame[m], marked)
  /\ NotBlamed' <=> \A m \in Makers : /\ Fair(book'[m], m, blame'[m], marked')
                                      /\ Fair(file'[m], m, blame'[m], marked')
  BY Zenon DEF NotBlamed, Fair

\* Owed in the next state, with its definition expanded.
LEMMA OwedIs ==
  ASSUME \A m \in Makers : work'[m] \in {"bad bond", "no offer"} =>
            blame'[m] > 0 /\ (book'[m].st = "unresponsive" => book'[m].n < blame'[m])
  PROVE Owed'
  BY DEF Owed

\* The changes of an entry that are not of its score: it falls due, or the user marks it.
WithDue(e) == [e EXCEPT !.due = e.st # "none"]
WithBad(e) == [[e EXCEPT !.st = "bad"] EXCEPT !.n = 0]

\* The end of an interval changes no score.
LEMMA DueEntry == ASSUME NEW e \in Entries
  PROVE WithDue(e) \in Entries /\ WithDue(e).st = e.st /\ WithDue(e).n = e.n
  BY Zenon DEF Entries, WithDue

\* add_bad_maker.
LEMMA BadEntry == ASSUME NEW e \in Entries PROVE WithBad(e) \in Entries /\ WithBad(e).st = "bad"
<1>1. 0 \in 0..BadAfter
  BY BookAssumption
<1> QED BY <1>1, Zenon DEF Entries, WithBad

\* upsert_address adds new entries and changes none.
LEMMA Upserted == ASSUME NEW b \in [Makers -> Entries], NEW S
  PROVE /\ UpsertAddress(b, S) \in [Makers -> Entries]
        /\ \A m \in Makers : UpsertAddress(b, S)[m] \in {b[m], Fresh}
  BY Constants DEF UpsertAddress

\* Every step keeps the scores in what the makers are to blame for.
LEMMA ScoreStep ==
  ASSUME ScoreTypes, ServiceTypes, Quiet, NotBlamed, Owed, [BookNext]_bookVars
  PROVE ScoreTypes' /\ NotBlamed' /\ Owed'
<1> DEFINE P == ScoreTypes' /\ NotBlamed' /\ Owed'
           Res == {"bad bond", "no offer"}
<1> SUFFICES ASSUME BookNext \/ UNCHANGED bookVars PROVE P
  OBVIOUS
<1>t. /\ BadAfter \in Nat
      /\ \A m \in Makers : blame[m] \in Nat /\ book[m] \in Entries /\ file[m] \in Entries
      /\ book \in [Makers -> Entries] /\ file \in [Makers -> Entries] /\ blame \in [Makers -> Nat]
  BY BookAssumption DEF ScoreTypes
<1>n. \A m \in Makers : Fair(book[m], m, blame[m], marked) /\ Fair(file[m], m, blame[m], marked)
  BY NotBlamedIs
<1>o. \A m \in Makers : work[m] \in Res =>
        blame[m] > 0 /\ (book[m].st = "unresponsive" => book[m].n < blame[m])
  BY DEF Owed
<1>a. ASSUME book' = book, file' = file, blame' = blame, marked' = marked,
             \A m \in Makers : work'[m] \in Res => work'[m] = work[m]
      PROVE P
  <2>1. ScoreTypes'
    BY <1>a DEF ScoreTypes
  <2>2. NotBlamed'
    BY <1>a, <1>n, NotBlamedIs
  <2>3. Owed'
    BY <1>a, <1>o, OwedIs
  <2> QED BY <2>1, <2>2, <2>3
<1>b. ASSUME NEW m \in Makers, Blame(m), book' = book, file' = file, marked' = marked,
             \A o \in Makers \ {m} : work'[o] = work[o]
      PROVE P
  <2>1. blame' = [blame EXCEPT ![m] = IF blame[m] > BadAfter THEN blame[m] ELSE blame[m] + 1]
    BY <1>b, Zenon DEF Blame
  <2>2. blame' \in [Makers -> Nat] /\ \A o \in Makers : blame[o] <= blame'[o]
    BY <2>1, <1>t
  <2>3. blame'[m] > 0 /\ (blame'[m] > BadAfter \/ blame'[m] = blame[m] + 1)
        /\ \A o \in Makers \ {m} : blame'[o] = blame[o]
    BY <2>1, <1>t
  <2>4. ScoreTypes'
    BY <1>b, <2>2 DEF ScoreTypes
  <2>5. NotBlamed'
    <3>1. ASSUME NEW o \in Makers, NEW e \in Entries, Fair(e, o, blame[o], marked)
      PROVE Fair(e, o, blame'[o], marked)
      BY <3>1, <2>2, <1>t, EntryFields DEF Fair
    <3> QED BY <3>1, <1>b, <1>n, <1>t, NotBlamedIs
  <2>6. Owed'
    <3>1. ASSUME NEW o \in Makers, work'[o] \in Res
          PROVE blame'[o] > 0 /\ (book'[o].st = "unresponsive" => book'[o].n < blame'[o])
      <4>1. CASE o = m
        <5>1. book[m].n \in 0..BadAfter
          BY <1>t, EntryFields
        <5>2. book[m].st = "unresponsive" => book[m].n <= blame[m]
          BY <1>n DEF Fair
        <5>3. blame[m] \in Nat /\ BadAfter \in Nat /\ blame'[m] \in Nat
          BY <1>t, <2>2
        <5>4. book[m].st = "unresponsive" => book[m].n < blame'[m]
          BY <5>1, <5>2, <5>3, <2>3
        <5> QED BY <4>1, <5>4, <2>3, <1>b
      <4>2. CASE o # m
        BY <4>2, <3>1, <2>3, <1>b, <1>o
      <4> QED BY <4>1, <4>2
    <3> QED BY <3>1, OwedIs
  <2> QED BY <2>4, <2>5, <2>6
<1>c. ASSUME book' \in [Makers -> Entries], blame' = blame,
             marked \subseteq marked', marked' \subseteq Makers, file' \in {file, book'},
             \A m \in Makers : Fair(book'[m], m, blame[m], marked'),
             \A m \in Makers : work'[m] \in Res =>
               /\ work'[m] = work[m]
               /\ book'[m].st = "unresponsive" =>
                    \/ book'[m].n < blame[m]
                    \/ book'[m].n = book[m].n /\ book[m].st = "unresponsive"
      PROVE P
  <2>1. ScoreTypes'
    BY <1>c, <1>t DEF ScoreTypes
  <2>2. NotBlamed'
    <3>1. \A m \in Makers : Fair(file[m], m, blame[m], marked')
      BY <1>c, <1>n DEF Fair
    <3> QED BY <3>1, <1>c, NotBlamedIs
  <2>3. Owed'
    BY <1>c, <1>o, OwedIs
  <2> QED BY <2>1, <2>2, <2>3
<1> HIDE DEF P
<1>1. CASE BackendStops
  BY <1>1, <1>a, Zenon DEF BackendStops, world, rest, outside, caller, service
<1>2. CASE BackendBack
  BY <1>2, <1>a, Zenon DEF BackendBack, world, rest, outside, caller, service
<1>3. ASSUME NEW m \in Makers, MakerLeaves(m) PROVE P
  BY <1>3, <1>a, Zenon DEF MakerLeaves, world, rest, outside, caller, service
<1>4. ASSUME NEW m \in Makers, MakerBack(m) PROVE P
  BY <1>4, <1>a, Zenon DEF MakerBack, world, rest, outside, caller, service
<1>5. ASSUME NEW m \in Makers, BondExpires(m) PROVE P
  BY <1>5, <1>a, Zenon DEF BondExpires, world, rest, outside, caller, service
<1>6. ASSUME NEW m \in Makers, MakerAnnounces(m) PROVE P
  BY <1>6, <1>a, Zenon DEF MakerAnnounces, world, rest, outside, caller, service
<1>7. ASSUME NEW r \in Relays, Ignored(r) PROVE P
  BY <1>7, <1>a, Zenon DEF Ignored, world, rest, outside, caller, service
<1>8. ASSUME NEW r \in Relays, Claim(r) PROVE P
  BY <1>8, <1>a, Zenon DEF Claim, world, rest, outside, caller, service
<1>9. ASSUME NEW r \in Relays, Fetched(r) PROVE P
  BY <1>9, <1>a, Zenon DEF Fetched, world, rest, outside, caller, service
<1>10. ASSUME NEW r \in Relays, FetchFails(r) PROVE P
  BY <1>10, <1>a, Zenon DEF FetchFails, world, rest, outside, caller, service
<1>11. ASSUME NEW r \in Relays, SessionDrops(r) PROVE P
  BY <1>11, <1>a, Zenon DEF SessionDrops, world, rest, outside, caller, service
<1>12. ASSUME NEW m \in Makers, TakeJob(m) PROVE P
  <2>1. book' = book /\ file' = file /\ blame' = blame /\ marked' = marked
    BY <1>12, Zenon DEF TakeJob, outside
  <2>2. work' = [work EXCEPT ![m] = IF backend THEN "fetching" ELSE "none"]
    BY <1>12, Zenon DEF TakeJob
  <2>3. \A o \in Makers : work'[o] \in Res => work'[o] = work[o]
    BY <2>2 DEF ServiceTypes
  <2> QED BY <2>1, <2>3, <1>a
<1>13. ASSUME NEW m \in Makers, DownloadFails(m) PROVE P
  <2>1. Blame(m) /\ book' = book /\ file' = file /\ marked' = marked
        /\ work' = [work EXCEPT ![m] = "no offer"]
    BY <1>13, Zenon DEF DownloadFails, outside
  <2>2. \A o \in Makers \ {m} : work'[o] = work[o]
    BY <2>1 DEF ServiceTypes
  <2> QED BY <2>1, <2>2, <1>b
<1>14. ASSUME NEW m \in Makers, Download(m) PROVE P
  <2> DEFINE x == IF ~backend THEN "backend down" ELSE IF valid[m] THEN "verified" ELSE "bad bond"
  <2>1. book' = book /\ file' = file /\ marked' = marked /\ work' = [work EXCEPT ![m] = x]
    BY <1>14, Zenon DEF Download, outside
  <2>2. \A o \in Makers \ {m} : work'[o] = work[o]
    BY <2>1 DEF ServiceTypes
  <2>3. CASE backend /\ ~valid[m]
    <3>1. Blame(m)
      BY <1>14, <2>3, Zenon DEF Download
    <3> QED BY <2>1, <2>2, <3>1, <1>b
  <2>4. CASE ~(backend /\ ~valid[m])
    <3>1. blame' = blame
      BY <1>14, <2>4, Zenon DEF Download
    <3>2. work'[m] \notin Res
      BY <2>1, <2>4 DEF ServiceTypes
    <3> QED BY <2>1, <2>2, <3>1, <3>2, <1>a
  <2> QED BY <2>3, <2>4
<1>15. ASSUME NEW m \in Makers, Record(m) PROVE P
  <2>1. /\ work[m] \in Results /\ book' = Outcome(m) /\ file' = book' /\ marked' = marked
        /\ work' = [work EXCEPT ![m] = "none"]
    BY <1>15, Zenon DEF Record, outside
  <2>2. /\ \A o \in Makers \ {m} : work'[o] = work[o]
        /\ work'[m] = "none"
    BY <2>1 DEF ServiceTypes
  <2>3. CASE work[m] = "verified" /\ book[m].st # "none"
    <3> DEFINE e == [st |-> "good", n |-> 0, due |-> FALSE]
    <3>1. Outcome(m) = [book EXCEPT ![m] = e] /\ blame' = [blame EXCEPT ![m] = 0]
      BY <1>15, <2>3, Zenon DEF Record, Outcome, MarkSuccess
    <3>2. e \in Entries /\ e.st = "good"
      BY <1>t DEF Entries
    <3> HIDE DEF e
    <3>3. ScoreTypes'
      BY <2>1, <3>1, <3>2, <1>t DEF ScoreTypes
    <3>4. NotBlamed'
      <4>1. ASSUME NEW o \in Makers PROVE Fair(book'[o], o, blame'[o], marked')
        <5>1. CASE o = m
          BY <5>1, <2>1, <3>1, <3>2, <1>t DEF Fair
        <5>2. CASE o # m
          BY <5>2, <2>1, <3>1, <1>t, <1>n
        <5> QED BY <5>1, <5>2
      <4> QED BY <4>1, <2>1, NotBlamedIs
    <3>5. Owed'
      <4>1. ASSUME NEW o \in Makers, work'[o] \in Res
            PROVE blame'[o] > 0 /\ (book'[o].st = "unresponsive" => book'[o].n < blame'[o])
        <5>1. o # m
          BY <4>1, <2>2
        <5>2. book'[o] = book[o] /\ blame'[o] = blame[o] /\ work[o] \in Res
          BY <4>1, <5>1, <2>1, <2>2, <3>1, <1>t
        <5> QED BY <5>2, <1>o
      <4> QED BY <4>1, OwedIs
    <3> QED BY <3>3, <3>4, <3>5 DEF P
  <2>4. ASSUME ~(work[m] = "verified" /\ book[m].st # "none"), Outcome(m) = book PROVE P
    <3>1. blame' = blame
      BY <1>15, <2>4, Zenon DEF Record
    <3>2. \A o \in Makers : work'[o] \in Res => work'[o] = work[o]
      BY <2>2
    <3> QED BY <2>1, <2>4, <3>1, <3>2, <1>t, <1>n, <1>c DEF ScoreTypes
  <2>5. ASSUME work[m] \in Res, Outcome(m) = MarkFailure(book, m) PROVE P
    <3>1. blame' = blame
      BY <1>15, <2>5 DEF Record
    <3>2. CASE MarkFailure(book, m) = book
      BY <2>4, <2>5, <3>2
    <3>3. CASE MarkFailure(book, m) # book
      <4>1. PICK e \in Entries : MarkFailure(book, m) = [book EXCEPT ![m] = e]
            /\ Judged(e, book[m].st, book[m].n)
        BY <3>3, Failure, <1>t
      <4>2. book' \in [Makers -> Entries] /\ book'[m] = e
            /\ \A o \in Makers \ {m} : book'[o] = book[o]
        BY <4>1, <2>1, <2>5, <1>t
      <4>3. Fair(e, m, blame[m], marked)
        <5>1. e.n \in Nat /\ book[m].n \in Nat /\ blame[m] > 0 /\ blame[m] \in Nat
          BY <1>t, <1>o, <2>5, EntryFields
        <5>2. Fair(book[m], m, blame[m], marked)
              /\ (book[m].st = "unresponsive" => book[m].n < blame[m])
          BY <1>n, <1>o, <2>5
        <5> QED BY <4>1, <5>1, <5>2, <1>t DEF Fair, Judged
      <4>4. \A o \in Makers : Fair(book'[o], o, blame[o], marked)
        BY <4>2, <4>3, <1>n
      <4> QED BY <2>1, <2>2, <3>1, <4>2, <4>4, <1>c DEF ScoreTypes
    <3> QED BY <3>2, <3>3
  <2>6. CASE work[m] = "verified" /\ book[m].st = "none"
    <3>1. Outcome(m) = book
      BY <2>6, Zenon DEF Outcome, MarkSuccess
    <3> QED BY <3>1, <2>4, <2>6
  <2>7. CASE work[m] = "backend down"
    <3>1. Outcome(m) = book
      BY <2>7 DEF Outcome, RecordFidelityFailure
    <3> QED BY <3>1, <2>4, <2>7
  <2>8. CASE work[m] = "bad bond"
    <3>1. Outcome(m) = MarkFailure(book, m)
      BY <2>8 DEF Outcome, RecordFidelityFailure
    <3> QED BY <3>1, <2>5, <2>8
  <2>9. CASE work[m] = "no offer"
    <3>1. Outcome(m) = MarkFailure(book, m)
      BY <2>9 DEF Outcome
    <3> QED BY <3>1, <2>5, <2>9
  <2> QED BY <2>1, <2>3, <2>6, <2>7, <2>8, <2>9 DEF Results
<1>16. CASE RunOnce
  <2>1. book' = UpsertAddress(book, Listed) /\ file' = file /\ blame' = blame /\ marked' = marked
    BY <1>16, Zenon DEF RunOnce, outside
  <2>2. work' = [m \in Makers |-> IF m \in MakersToPoll(book') THEN "queued" ELSE "none"]
    BY <1>16, Zenon DEF RunOnce
  <2>3. \A o \in Makers : work'[o] \notin Res
    BY <2>2
  <2>4. /\ book' \in [Makers -> Entries]
        /\ \A o \in Makers : book'[o] \in {book[o], Fresh}
    BY <2>1, Upserted, <1>t
  <2>5. \A o \in Makers : Fair(book'[o], o, blame[o], marked)
    BY <2>4, <1>n, <1>t, Constants DEF Fair
  <2> QED BY <2>1, <2>3, <2>4, <2>5, <1>c DEF ScoreTypes
<1>17. CASE RunDone
  <2>1. book' = book /\ file' = file /\ blame' = blame /\ marked' = marked /\ work' = work
    BY <1>17, Zenon DEF RunDone, outside
  <2> QED BY <2>1, <1>a
<1>18. CASE NextCommand
  <2>1. svc = "sleep" /\ work = Idle /\ file' = file /\ blame' = blame /\ marked' = marked
    BY <1>18, Zenon DEF NextCommand, outside, Quiet
  <2>2. CASE Head(cmds) = "sync"
    <3>1. book' = book /\ work' = work
      BY <1>18, <2>2, Zenon DEF NextCommand
    <3> QED BY <2>1, <3>1, <1>a
  <2>3. CASE Head(cmds) # "sync"
    <3>1. book' = UpsertAddress(book, {Head(cmds)})
          /\ work' = [work EXCEPT ![Head(cmds)] = "fetching"]
      BY <1>18, <2>3, Zenon DEF NextCommand
    <3>4. \A o \in Makers : work'[o] \notin Res
      BY <2>1, <3>1 DEF Idle
    <3>2. /\ book' \in [Makers -> Entries]
          /\ \A o \in Makers : book'[o] \in {book[o], Fresh}
      BY <3>1, Upserted, <1>t
    <3>3. \A o \in Makers : Fair(book'[o], o, blame[o], marked)
      BY <3>2, <1>n, <1>t, Constants DEF Fair
    <3> QED BY <2>1, <3>2, <3>3, <3>4, <1>c DEF ScoreTypes
  <2> QED BY <2>2, <2>3
<1>19. CASE IntervalEnds
  <2>1. book' = [m \in Makers |-> WithDue(book[m])]
    BY <1>19, Zenon DEF IntervalEnds, WithDue
  <2>2. file' = file /\ blame' = blame /\ marked' = marked /\ work' = work
    BY <1>19, Zenon DEF IntervalEnds, outside
  <2>3. /\ book' \in [Makers -> Entries]
        /\ \A m \in Makers : book'[m].st = book[m].st /\ book'[m].n = book[m].n
    BY <2>1, <1>t, DueEntry
  <2>4. \A m \in Makers : Fair(book'[m], m, blame[m], marked)
    BY <2>3, <1>n DEF Fair
  <2> QED BY <2>2, <2>3, <2>4, <1>c DEF ScoreTypes
<1>20. CASE Discovered
  BY <1>20, <1>a, Zenon DEF Discovered, world, rest, outside, caller, service
<1>21. CASE SyncAndWait
  BY <1>21, <1>a, Zenon DEF SyncAndWait, world, rest, outside, caller, service
<1>22. CASE SyncTimesOut
  BY <1>22, <1>a, Zenon DEF SyncTimesOut, world, rest, outside, caller, service
<1>23. ASSUME NEW m \in Makers, PollMaker(m) PROVE P
  BY <1>23, <1>a, Zenon DEF PollMaker, world, rest, outside, caller, service
<1>24. ASSUME NEW m \in Makers, RemoveMaker(m) PROVE P
  <2>1. book' = [book EXCEPT ![m] = Absent] /\ file' = book' /\ blame' = blame
        /\ marked' = marked /\ work' = work
    BY <1>24, Zenon DEF RemoveMaker, service
  <2>2. book' \in [Makers -> Entries] /\ book'[m] = Absent
        /\ \A o \in Makers \ {m} : book'[o] = book[o]
    BY <2>1, <1>t, Constants
  <2>3. \A o \in Makers : Fair(book'[o], o, blame[o], marked)
    BY <2>2, <1>n, Constants DEF Fair
  <2> QED BY <2>1, <2>2, <2>3, <1>c, Constants DEF ScoreTypes
<1>25. ASSUME NEW m \in Makers, MarkBad(m) PROVE P
  <2>1. book' = [book EXCEPT ![m] = WithBad(book[m])]
    BY <1>25, Zenon DEF MarkBad, WithBad
  <2>2. marked' = marked \cup {m} /\ file' = file /\ blame' = blame /\ work' = work
    BY <1>25, Zenon DEF MarkBad, caller, service
  <2>3. book' \in [Makers -> Entries] /\ book'[m].st = "bad"
        /\ \A o \in Makers \ {m} : book'[o] = book[o]
    BY <2>1, <1>t, BadEntry
  <2>4. \A o \in Makers : Fair(book'[o], o, blame[o], marked')
    BY <2>2, <2>3, <1>n DEF Fair
  <2> QED BY <2>2, <2>3, <2>4, <1>c DEF ScoreTypes
<1>26. CASE Shutdown
  <2>1. book' = book /\ file' = file /\ blame' = blame /\ marked' = marked
    BY <1>26, Zenon DEF Shutdown, outside
  <2>2. work' = [m \in Makers |-> IF work[m] = "queued" THEN "none" ELSE work[m]]
    BY <1>26, Zenon DEF Shutdown
  <2>3. \A o \in Makers : work'[o] \in Res => work'[o] = work[o]
    BY <2>2 DEF ServiceTypes
  <2> QED BY <2>1, <2>3, <1>a
<1>27. CASE Stopped
  <2>1. book' = Empty /\ work' = Idle /\ blame' = blame /\ marked' = marked
    BY <1>27, Zenon DEF Stopped, Gone
  <2>2. file' \in {file, book, Empty}
    BY <1>27, Zenon DEF Stopped
  <2>3. Empty \in [Makers -> Entries] /\ \A m \in Makers : Empty[m].st = "none"
    BY Constants DEF Empty
  <2>4. ScoreTypes'
    BY <2>1, <2>2, <2>3, <1>t DEF ScoreTypes
  <2>5. \A m \in Makers : Fair(Empty[m], m, blame[m], marked)
    BY <2>3 DEF Fair
  <2>6. NotBlamed'
    BY <2>1, <2>2, <2>5, <1>n, NotBlamedIs
  <2>7. Owed'
    BY <2>1, OwedIs DEF Idle
  <2> QED BY <2>4, <2>6, <2>7 DEF P
<1>28. CASE TakerCrash
  <2>1. book' = Empty /\ work' = Idle /\ blame' = blame /\ marked' = marked
    BY <1>28, Zenon DEF TakerCrash, Gone
  <2>2. file' \in {file, book, Empty}
    BY <1>28, Zenon DEF TakerCrash
  <2>3. Empty \in [Makers -> Entries] /\ \A m \in Makers : Empty[m].st = "none"
    BY Constants DEF Empty
  <2>4. ScoreTypes'
    BY <2>1, <2>2, <2>3, <1>t DEF ScoreTypes
  <2>5. \A m \in Makers : Fair(Empty[m], m, blame[m], marked)
    BY <2>3 DEF Fair
  <2>6. NotBlamed'
    BY <2>1, <2>2, <2>5, <1>n, NotBlamedIs
  <2>7. Owed'
    BY <2>1, OwedIs DEF Idle
  <2> QED BY <2>4, <2>6, <2>7 DEF P
<1>29. CASE TakerStart
  <2>1. svc = "down" /\ book' = file /\ file' = file /\ blame' = blame /\ marked' = marked
        /\ work' = work
    BY <1>29, Zenon DEF TakerStart
  <2>2. \A m \in Makers : work'[m] \notin Res
    BY <2>1 DEF Quiet, Idle
  <2> QED BY <2>1, <2>2, <1>t, <1>n, <1>c DEF ScoreTypes
<1>30. CASE UNCHANGED bookVars
  BY <1>30, <1>a, Zenon DEF bookVars, service
<1> QED
  BY <1>1, <1>2, <1>3, <1>4, <1>5, <1>6, <1>7, <1>8, <1>9, <1>10, <1>11, <1>12, <1>13, <1>14,
     <1>15, <1>16, <1>17, <1>18, <1>19, <1>20, <1>21, <1>22, <1>23, <1>24, <1>25, <1>26, <1>27,
     <1>28, <1>29, <1>30
  DEF BookNext, Environment, Discovery, Workers, SyncService, Users, Lifetime

-----------------------------------------------------------------------------
(* The theorems *)

\* list_fidelity drops a record only once its bond has expired, and discovery marks a bond as seen
\* only with its record stored.
LEMMA SeenStep ==
  ASSUME SeenIsListed, NetTypes, FoundTypes, [BookNext]_bookVars
  PROVE SeenIsListed'
<1> SUFFICES ASSUME BookNext \/ UNCHANGED bookVars PROVE SeenIsListed'
  OBVIOUS
<1>v. \A m \in Makers : valid'[m] => valid[m]
  BY NetStep
<1>0. ASSUME seen' = seen, registry' = registry PROVE SeenIsListed'
  BY <1>0, <1>v DEF SeenIsListed, FoundTypes
<1>1. CASE BackendStops
  BY <1>1, <1>0, Zenon DEF BackendStops, world, rest, outside, caller, found
<1>2. CASE BackendBack
  BY <1>2, <1>0, Zenon DEF BackendBack, world, rest, outside, caller, found
<1>3. ASSUME NEW m \in Makers, MakerLeaves(m) PROVE SeenIsListed'
  BY <1>3, <1>0, Zenon DEF MakerLeaves, world, rest, outside, caller, found
<1>4. ASSUME NEW m \in Makers, MakerBack(m) PROVE SeenIsListed'
  BY <1>4, <1>0, Zenon DEF MakerBack, world, rest, outside, caller, found
<1>5. ASSUME NEW m \in Makers, BondExpires(m) PROVE SeenIsListed'
  BY <1>5, <1>0, Zenon DEF BondExpires, world, rest, outside, caller, found
<1>6. ASSUME NEW m \in Makers, MakerAnnounces(m) PROVE SeenIsListed'
  BY <1>6, <1>0, Zenon DEF MakerAnnounces, world, rest, outside, caller, found
<1>7. ASSUME NEW r \in Relays, Ignored(r) PROVE SeenIsListed'
  BY <1>7, <1>0, Zenon DEF Ignored, world, rest, outside, caller, found
<1>8. ASSUME NEW r \in Relays, Claim(r) PROVE SeenIsListed'
  BY <1>8, <1>0, Zenon DEF Claim, world, rest, outside, caller, found
<1>9. ASSUME NEW r \in Relays, Fetched(r) PROVE SeenIsListed'
  <2>1. registry' = registry \cup {session[r]}
    BY <1>9, Zenon DEF Fetched
  <2>2. seen' \subseteq seen \cup {session[r]}
    BY <1>9 DEF Fetched, Seen
  <2> QED BY <2>1, <2>2, <1>v DEF SeenIsListed, FoundTypes
<1>10. ASSUME NEW r \in Relays, FetchFails(r) PROVE SeenIsListed'
  BY <1>10, <1>0, Zenon DEF FetchFails, world, rest, outside, caller, found
<1>11. ASSUME NEW r \in Relays, SessionDrops(r) PROVE SeenIsListed'
  BY <1>11, <1>0, Zenon DEF SessionDrops, world, rest, outside, caller, found
<1>12. ASSUME NEW m \in Makers, TakeJob(m) PROVE SeenIsListed'
  BY <1>12, <1>0, Zenon DEF TakeJob, world, rest, outside, caller, found
<1>13. ASSUME NEW m \in Makers, DownloadFails(m) PROVE SeenIsListed'
  BY <1>13, <1>0, Zenon DEF DownloadFails, world, rest, outside, caller, found
<1>14. ASSUME NEW m \in Makers, Download(m) PROVE SeenIsListed'
  BY <1>14, <1>0, Zenon DEF Download, world, rest, outside, caller, found
<1>15. ASSUME NEW m \in Makers, Record(m) PROVE SeenIsListed'
  BY <1>15, <1>0, Zenon DEF Record, world, rest, outside, caller, found
<1>16. CASE RunOnce
  <2>1. seen' = seen /\ registry' = Listed /\ valid' = valid
    BY <1>16, Zenon DEF RunOnce, outside, network
  <2> QED BY <2>1 DEF SeenIsListed, Listed
<1>17. CASE RunDone
  BY <1>17, <1>0, Zenon DEF RunDone, world, rest, outside, caller, found
<1>18. CASE NextCommand
  BY <1>18, <1>0, Zenon DEF NextCommand, world, rest, outside, caller, found
<1>19. CASE IntervalEnds
  BY <1>19, <1>0, Zenon DEF IntervalEnds, world, rest, outside, caller, found
<1>20. CASE Discovered
  BY <1>20, <1>0, Zenon DEF Discovered, world, rest, outside, caller, found
<1>21. CASE SyncAndWait
  BY <1>21, <1>0, Zenon DEF SyncAndWait, world, rest, outside, caller, found
<1>22. CASE SyncTimesOut
  BY <1>22, <1>0, Zenon DEF SyncTimesOut, world, rest, outside, caller, found
<1>23. ASSUME NEW m \in Makers, PollMaker(m) PROVE SeenIsListed'
  BY <1>23, <1>0, Zenon DEF PollMaker, world, rest, outside, caller, found
<1>24. ASSUME NEW m \in Makers, RemoveMaker(m) PROVE SeenIsListed'
  BY <1>24, <1>0, Zenon DEF RemoveMaker, world, rest, outside, caller, found
<1>25. ASSUME NEW m \in Makers, MarkBad(m) PROVE SeenIsListed'
  BY <1>25, <1>0, Zenon DEF MarkBad, world, rest, outside, caller, found
<1>26. CASE Shutdown
  BY <1>26, <1>0, Zenon DEF Shutdown, world, rest, outside, caller, found
<1>27. CASE Stopped
  <2>1. seen' = {}
    BY <1>27, Zenon DEF Stopped, Gone
  <2> QED BY <2>1 DEF SeenIsListed
<1>28. CASE TakerCrash
  <2>1. seen' = {}
    BY <1>28, Zenon DEF TakerCrash, Gone
  <2> QED BY <2>1 DEF SeenIsListed
<1>29. CASE TakerStart
  BY <1>29, <1>0, Zenon DEF TakerStart, world, rest, outside, caller, found
<1>30. CASE UNCHANGED bookVars
  BY <1>30, <1>0, Zenon DEF bookVars, found
<1> QED
  BY <1>1, <1>2, <1>3, <1>4, <1>5, <1>6, <1>7, <1>8, <1>9, <1>10, <1>11, <1>12, <1>13, <1>14,
     <1>15, <1>16, <1>17, <1>18, <1>19, <1>20, <1>21, <1>22, <1>23, <1>24, <1>25, <1>26, <1>27,
     <1>28, <1>29, <1>30
  DEF BookNext, Environment, Discovery, Workers, SyncService, Users, Lifetime

\* BookTypeOK is the conjunction of its parts, ...
LEMMA TypesIs == BookTypeOK <=> NetTypes /\ FoundTypes /\ ScoreTypes /\ ServiceTypes /\ CallTypes
  BY DEF BookTypeOK, NetTypes, FoundTypes, ScoreTypes, ServiceTypes, CallTypes, OneJob, Stages,
     Results

\* ... in the next state too.
LEMMA TypesNext == ASSUME NetTypes', FoundTypes', ScoreTypes', ServiceTypes', CallTypes'
  PROVE BookTypeOK'
  BY DEF BookTypeOK, NetTypes, FoundTypes, ScoreTypes, ServiceTypes, CallTypes, OneJob, Stages,
     Results

\* The taker's constructor establishes the invariant.
LEMMA Initially == BookInit => IInv
<1> SUFFICES ASSUME BookInit PROVE IInv
  OBVIOUS
<1> USE DEF BookInit
<1>1. NetTypes
  BY DEF NetTypes
<1>2. FoundTypes /\ AtHead
  BY DEF FoundTypes, AtHead
<1>3. Empty \in [Makers -> Entries] /\ \A m \in Makers : Empty[m].st = "none"
  BY Constants DEF Empty
<1>4. ScoreTypes
  BY <1>3 DEF ScoreTypes
<1>5. ServiceTypes /\ Quiet
  BY DEF ServiceTypes, Quiet, Idle, Stages
<1>6. CallTypes
  BY DEF CallTypes
<1>7. NotBlamed
  BY <1>3 DEF NotBlamed
<1>8. Owed
  BY DEF Owed, Idle
<1>9. SeenIsListed
  BY DEF SeenIsListed
<1> QED BY <1>1, <1>2, <1>4, <1>5, <1>6, <1>7, <1>8, <1>9, TypesIs DEF IInv

\* Every step keeps it.
LEMMA Steps == IInv /\ [BookNext]_bookVars => IInv'
<1> SUFFICES ASSUME IInv, [BookNext]_bookVars PROVE IInv'
  OBVIOUS
<1>0. /\ NetTypes /\ FoundTypes /\ ScoreTypes /\ ServiceTypes /\ CallTypes
      /\ AtHead /\ Quiet /\ Owed /\ NotBlamed /\ SeenIsListed
  BY TypesIs DEF IInv
<1>1. NetTypes'
  BY <1>0, NetStep
<1>2. FoundTypes' /\ AtHead'
  BY <1>0, FoundStep
<1>3. ServiceTypes' /\ Quiet'
  BY <1>0, ServiceStep
<1>4. CallTypes'
  BY <1>0, CallStep
<1>5. ScoreTypes' /\ NotBlamed' /\ Owed'
  BY <1>0, ScoreStep
<1>6. SeenIsListed'
  BY <1>0, SeenStep
<1> QED BY <1>1, <1>2, <1>3, <1>4, <1>5, <1>6, TypesNext DEF IInv

\* The inductive invariant holds in every reachable state.
THEOREM Invariant == BookSpec => []IInv
  BY Initially, Steps, PTL DEF BookSpec

\* Type correctness; with it, no two relay sessions fetch the same bond at a time
\* (SeenTxids::claim), and a bond in flight is one that some session fetches.
THEOREM TypeCorrect == BookSpec => []BookTypeOK
<1>1. IInv => BookTypeOK
  BY DEF IInv
<1> QED BY Invariant, <1>1, PTL

\* No outage of the taker's own backend counts against a maker, in memory or in offerbook.json: a
\* maker's score is at most the number of polls it failed (or a shutdown cut short) since it last
\* answered, and a maker is bad only if the user said so or it failed more than BadAfter times.
THEOREM AlwaysNotBlamed == BookSpec => []NotBlamed
<1>1. IInv => NotBlamed
  BY DEF IInv
<1> QED BY Invariant, <1>1, PTL

\* A bond that discovery skips as seen is in the registry, or has expired: no announcement is lost
\* to SeenTxids, whatever outages, restarts and expiries there were.
THEOREM AlwaysSeenIsListed == BookSpec => []SeenIsListed
<1>1. IInv => SeenIsListed
  BY DEF IInv
<1> QED BY Invariant, <1>1, PTL
=============================================================================
