------------------------------ MODULE Freshness ------------------------------
(***************************************************************************)
(* The cache and the change feed together: does what people are shown      *)
(* catch up with what was written?                                         *)
(*                                                                         *)
(* A page holds a stream open, fetches what it shows when the stream opens *)
(* and again whenever an event for its resource arrives - the part of the  *)
(* front end the feed exists for, modelled from the feed's own comments.   *)
(* An instance is a set of scenarios, one of which is chosen at the start. *)
(***************************************************************************)
EXTENDS Caching, FiniteSets

CONSTANTS
  Scenarios,    \* what may happen in this instance
  MaxRestarts   \* bound: restarts of the process, where a scenario has them

VARIABLES
  scenario,     \* the scenario chosen
  shown,        \* the revision each page shows; 0 before its first fetch
  restarts      \* restarts so far

vars == <<feedVars, cacheVars, scenario, shown, restarts>>

ScenarioType ==
  [watched : {"providers", "bookings", "requests"},
   jobs    : [Writer -> Seq({<<s>> : s \in Segments \cup {"service-requests"}} \cup
                            {<<"admin", s>> : s \in DOMAIN AdminResource})],
   visits  : SUBSET {Listing, Detail},
   opens   : Nat,         \* streams opened altogether
   warm    : BOOLEAN,     \* the version counter exists
   outage  : BOOLEAN,     \* Redis may fail to answer
   restart : BOOLEAN]     \* the process may restart

(* The calls on the lists that writers have to work off.                   *)
Calls(todo) == UNION {{w} \X DOMAIN todo[w] : w \in Writer}

ASSUME FreshnessAssumption ==
  /\ IsFiniteSet(Page) /\ IsFiniteSet(Writer)
  /\ MaxRev \in Nat \ {0} /\ MaxRestarts \in Nat
  /\ Scenarios \subseteq ScenarioType
  /\ \A s \in Scenarios :
       IsFiniteSet(Calls(s.jobs)) /\ Cardinality(Calls(s.jobs)) < MaxRev

-----------------------------------------------------------------------------

(* The answer reaches the client.                                          *)
Answer(c) ==
  /\ Reading(c, "answer")
  /\ shown' = IF c \in Page THEN [shown EXCEPT ![c] = reader[c].v] ELSE shown
  /\ reader' = [reader EXCEPT ![c] = Idle]
  /\ ReadOnly /\ UNCHANGED <<cache, late>>

Restart ==
  /\ scenario.restart /\ restarts < MaxRestarts
  /\ restarts' = restarts + 1
  /\ FeedRestarts
  /\ HandlersLost
  /\ UNCHANGED shown

Init ==
  /\ scenario \in Scenarios
  /\ watched = scenario.watched
  /\ jobs = scenario.jobs
  /\ outage = scenario.outage
  /\ visits = scenario.visits
  /\ opens = scenario.opens
  /\ cache = [k \in Keys |-> IF k = Version /\ scenario.warm THEN 1 ELSE 0]
  /\ FeedInit
  /\ CachingInit
  /\ shown = [p \in Page |-> 0]
  /\ restarts = 0

Read(c) ==
  \/ StartRead(c, Listing) /\ UNCHANGED <<window, trailing>>
  \/ /\ ReadVersion(c) \/ SetFirstVersion(c) \/ GetEntry(c) \/ Produce(c) \/ Fill(c)
     /\ UNCHANGED <<window, trailing, told>>

ReadStep(c) ==
  /\ \/ Read(c) /\ UNCHANGED shown
     \/ Answer(c) /\ UNCHANGED <<window, trailing, told>>
  /\ UNCHANGED <<watched, stream, listeners, opens, scenario, restarts>>

VisitDetail(c) ==
  /\ StartRead(c, Detail)
  /\ UNCHANGED <<watched, window, trailing, stream, listeners, opens>>
  /\ UNCHANGED <<scenario, shown, restarts>>

(* A handler under way, up to its response.                                *)
WriteStep(w) ==
  /\ \/ /\ DeleteDetail(w) \/ ReadToBump(w) \/ SetToBump(w) \/ Bump(w) \/ CommitWrite(w)
        /\ UNCHANGED <<window, trailing, told>>
     \/ Announce(w)
     \/ Respond(w)
  /\ UNCHANGED <<watched, stream, listeners, opens, scenario, shown, restarts>>

BeginWrite(w) ==
  /\ StartWrite(w)
  /\ UNCHANGED <<feedVars, scenario, shown, restarts>>

FeedStep == WindowCloses \/ TrailingFires

StreamStep(p) == Ticket(p) \/ OpenStream(p) \/ CloseStream(p)

RedisStep(k) == Deliver(k) \/ Expire(k)

Next ==
  \/ \E c \in Client : ReadStep(c) \/ VisitDetail(c)
  \/ \E w \in Writer : BeginWrite(w) \/ WriteStep(w)
  \/ /\ FeedStep \/ \E p \in Page : StreamStep(p)
     /\ UNCHANGED <<cacheVars, scenario, shown, restarts>>
  \/ /\ \E k \in Keys : RedisStep(k)
     /\ UNCHANGED <<feedVars, scenario, shown, restarts>>
  \/ Restart /\ UNCHANGED scenario

(* A request under way runs on, a page answers an event with a fetch,      *)
(* timers run out, an entry's time to live passes and Redis works its      *)
(* queue off.  Nothing makes anyone start a write, visit or connect.       *)
Fairness ==
  /\ \A c \in Page : WF_vars(ReadStep(c))
  /\ \A c \in Visitor : WF_vars(~Reading(c, "idle") /\ ReadStep(c))
  /\ \A w \in Writer : WF_vars(WriteStep(w))
  /\ WF_vars(WindowCloses /\ UNCHANGED <<cacheVars, scenario, shown, restarts>>)
  /\ WF_vars(TrailingFires /\ UNCHANGED <<cacheVars, scenario, shown, restarts>>)
  /\ \A k \in Keys :
       /\ WF_vars(Expire(k) /\ UNCHANGED <<feedVars, scenario, shown, restarts>>)
       /\ WF_vars(Deliver(k) /\ UNCHANGED <<feedVars, scenario, shown, restarts>>)

Spec == Init /\ [][Next]_vars /\ Fairness

-----------------------------------------------------------------------------
(* Properties                                                              *)

Rev == 0..MaxRev

ReaderStates == {"idle", "version", "set_version", "get", "produce", "fill", "answer"}
WriterStates == {"idle", "delete", "version", "set_version", "bump", "publish",
                 "commit", "respond"}

(* Every variable holds a value of its type, and no counter passes the     *)
(* bound of the instance.                                                  *)
FreshnessTypeOK ==
  /\ scenario \in Scenarios
  /\ watched = scenario.watched /\ outage = scenario.outage /\ visits = scenario.visits
  /\ window \in BOOLEAN /\ trailing \in {"none", "set", "due"}
  /\ stream \in [Page -> {"none", "ticket", "open"}] /\ told \in [Page -> BOOLEAN]
  /\ listeners \in 0..scenario.opens /\ opens \in 0..scenario.opens
  /\ db \in Rev /\ cache \in [Keys -> Rev] /\ shown \in [Page -> Rev]
  /\ late \subseteq [key : Keys, value : Rev]
  /\ reader \in [Client -> [at : ReaderStates, key : Keys \cup {Listing}, v : Rev]]
  /\ writer \in [Writer -> [at : WriterStates, v : Rev]]
  /\ DOMAIN jobs = Writer
  /\ restarts \in 0..MaxRestarts

(* Writes that have changed the database or are about to, and have not     *)
(* finished invalidating.                                                  *)
Unsettled == {w \in Writer : writer[w].at \notin {"idle", "respond"}}

(* The writers that have anything to write.                                *)
Busy == {w \in Writer : scenario.jobs[w] # <<>>}

(* What the cache can guarantee at all: invalidation after the commit, a   *)
(* counter that exists, a Redis that answers, and one writer, or two with  *)
(* one write each - with a third the counter can move backwards.           *)
Orderly ==
  /\ scenario.warm /\ ~scenario.outage /\ ~scenario.restart
  /\ \/ Cardinality(Busy) < 2
     \/ Cardinality(Busy) < 3 /\ \A w \in Writer : Len(scenario.jobs[w]) < 2
  /\ \A w \in Writer : \A i \in DOMAIN scenario.jobs[w] :
       Invalidates(scenario.jobs[w][i]) = "after"

(* The listing a reader would be given at the current version is the       *)
(* current one, whatever slow readers store under the versions they read:  *)
(* the version in the key is what keeps a fill that missed the write out.  *)
ReachableListsAreCurrent ==
  Orderly /\ Unsettled = {} /\ cache[Version] # 0
    => cache[ListKey(cache[Version])] \in {0, db}

(* Lost or late commands, restarts, colliding bumps and fills that race an *)
(* invalidation leave stale entries behind, and they do not last: once     *)
(* writing stops, the cache ends up with nothing but current values.       *)
StaleEntriesExpire == <>[](\A k \in Lists \cup {Detail} : cache[k] \in {0, db})

(* What a page shows is read past the cache, or written in a way the cache *)
(* keeps up with.                                                          *)
Announced ==
  \A w \in Writer : \A i \in DOMAIN scenario.jobs[w] :
    watched \in ResourcesFor(scenario.jobs[w][i])

(* No write is lost on a page: coalesced, in the middle of a fetch or in   *)
(* the wake of a restart, the last change reaches every page whose stream  *)
(* is open.                                                                *)
PagesCatchUp ==
  (Orderly \/ ~Cached) /\ Announced
    => <>[](\A p \in Page : stream[p] = "open" => shown[p] = db)

(* The count of connections is the number of streams that are open: a      *)
(* ticket that is refused and a page that goes away leave nothing behind.  *)
ListenersAreStreams == listeners = Cardinality({p \in Page : stream[p] = "open"})

(* A page whose resource was changed is told, whichever route the change   *)
(* came in on: what the interceptor says of itself.                        *)
EveryWriteReachesPages ==
  (Orderly \/ ~Cached)
    => <>[](\A p \in Page : stream[p] = "open" => shown[p] = db)
=============================================================================
