---------------------------- MODULE FreshnessProofs ----------------------------
(***************************************************************************)
(* Proofs about Freshness: that no counter passes its bound, that the feed *)
(* counts its streams, and that the list at the current version is current *)
(* whatever readers and writers are in the middle of.                      *)
(***************************************************************************)
EXTENDS Freshness, FiniteSetTheorems, SequenceTheorems, TLAPS

Paths == {<<s>> : s \in Segments \cup {"service-requests"}} \cup
         {<<"admin", s>> : s \in DOMAIN AdminResource}

LEMMA InScenario ==
  ASSUME scenario \in Scenarios
  PROVE  /\ scenario.watched \in {"providers", "bookings", "requests"}
         /\ scenario.jobs \in [Writer -> Seq(Paths)]
         /\ scenario.visits \subseteq {Listing, Detail}
         /\ scenario.opens \in Nat
         /\ scenario.warm \in BOOLEAN /\ scenario.outage \in BOOLEAN
         /\ scenario.restart \in BOOLEAN
         /\ IsFiniteSet(Calls(scenario.jobs))
         /\ Cardinality(Calls(scenario.jobs)) < MaxRev
<1>1. /\ scenario \in ScenarioType
      /\ IsFiniteSet(Calls(scenario.jobs))
      /\ Cardinality(Calls(scenario.jobs)) < MaxRev
  BY FreshnessAssumption DEF FreshnessAssumption
<1>2. QED
  BY <1>1 DEF ScenarioType, Paths

-----------------------------------------------------------------------------
(* Sets of calls still to be made                                          *)

(* f[w] calls of each writer w.                                            *)
Left(f) == {c \in Writer \X Nat : c[2] \in 1 .. f[c[1]]}

LEMMA LeftGrows ==
  ASSUME NEW f \in [Writer -> Nat], NEW g \in [Writer -> Nat],
         \A w \in Writer : f[w] <= g[w], IsFiniteSet(Left(g))
  PROVE  /\ IsFiniteSet(Left(f))
         /\ Cardinality(Left(f)) \in Nat /\ Cardinality(Left(g)) \in Nat
         /\ Cardinality(Left(f)) <= Cardinality(Left(g))
<1>1. Left(f) \subseteq Left(g)
  BY DEF Left
<1>2. QED
  BY <1>1, FS_Subset, FS_CardinalityType

(* One call fewer of one writer is one call fewer.                         *)
LEMMA LeftShrinks ==
  ASSUME NEW f \in [Writer -> Nat], NEW g \in [Writer -> Nat],
         NEW w \in Writer, f[w] = g[w] + 1,
         \A x \in Writer : x # w => f[x] = g[x], IsFiniteSet(Left(f))
  PROVE  /\ IsFiniteSet(Left(g))
         /\ Cardinality(Left(f)) \in Nat /\ Cardinality(Left(g)) \in Nat
         /\ Cardinality(Left(f)) = Cardinality(Left(g)) + 1
<1> DEFINE last == <<w, f[w]>>
<1>1. last \in Left(f)
  BY DEF Left
<1>2. ASSUME NEW c \in Left(f), c # last
      PROVE  c \in Left(g)
  <2>1. PICK x \in Writer, n \in Nat : c = <<x, n>>
    BY DEF Left
  <2>2. n \in 1 .. f[x]
    BY <2>1 DEF Left
  <2>3. CASE x = w
    BY <1>2, <2>1, <2>2, <2>3 DEF Left
  <2>4. CASE x # w
    BY <2>1, <2>2, <2>4 DEF Left
  <2> QED BY <2>3, <2>4
<1>3. ASSUME NEW c \in Left(g)
      PROVE  c \in Left(f) /\ c # last
  <2>1. PICK x \in Writer, n \in Nat : c = <<x, n>>
    BY DEF Left
  <2>2. n \in 1 .. g[x]
    BY <2>1 DEF Left
  <2>3. CASE x = w
    BY <2>1, <2>2, <2>3 DEF Left
  <2>4. CASE x # w
    BY <2>1, <2>2, <2>4 DEF Left
  <2> QED BY <2>3, <2>4
<1>4. Left(g) = Left(f) \ {last}
  BY <1>2, <1>3
<1> HIDE DEF last
<1>5. IsFiniteSet(Left(g)) /\ Cardinality(Left(g)) = Cardinality(Left(f)) - 1
  BY <1>1, <1>4, FS_RemoveElement
<1>6. Cardinality(Left(f)) \in Nat /\ Cardinality(Left(g)) \in Nat
  BY <1>5, FS_CardinalityType
<1>7. QED
  BY <1>5, <1>6

LEMMA CallsAreLeft ==
  ASSUME NEW todo \in [Writer -> Seq(Paths)]
  PROVE  Calls(todo) = Left([w \in Writer |-> Len(todo[w])])
<1>1. \A w \in Writer : Len(todo[w]) \in Nat /\ DOMAIN todo[w] = 1 .. Len(todo[w])
  BY LenProperties
<1> DEFINE f == [w \in Writer |-> Len(todo[w])]
<1>2. ASSUME NEW c \in Left(f) PROVE c \in Calls(todo)
  <2>1. PICK w \in Writer, n \in Nat : c = <<w, n>>
    BY DEF Left
  <2>2. n \in DOMAIN todo[w]
    BY <1>1, <2>1 DEF Left
  <2> QED BY <2>1, <2>2 DEF Calls
<1>3. ASSUME NEW c \in Calls(todo) PROVE c \in Left(f)
  <2>1. PICK w \in Writer : c \in {w} \X DOMAIN todo[w]
    BY DEF Calls
  <2>2. PICK n \in 1 .. Len(todo[w]) : c = <<w, n>>
    BY <1>1, <2>1
  <2> QED BY <1>1, <2>2 DEF Left
<1> QED BY <1>2, <1>3

-----------------------------------------------------------------------------
(* The invariant.                                                          *)

(* A call whose writer has bumped the version, or never will.              *)
Bumped == {"publish", "commit", "respond"}

ToBump ==
  [w \in Writer |-> Len(jobs[w]) - (IF writer[w].at \in Bumped THEN 1 ELSE 0)]

(* A call that has moved the revision of the database.                     *)
Counted(w) ==
  writer[w].at # "idle" /\ (Invalidates(Path(w)) # "inside" \/ writer[w].at = "respond")

ToWrite == [w \in Writer |-> Len(jobs[w]) - (IF Counted(w) THEN 1 ELSE 0)]

(* How far the version can have come.                                      *)
Reach == MaxRev - Cardinality(Left(ToBump))

ReaderType == [at : ReaderStates, key : Keys \cup {Listing}, v : Rev]
WriterType == [at : WriterStates, v : Rev]

ScenarioOK ==
  /\ scenario \in Scenarios /\ restarts \in 0..MaxRestarts
  /\ watched = scenario.watched /\ outage = scenario.outage /\ visits = scenario.visits

(* The feed, and the bound on its streams.                                 *)
FeedOK ==
  /\ window \in BOOLEAN /\ trailing \in {"none", "set", "due"}
  /\ stream \in [Page -> {"none", "ticket", "open"}] /\ told \in [Page -> BOOLEAN]
  /\ listeners \in Nat /\ opens \in Nat /\ listeners + opens <= scenario.opens
  /\ ListenersAreStreams

(* A writer that is under way has its call at the head of its list.        *)
JobsOK ==
  /\ jobs \in [Writer -> Seq(Paths)]
  /\ writer \in [Writer -> WriterType]
  /\ \A w \in Writer : writer[w].at # "idle" => jobs[w] # <<>>
  /\ \A w \in Writer : writer[w].at = "commit" => Invalidates(Path(w)) = "inside"

(* The revision leaves room for the writes to come.                        *)
RevisionOK ==
  /\ IsFiniteSet(Left(ToWrite))
  /\ db \in Nat \ {0} /\ db + Cardinality(Left(ToWrite)) <= MaxRev

(* A version leaves room for the bumps to come: in Redis, in a command     *)
(* that is late, in the key of a reader and in what a writer will bump.    *)
VersionsOK ==
  /\ IsFiniteSet(Left(ToBump)) /\ Reach \in 1..MaxRev
  /\ cache[Version] <= Reach
  /\ \A c \in late : c.key = Version => c.value <= Reach
  /\ \A w \in Writer : writer[w].at = "bump" => writer[w].v <= Reach

EntriesOK ==
  /\ cache \in [Keys -> Rev]
  /\ late \subseteq [key : Keys, value : Rev]
  /\ reader \in [Client -> ReaderType]
  /\ \A c \in Client :
       reader[c].at \in {"get", "fill"} \/ (Cached /\ reader[c].at = "produce")
         => reader[c].key \in Keys \ {Version}
  /\ shown \in [Page -> Rev]

Base == ScenarioOK /\ FeedOK /\ JobsOK /\ RevisionOK /\ VersionsOK /\ EntriesOK

-----------------------------------------------------------------------------
(* Vocabulary.                                                             *)

LEMMA KeyFacts ==
  /\ Version \in Keys /\ Detail \in Keys /\ Version # Detail
  /\ \A v : v \in 1..MaxRev => ListKey(v) \in Keys \ {Version}
  /\ Expiring \subseteq Keys \ {Version}
  /\ \A v : ListKey(v) # Version /\ ListKey(v) # Detail
  /\ \A u, v : ListKey(u) = ListKey(v) => u = v
BY DEF Version, Detail, Keys, Lists, ListKey, Expiring

LEMMA RevFacts == MaxRev \in Nat \ {0} /\ Rev \subseteq Nat /\ 0 \in Rev /\ 1..MaxRev \subseteq Rev
BY FreshnessAssumption DEF FreshnessAssumption, Rev

LEMMA IdleTyped ==
  Idle \in ReaderType /\ [at |-> "idle", v |-> 0] \in WriterType /\ Idle.at = "idle"
BY RevFacts DEF Idle, ReaderType, WriterType, ReaderStates, WriterStates, Keys

LEMMA CachedHolds == Cached \in BOOLEAN
BY DEF Cached

-----------------------------------------------------------------------------
(* The feed.                                                               *)

Open == {p \in Page : stream[p] = "open"}

LEMMA OpenIsFinite == IsFiniteSet(Open) /\ Cardinality(Open) \in Nat
<1>1. IsFiniteSet(Page) /\ Open \in SUBSET Page
  BY FreshnessAssumption DEF FreshnessAssumption, Open
<1>2. QED
  BY <1>1, FS_Subset, FS_CardinalityType

LEMMA EmitKeeps ==
  ASSUME FeedOK, Emit
  PROVE  window' \in BOOLEAN /\ told' \in [Page -> BOOLEAN]
<1>1. told' = [p \in Page |-> told[p] \/ stream[p] = "open"] /\ window' = TRUE
  BY DEF Emit
<1>2. \A p \in Page : (told[p] \/ stream[p] = "open") \in BOOLEAN
  OBVIOUS
<1>3. QED
  BY <1>1, <1>2

LEMMA PublishKeeps ==
  ASSUME NEW resources, FeedOK, Publish(resources)
  PROVE  window' \in BOOLEAN /\ trailing' \in {"none", "set", "due"}
         /\ told' \in [Page -> BOOLEAN]
<1>1. CASE UNCHANGED <<window, trailing, told>>
  BY <1>1 DEF FeedOK
<1>2. CASE Emit /\ UNCHANGED trailing
  BY <1>2, EmitKeeps DEF FeedOK
<1>3. CASE /\ trailing' = IF trailing = "none" THEN "set" ELSE trailing
           /\ UNCHANGED <<window, told>>
  BY <1>3 DEF FeedOK
<1>4. QED
  BY <1>1, <1>2, <1>3 DEF Publish

(* Steps that touch no stream.                                             *)
LEMMA StreamsStand ==
  ASSUME FeedOK, UNCHANGED <<stream, listeners, opens>>, scenario' = scenario,
         window' \in BOOLEAN, trailing' \in {"none", "set", "due"},
         told' \in [Page -> BOOLEAN]
  PROVE  FeedOK'
BY DEF FeedOK, ListenersAreStreams

LEMMA TicketKeeps ==
  ASSUME NEW p \in Page, FeedOK, Ticket(p), scenario' = scenario
  PROVE  FeedOK'
<1>1. stream' \in [Page -> {"none", "ticket", "open"}]
  BY DEF FeedOK, Ticket
<1>2. Open' = Open
  BY DEF Open, Ticket, FeedOK
<1>3. QED
  BY <1>1, <1>2 DEF FeedOK, Ticket, ListenersAreStreams, Open

LEMMA OpenStreamKeeps ==
  ASSUME NEW p \in Page, FeedOK, OpenStream(p), scenario' = scenario,
         scenario.opens \in Nat
  PROVE  FeedOK'
<1>1. stream \in [Page -> {"none", "ticket", "open"}] /\ stream[p] = "ticket"
  BY DEF FeedOK, OpenStream
<1>2. CASE /\ opens > 0
           /\ stream' = [stream EXCEPT ![p] = "open"]
           /\ listeners' = listeners + 1
           /\ opens' = opens - 1
           /\ told' = [told EXCEPT ![p] = TRUE]
  <2>1. stream' \in [Page -> {"none", "ticket", "open"}] /\ told' \in [Page -> BOOLEAN]
    BY <1>2 DEF FeedOK
  <2>2. Open' = Open \cup {p} /\ p \notin Open
    BY <1>1, <1>2 DEF Open
  <2>3. Cardinality(Open') = Cardinality(Open) + 1
    BY <2>2, FS_AddElement, OpenIsFinite
  <2>4. listeners = Cardinality(Open)
    BY DEF FeedOK, ListenersAreStreams, Open
  <2>5. ListenersAreStreams'
    BY <1>2, <2>3, <2>4 DEF ListenersAreStreams, Open
  <2> QED
    BY <1>2, <2>1, <2>5 DEF FeedOK, OpenStream
<1>3. CASE stream' = [stream EXCEPT ![p] = "none"] /\ UNCHANGED <<told, listeners, opens>>
  <2>1. stream' \in [Page -> {"none", "ticket", "open"}]
    BY <1>3 DEF FeedOK
  <2>2. Open' = Open
    BY <1>1, <1>3 DEF Open
  <2> QED
    BY <1>3, <2>1, <2>2 DEF FeedOK, OpenStream, ListenersAreStreams, Open
<1>4. QED
  BY <1>2, <1>3 DEF OpenStream

LEMMA CloseStreamKeeps ==
  ASSUME NEW p \in Page, FeedOK, CloseStream(p), scenario' = scenario,
         scenario.opens \in Nat
  PROVE  FeedOK'
<1>1. stream \in [Page -> {"none", "ticket", "open"}] /\ stream[p] = "open"
  BY DEF FeedOK, CloseStream
<1>2. stream' \in [Page -> {"none", "ticket", "open"}] /\ told' \in [Page -> BOOLEAN]
  BY DEF FeedOK, CloseStream
<1>3. Open' = Open \ {p} /\ p \in Open
  BY <1>1 DEF Open, CloseStream
<1>4. Cardinality(Open') = Cardinality(Open) - 1 /\ IsFiniteSet(Open')
  BY <1>3, FS_RemoveElement, OpenIsFinite
<1>5. Cardinality(Open') \in Nat
  BY <1>4, FS_CardinalityType
<1>6. listeners = Cardinality(Open)
  BY DEF FeedOK, ListenersAreStreams, Open
<1>7. listeners' = listeners - 1 /\ listeners' \in Nat
  BY <1>4, <1>5, <1>6, OpenIsFinite DEF CloseStream
<1>8. ListenersAreStreams'
  BY <1>4, <1>6, <1>7 DEF ListenersAreStreams, Open
<1>9. QED
  BY <1>2, <1>7, <1>8 DEF FeedOK, CloseStream

LEMMA RestartEmptiesFeed ==
  ASSUME FeedOK, FeedRestarts, scenario' = scenario, scenario.opens \in Nat
  PROVE  FeedOK'
<1>1. Open' = {}
  BY DEF Open, FeedRestarts
<1>2. ListenersAreStreams'
  BY <1>1, FS_EmptySet DEF ListenersAreStreams, Open, FeedRestarts
<1>3. stream' \in [Page -> {"none", "ticket", "open"}] /\ told' \in [Page -> BOOLEAN]
  BY DEF FeedRestarts
<1>4. window' \in BOOLEAN /\ trailing' \in {"none", "set", "due"}
  BY DEF FeedRestarts
<1>5. listeners' \in Nat /\ opens' \in Nat /\ listeners' + opens' <= scenario'.opens
  <2>1. listeners' = 0 /\ opens' = opens
    BY DEF FeedRestarts
  <2>2. listeners \in Nat /\ opens \in Nat /\ listeners + opens <= scenario.opens
    BY DEF FeedOK
  <2>3. opens <= scenario.opens
    BY <2>2
  <2> QED BY <2>1, <2>2, <2>3
<1>6. QED
  BY <1>2, <1>3, <1>4, <1>5 DEF FeedOK

(* Every step keeps the count of the streams.                              *)
LEMMA FeedStepKeeps ==
  ASSUME Base, [Next]_vars
  PROVE  FeedOK'
<1>1. FeedOK /\ scenario.opens \in Nat
  BY InScenario DEF Base, ScenarioOK
<1>2. ASSUME NEW c \in Client, ReadStep(c)
      PROVE  FeedOK'
  <2>1. UNCHANGED <<stream, listeners, opens, scenario, window, trailing>>
    BY <1>2 DEF ReadStep, Read
  <2>2. told' \in [Page -> BOOLEAN]
    BY <1>1, <1>2 DEF ReadStep, Read, StartRead, FeedOK
  <2> QED BY <1>1, <2>1, <2>2, StreamsStand DEF FeedOK
<1>3. ASSUME NEW c \in Client, VisitDetail(c)
      PROVE  FeedOK'
  <2>1. UNCHANGED <<stream, listeners, opens, scenario, window, trailing>>
    BY <1>3 DEF VisitDetail
  <2>2. told' \in [Page -> BOOLEAN]
    BY <1>1, <1>3 DEF VisitDetail, StartRead, FeedOK
  <2> QED BY <1>1, <2>1, <2>2, StreamsStand DEF FeedOK
<1>4. ASSUME NEW w \in Writer, WriteStep(w)
      PROVE  FeedOK'
  <2>1. UNCHANGED <<stream, listeners, opens, scenario>>
    BY <1>4 DEF WriteStep
  <2>2. \/ UNCHANGED <<window, trailing, told>>
        \/ Publish({"providers"})
        \/ Publish(ResourcesFor(Path(w)))
    BY <1>4 DEF WriteStep, Announce, Respond
  <2>3. window' \in BOOLEAN /\ trailing' \in {"none", "set", "due"} /\ told' \in [Page -> BOOLEAN]
    <3>1. CASE UNCHANGED <<window, trailing, told>>
      BY <1>1, <3>1 DEF FeedOK
    <3>2. CASE Publish({"providers"})
      BY <1>1, <3>2, PublishKeeps
    <3>3. CASE Publish(ResourcesFor(Path(w)))
      BY <1>1, <3>3, PublishKeeps
    <3> QED BY <2>2, <3>1, <3>2, <3>3
  <2> QED BY <1>1, <2>1, <2>3, StreamsStand
<1>5. ASSUME NEW p \in Page, StreamStep(p), scenario' = scenario
      PROVE  FeedOK'
  BY <1>1, <1>5, TicketKeeps, OpenStreamKeeps, CloseStreamKeeps DEF StreamStep
<1>6. ASSUME WindowCloses, scenario' = scenario
      PROVE  FeedOK'
  <2>1. UNCHANGED <<stream, listeners, opens, told>> /\ window' = FALSE
    BY <1>6 DEF WindowCloses
  <2>2. trailing' \in {"none", "set", "due"}
    BY <1>1, <1>6 DEF WindowCloses, FeedOK
  <2> QED BY <1>1, <1>6, <2>1, <2>2, StreamsStand DEF FeedOK
<1>7. ASSUME TrailingFires, scenario' = scenario
      PROVE  FeedOK'
  <2>1. UNCHANGED <<stream, listeners, opens>> /\ trailing' = "none" /\ Emit
    BY <1>7 DEF TrailingFires
  <2> QED BY <1>1, <1>7, <2>1, EmitKeeps, StreamsStand
<1>8. ASSUME UNCHANGED <<feedVars, scenario>>
      PROVE  FeedOK'
  BY <1>1, <1>8 DEF feedVars, FeedOK, ListenersAreStreams
<1>9. ASSUME Restart, scenario' = scenario
      PROVE  FeedOK'
  BY <1>1, <1>9, RestartEmptiesFeed DEF Restart
<1>10. QED
  BY <1>2, <1>3, <1>4, <1>5, <1>6, <1>7, <1>8, <1>9
  DEF Next, BeginWrite, FeedStep, vars

-----------------------------------------------------------------------------
(* Redis.                                                                  *)

RedisTyped == cache \in [Keys -> Rev] /\ late \subseteq [key : Keys, value : Rev]

Within(bound) ==
  cache[Version] <= bound /\ \A c \in late : c.key = Version => c.value <= bound

LEMMA StoreKeeps ==
  ASSUME NEW key \in Keys, NEW value \in Rev, NEW bound \in Nat, RedisTyped,
         Within(bound), key = Version => value <= bound, Store(key, value)
  PROVE  RedisTyped' /\ cache'[Version] <= bound
         /\ \A c \in late' : c.key = Version => c.value <= bound
<1> DEFINE new == [key |-> key, value |-> value]
<1>1. new \in [key : Keys, value : Rev] /\ new.key = key /\ new.value = value
  OBVIOUS
<1>2. CASE cache' = [cache EXCEPT ![key] = value] /\ UNCHANGED late
  BY <1>2, KeyFacts DEF RedisTyped, Within
<1>3. CASE late' \in {late, late \cup {new}} /\ UNCHANGED cache
  <2>1. \A c \in late' : c \in late \/ c = new
    BY <1>3
  <2> HIDE DEF new
  <2> QED BY <1>1, <1>3, <2>1 DEF RedisTyped, Within
<1>4. QED
  BY <1>2, <1>3 DEF Store

LEMMA DeliverKeeps ==
  ASSUME NEW key \in Keys, NEW bound \in Nat, RedisTyped, Within(bound), Deliver(key)
  PROVE  RedisTyped' /\ cache'[Version] <= bound
         /\ \A c \in late' : c.key = Version => c.value <= bound
<1>1. PICK c \in late : /\ c.key = key
                        /\ cache' = [cache EXCEPT ![key] = c.value]
                        /\ late' = late \ {c}
  BY DEF Deliver
<1>2. c.value \in Rev
  BY <1>1 DEF RedisTyped
<1>3. QED
  BY <1>1, <1>2, KeyFacts DEF RedisTyped, Within

LEMMA ExpireKeeps ==
  ASSUME NEW key \in Keys, NEW bound \in Nat, RedisTyped, Within(bound), Expire(key)
  PROVE  RedisTyped' /\ cache'[Version] <= bound
         /\ \A c \in late' : c.key = Version => c.value <= bound
BY KeyFacts, RevFacts DEF RedisTyped, Within, Expire

-----------------------------------------------------------------------------
(* The readers.                                                            *)

LEMMA CountsStand ==
  ASSUME UNCHANGED <<jobs, writer>>
  PROVE  ToBump' = ToBump /\ ToWrite' = ToWrite /\ Reach' = Reach
BY DEF ToBump, ToWrite, Reach, Counted, Path

(* What a reader does to Redis and to itself, writers standing still.      *)
LEMMA ReaderKeeps ==
  ASSUME Base, NEW c \in Client, NEW r \in ReaderType,
         r.at \in {"get", "fill"} \/ (Cached /\ r.at = "produce") => r.key \in Keys \ {Version},
         reader' = [reader EXCEPT ![c] = r],
         UNCHANGED <<db, jobs, writer, watched>>, shown' \in [Page -> Rev],
         \/ UNCHANGED <<cache, late>>
         \/ \E key \in Keys, value \in Rev :
              (key = Version => value <= 1) /\ Store(key, value)
  PROVE  (JobsOK /\ RevisionOK /\ VersionsOK /\ EntriesOK)'
<1>1. ToBump' = ToBump /\ ToWrite' = ToWrite /\ Reach' = Reach
  BY CountsStand
<1>2. JobsOK'
  BY DEF Base, JobsOK, Path
<1>3. RevisionOK'
  BY <1>1 DEF Base, RevisionOK
<1>4. RedisTyped /\ Within(Reach) /\ Reach \in Nat /\ 1 <= Reach
  BY RevFacts DEF Base, VersionsOK, EntriesOK, RedisTyped, Within
<1>5. RedisTyped' /\ cache'[Version] <= Reach
         /\ \A d \in late' : d.key = Version => d.value <= Reach
  <2>1. CASE UNCHANGED <<cache, late>>
    BY <1>4, <2>1 DEF RedisTyped, Within
  <2>2. ASSUME NEW key \in Keys, NEW value \in Rev, key = Version => value <= 1,
               Store(key, value)
        PROVE  RedisTyped' /\ cache'[Version] <= Reach
                 /\ \A d \in late' : d.key = Version => d.value <= Reach
    <3>1. key = Version => value <= Reach
      BY <1>4, <2>2, RevFacts
    <3> QED BY <1>4, <2>2, <3>1, StoreKeeps
  <2> QED BY <2>1, <2>2
<1>6. VersionsOK'
  BY <1>1, <1>5 DEF Base, VersionsOK
<1>7. EntriesOK'
  <2>1. reader' \in [Client -> ReaderType]
    BY DEF Base, EntriesOK
  <2>2. Cached' = Cached
    BY DEF Cached
  <2>3. ASSUME NEW d \in Client,
               reader'[d].at \in {"get", "fill"} \/ (Cached /\ reader'[d].at = "produce")
        PROVE  reader'[d].key \in Keys \ {Version}
    <3>1. CASE d = c
      BY <2>3, <3>1 DEF Base, EntriesOK
    <3>2. CASE d # c
      BY <2>3, <3>2 DEF Base, EntriesOK
    <3> QED BY <3>1, <3>2
  <2> QED BY <1>5, <2>1, <2>2, <2>3 DEF EntriesOK, RedisTyped
<1>8. QED
  BY <1>2, <1>3, <1>6, <1>7

(* What a reader may become.                                               *)
Becomes(c, r, stores) ==
  /\ r \in ReaderType
  /\ r.at \in {"get", "fill"} \/ (Cached /\ r.at = "produce") => r.key \in Keys \ {Version}
  /\ reader' = [reader EXCEPT ![c] = r]
  /\ IF stores
     THEN \E key \in Keys, value \in Rev : (key = Version => value <= 1) /\ Store(key, value)
     ELSE UNCHANGED <<cache, late>>

LEMMA ReaderMoves ==
  ASSUME Base, NEW c \in Client,
         \/ \E key \in {Listing, Detail} : StartRead(c, key)
         \/ ReadVersion(c) \/ SetFirstVersion(c) \/ GetEntry(c) \/ Produce(c) \/ Fill(c)
  PROVE  /\ \E r \in ReaderType, stores \in BOOLEAN : Becomes(c, r, stores)
         /\ UNCHANGED <<db, jobs, writer>>
<1>1. reader[c] \in ReaderType /\ reader \in [Client -> ReaderType]
  BY DEF Base, EntriesOK
<1>2. cache \in [Keys -> Rev] /\ db \in Rev
  <2>1. db \in Nat /\ db + Cardinality(Left(ToWrite)) <= MaxRev
        /\ Cardinality(Left(ToWrite)) \in Nat
    BY FS_CardinalityType DEF Base, RevisionOK
  <2>2. db \in Rev
    BY <2>1, RevFacts DEF Rev
  <2> QED BY <2>2 DEF Base, EntriesOK
<1>3. Listing \in Keys \cup {Listing} /\ Detail \in Keys \ {Version}
  BY KeyFacts
<1>4. ASSUME NEW key \in {Listing, Detail}, StartRead(c, key)
      PROVE  /\ \E r \in ReaderType, stores \in BOOLEAN : Becomes(c, r, stores)
             /\ UNCHANGED <<db, jobs, writer>>
  <2> DEFINE r == [at |-> IF ~Cached THEN "produce" ELSE IF key = Detail THEN "get" ELSE "version",
                   key |-> key, v |-> 0]
  <2>1. reader' = [reader EXCEPT ![c] = r] /\ UNCHANGED <<cache, late, db, jobs, writer>>
    BY <1>4 DEF StartRead, Goes, ReadOnly
  <2>2. r \in ReaderType
    BY KeyFacts, RevFacts DEF ReaderType, ReaderStates
  <2>3. r.at \in {"get", "fill"} \/ (Cached /\ r.at = "produce") => r.key \in Keys \ {Version}
    BY <1>3
  <2> QED BY <2>1, <2>2, <2>3 DEF Becomes
<1>5. ASSUME ReadVersion(c)
      PROVE  /\ \E r \in ReaderType, stores \in BOOLEAN : Becomes(c, r, stores)
             /\ UNCHANGED <<db, jobs, writer>>
  <2>1. PICK v \in Answers(Version) :
          IF v = 0 THEN Goes(c, "set_version", Listing, 0) ELSE Goes(c, "get", ListKey(v), 0)
    BY <1>5 DEF ReadVersion
  <2>2. UNCHANGED <<cache, late, db, jobs, writer>>
    BY <1>5 DEF ReadVersion, ReadOnly
  <2>3. v \in Rev
    BY <1>2, KeyFacts, RevFacts DEF Answers
  <2>4. CASE v = 0
    <3> DEFINE r == [at |-> "set_version", key |-> Listing, v |-> 0]
    <3>1. r \in ReaderType
      BY RevFacts DEF ReaderType, ReaderStates
    <3>2. reader' = [reader EXCEPT ![c] = r]
      BY <2>1, <2>4 DEF Goes
    <3> QED BY <2>2, <3>1, <3>2 DEF Becomes
  <2>5. CASE v # 0
    <3> DEFINE r == [at |-> "get", key |-> ListKey(v), v |-> 0]
    <3>1. ListKey(v) \in Keys \ {Version}
      BY <2>3, <2>5, KeyFacts, RevFacts DEF Rev
    <3>2. r \in ReaderType
      BY <3>1, RevFacts DEF ReaderType, ReaderStates
    <3>3. reader' = [reader EXCEPT ![c] = r]
      BY <2>1, <2>5 DEF Goes
    <3> QED BY <2>2, <3>1, <3>2, <3>3 DEF Becomes
  <2> QED BY <2>4, <2>5
<1>6. ASSUME SetFirstVersion(c)
      PROVE  /\ \E r \in ReaderType, stores \in BOOLEAN : Becomes(c, r, stores)
             /\ UNCHANGED <<db, jobs, writer>>
  <2> DEFINE r == [at |-> "get", key |-> ListKey(1), v |-> 0]
  <2>1. ListKey(1) \in Keys \ {Version} /\ 1 \in Rev /\ Version \in Keys
    BY KeyFacts, RevFacts DEF Rev
  <2>2. r \in ReaderType
    BY <2>1, RevFacts DEF ReaderType, ReaderStates
  <2>3. reader' = [reader EXCEPT ![c] = r] /\ Store(Version, 1) /\ UNCHANGED <<db, jobs, writer>>
    BY <1>6 DEF SetFirstVersion, Goes, ReadOnly
  <2>4. Becomes(c, r, TRUE)
    BY <2>1, <2>2, <2>3 DEF Becomes
  <2> QED BY <2>2, <2>3, <2>4
<1>7. ASSUME GetEntry(c)
      PROVE  /\ \E r \in ReaderType, stores \in BOOLEAN : Becomes(c, r, stores)
             /\ UNCHANGED <<db, jobs, writer>>
  <2>1. reader[c].at = "get" /\ reader[c].key \in Keys \ {Version}
    BY <1>7 DEF GetEntry, Reading, Base, EntriesOK
  <2>2. PICK hit \in Answers(reader[c].key) :
          Goes(c, IF hit = 0 THEN "produce" ELSE "answer", reader[c].key, hit)
    BY <1>7 DEF GetEntry
  <2>3. hit \in Rev
    BY <1>2, <2>1, RevFacts DEF Answers
  <2> DEFINE r == [at |-> IF hit = 0 THEN "produce" ELSE "answer", key |-> reader[c].key, v |-> hit]
  <2>4. r \in ReaderType
    BY <2>1, <2>3 DEF ReaderType, ReaderStates
  <2>5. reader' = [reader EXCEPT ![c] = r] /\ UNCHANGED <<cache, late, db, jobs, writer>>
    BY <1>7, <2>2 DEF GetEntry, Goes, ReadOnly
  <2> QED BY <2>1, <2>4, <2>5 DEF Becomes
<1>8. ASSUME Produce(c)
      PROVE  /\ \E r \in ReaderType, stores \in BOOLEAN : Becomes(c, r, stores)
             /\ UNCHANGED <<db, jobs, writer>>
  <2> DEFINE r == [at |-> IF Cached THEN "fill" ELSE "answer", key |-> reader[c].key, v |-> db]
  <2>2. reader[c].key \in Keys \cup {Listing}
    BY <1>1 DEF ReaderType
  <2>3. r \in ReaderType
    BY <1>2, <2>2 DEF ReaderType, ReaderStates
  <2>4. reader' = [reader EXCEPT ![c] = r] /\ UNCHANGED <<cache, late, db, jobs, writer>>
    BY <1>8 DEF Produce, Goes, ReadOnly
  <2>5. r.at \in {"get", "fill"} \/ (Cached /\ r.at = "produce") => r.key \in Keys \ {Version}
    BY <1>8 DEF Produce, Reading, Base, EntriesOK
  <2> QED BY <2>3, <2>4, <2>5 DEF Becomes
<1>9. ASSUME Fill(c)
      PROVE  /\ \E r \in ReaderType, stores \in BOOLEAN : Becomes(c, r, stores)
             /\ UNCHANGED <<db, jobs, writer>>
  <2> DEFINE r == [at |-> "answer", key |-> reader[c].key, v |-> reader[c].v]
  <2>1. reader[c].key \in Keys \ {Version} /\ reader[c].v \in Rev
    BY <1>1, <1>9 DEF Fill, Reading, Base, EntriesOK, ReaderType
  <2>2. r \in ReaderType
    BY <2>1 DEF ReaderType, ReaderStates
  <2>3. reader' = [reader EXCEPT ![c] = r] /\ Store(reader[c].key, reader[c].v)
        /\ UNCHANGED <<db, jobs, writer>>
    BY <1>9 DEF Fill, Goes, ReadOnly
  <2>4. Becomes(c, r, TRUE)
    BY <2>1, <2>2, <2>3 DEF Becomes
  <2> QED BY <2>2, <2>3, <2>4
<1>10. QED
  BY <1>4, <1>5, <1>6, <1>7, <1>8, <1>9

LEMMA ReaderStepKeeps ==
  ASSUME Base, NEW c \in Client, ReadStep(c) \/ VisitDetail(c)
  PROVE  (JobsOK /\ RevisionOK /\ VersionsOK /\ EntriesOK)'
<1>1. ASSUME \/ \E key \in {Listing, Detail} : StartRead(c, key)
             \/ ReadVersion(c) \/ SetFirstVersion(c) \/ GetEntry(c) \/ Produce(c) \/ Fill(c),
             UNCHANGED <<watched, shown>>
      PROVE  (JobsOK /\ RevisionOK /\ VersionsOK /\ EntriesOK)'
  <2>1. PICK r \in ReaderType, stores \in BOOLEAN : Becomes(c, r, stores)
    BY <1>1, ReaderMoves
  <2>2. UNCHANGED <<db, jobs, writer>>
    BY <1>1, ReaderMoves
  <2>3. shown' \in [Page -> Rev]
    BY <1>1 DEF Base, EntriesOK
  <2>4. r.at \in {"get", "fill"} \/ (Cached /\ r.at = "produce") => r.key \in Keys \ {Version}
    BY <2>1 DEF Becomes
  <2>5. reader' = [reader EXCEPT ![c] = r]
    BY <2>1 DEF Becomes
  <2>6. \/ UNCHANGED <<cache, late>>
        \/ \E key \in Keys, value \in Rev : (key = Version => value <= 1) /\ Store(key, value)
    BY <2>1 DEF Becomes
  <2> QED BY <1>1, <2>2, <2>3, <2>4, <2>5, <2>6, ReaderKeeps
<1>2. ASSUME Answer(c), watched' = watched
      PROVE  (JobsOK /\ RevisionOK /\ VersionsOK /\ EntriesOK)'
  <2>1. reader' = [reader EXCEPT ![c] = Idle] /\ UNCHANGED <<db, jobs, writer, cache, late>>
    BY <1>2 DEF Answer, ReadOnly
  <2>2. shown' \in [Page -> Rev]
    <3>1. reader[c].v \in Rev /\ shown \in [Page -> Rev]
      BY DEF Base, EntriesOK, ReaderType
    <3> QED BY <1>2, <3>1 DEF Answer
  <2> QED BY <1>2, <2>1, <2>2, IdleTyped, ReaderKeeps
<1>3. QED
  <2>1. ASSUME Read(c), UNCHANGED <<watched, shown>>
        PROVE  (JobsOK /\ RevisionOK /\ VersionsOK /\ EntriesOK)'
    BY <1>1, <2>1 DEF Read
  <2>2. ASSUME VisitDetail(c) PROVE (JobsOK /\ RevisionOK /\ VersionsOK /\ EntriesOK)'
    <3>1. StartRead(c, Detail) /\ UNCHANGED <<watched, shown>>
      BY <2>2 DEF VisitDetail
    <3> QED BY <1>1, <3>1
  <2> QED BY <1>2, <2>1, <2>2 DEF ReadStep

-----------------------------------------------------------------------------
(* The writers.                                                            *)

LEMMA JobsTyped ==
  ASSUME JobsOK, NEW w \in Writer
  PROVE  /\ jobs[w] \in Seq(Paths) /\ Len(jobs[w]) \in Nat
         /\ writer[w] \in WriterType
         /\ writer[w].at # "idle" => Len(jobs[w]) >= 1
         /\ jobs[w] # <<>> => /\ Tail(jobs[w]) \in Seq(Paths)
                              /\ Len(Tail(jobs[w])) = Len(jobs[w]) - 1
<1>1. jobs[w] \in Seq(Paths) /\ writer[w] \in WriterType
      /\ (writer[w].at # "idle" => jobs[w] # <<>>)
  BY DEF JobsOK
<1>2. Len(jobs[w]) \in Nat /\ (jobs[w] # <<>> => Len(jobs[w]) >= 1)
  BY <1>1, EmptySeq, LenProperties
<1>3. jobs[w] # <<>> => Tail(jobs[w]) \in Seq(Paths) /\ Len(Tail(jobs[w])) = Len(jobs[w]) - 1
  BY <1>1, HeadTailProperties
<1>4. QED
  BY <1>1, <1>2, <1>3

LEMMA CountsTyped ==
  ASSUME JobsOK
  PROVE  ToBump \in [Writer -> Nat] /\ ToWrite \in [Writer -> Nat]
<1>1. ASSUME NEW w \in Writer
      PROVE  /\ Len(jobs[w]) - (IF writer[w].at \in Bumped THEN 1 ELSE 0) \in Nat
             /\ Len(jobs[w]) - (IF Counted(w) THEN 1 ELSE 0) \in Nat
  <2>1. Len(jobs[w]) \in Nat /\ (writer[w].at # "idle" => Len(jobs[w]) >= 1)
    BY JobsTyped
  <2>2. writer[w].at \in Bumped => writer[w].at # "idle"
    BY DEF Bumped
  <2>3. Counted(w) => writer[w].at # "idle"
    BY DEF Counted
  <2>4. CASE writer[w].at = "idle"
    BY <2>1, <2>2, <2>3, <2>4
  <2>5. CASE writer[w].at # "idle"
    BY <2>1, <2>5
  <2> QED BY <2>4, <2>5
<1>2. QED
  BY <1>1 DEF ToBump, ToWrite

(* The counts of two states: none grows, and each shrinks by one at most.  *)
LEMMA WriterKeeps ==
  ASSUME Base, JobsOK', ToBump' \in [Writer -> Nat], ToWrite' \in [Writer -> Nat],
         NEW w \in Writer,
         \A x \in Writer : x # w => ToBump[x] = ToBump'[x] /\ ToWrite[x] = ToWrite'[x],
         \/ ToBump[w] = ToBump'[w]
         \/ ToBump[w] = ToBump'[w] + 1,
         \/ ToWrite[w] = ToWrite'[w] /\ db' = db
         \/ ToWrite[w] = ToWrite'[w] + 1 /\ db' = db + 1,
         \/ UNCHANGED <<cache, late>>
         \/ \E key \in Keys, value \in Rev :
              /\ key = Version => \/ value <= Reach
                                  \/ value <= Reach + 1 /\ ToBump[w] = ToBump'[w] + 1
              /\ Store(key, value),
         \A x \in Writer : writer'[x].at = "bump" => writer'[x].v <= Reach,
         UNCHANGED <<reader, shown, watched>>
  PROVE  (RevisionOK /\ VersionsOK /\ EntriesOK)'
<1>1. ToBump \in [Writer -> Nat] /\ ToWrite \in [Writer -> Nat]
  BY CountsTyped DEF Base
<1>2. /\ IsFiniteSet(Left(ToWrite')) /\ Cardinality(Left(ToWrite')) \in Nat
      /\ db' \in Nat \ {0} /\ db' + Cardinality(Left(ToWrite')) <= MaxRev
  <2>1. /\ IsFiniteSet(Left(ToWrite)) /\ db \in Nat \ {0}
        /\ db + Cardinality(Left(ToWrite)) <= MaxRev
    BY DEF Base, RevisionOK
  <2>2. Cardinality(Left(ToWrite)) \in Nat
    BY <2>1, FS_CardinalityType
  <2>3. CASE ToWrite[w] = ToWrite'[w] /\ db' = db
    <3>1. ToWrite' = ToWrite
      BY <1>1, <2>3
    <3> QED BY <2>1, <2>2, <2>3, <3>1
  <2>4. CASE ToWrite[w] = ToWrite'[w] + 1 /\ db' = db + 1
    <3>1. /\ IsFiniteSet(Left(ToWrite')) /\ Cardinality(Left(ToWrite')) \in Nat
          /\ Cardinality(Left(ToWrite)) = Cardinality(Left(ToWrite')) + 1
      BY <1>1, <2>1, <2>4, LeftShrinks
    <3> QED BY <2>1, <2>2, <2>4, <3>1, RevFacts
  <2> QED BY <2>3, <2>4
<1>3. RevisionOK'
  BY <1>2 DEF RevisionOK
<1>4. /\ IsFiniteSet(Left(ToBump')) /\ Reach' \in 1..MaxRev /\ Reach <= Reach'
      /\ ToBump[w] = ToBump'[w] + 1 => Reach' = Reach + 1
  <2>1. IsFiniteSet(Left(ToBump)) /\ Reach \in 1..MaxRev
    BY DEF Base, VersionsOK
  <2>2. Cardinality(Left(ToBump)) \in Nat
    BY <2>1, FS_CardinalityType
  <2>3. CASE ToBump[w] = ToBump'[w]
    <3>1. ToBump' = ToBump
      BY <1>1, <2>3
    <3>2. ToBump[w] # ToBump'[w] + 1
      BY <1>1, <2>3
    <3>3. Reach' = Reach
      BY <3>1 DEF Reach
    <3> QED BY <2>1, <2>2, <3>1, <3>2, <3>3, RevFacts
  <2>4. CASE ToBump[w] = ToBump'[w] + 1
    <3>1. /\ IsFiniteSet(Left(ToBump')) /\ Cardinality(Left(ToBump')) \in Nat
          /\ Cardinality(Left(ToBump)) = Cardinality(Left(ToBump')) + 1
      BY <1>1, <2>1, <2>4, LeftShrinks
    <3>2. Reach = MaxRev - Cardinality(Left(ToBump)) /\ Reach' = MaxRev - Cardinality(Left(ToBump'))
      BY DEF Reach
    <3> QED BY <2>1, <2>2, <3>1, <3>2, RevFacts
  <2> QED BY <2>3, <2>4
<1>5. RedisTyped /\ Within(Reach) /\ Reach \in Nat /\ Reach' \in Nat
  BY <1>4, RevFacts DEF Base, VersionsOK, EntriesOK, RedisTyped, Within
<1>6. Within(Reach')
  <2>1. cache[Version] \in Nat /\ \A c \in late : c.value \in Nat
    BY <1>5, KeyFacts, RevFacts DEF RedisTyped
  <2> QED BY <1>4, <1>5, <2>1 DEF Within
<1>7. RedisTyped' /\ cache'[Version] <= Reach'
         /\ \A d \in late' : d.key = Version => d.value <= Reach'
  <2>1. CASE UNCHANGED <<cache, late>>
    BY <1>5, <1>6, <2>1 DEF RedisTyped, Within
  <2>2. ASSUME NEW key \in Keys, NEW value \in Rev,
               key = Version => \/ value <= Reach
                                \/ value <= Reach + 1 /\ ToBump[w] = ToBump'[w] + 1,
               Store(key, value)
        PROVE  RedisTyped' /\ cache'[Version] <= Reach'
                 /\ \A d \in late' : d.key = Version => d.value <= Reach'
    <3>1. key = Version => value <= Reach'
      BY <1>4, <1>5, <2>2, RevFacts
    <3> HIDE DEF Reach
    <3>2. \A bound \in Nat : Within(bound) /\ (key = Version => value <= bound)
            => /\ RedisTyped' /\ cache'[Version] <= bound
               /\ \A d \in late' : d.key = Version => d.value <= bound
      BY <1>5, <2>2, StoreKeeps
    <3> QED BY <1>5, <1>6, <3>1, <3>2
  <2> QED BY <2>1, <2>2
<1>8. \A x \in Writer : writer'[x].at = "bump" => writer'[x].v <= Reach'
  <2>1. ASSUME NEW x \in Writer, writer'[x].at = "bump" PROVE writer'[x].v <= Reach'
    <3>1. writer'[x].v \in Nat /\ writer'[x].v <= Reach
      BY <2>1, RevFacts DEF JobsOK, WriterType
    <3> QED BY <1>4, <1>5, <3>1
  <2> QED BY <2>1
<1>9. VersionsOK'
  BY <1>4, <1>7, <1>8 DEF VersionsOK
<1>10. EntriesOK'
  BY <1>7 DEF Base, EntriesOK, RedisTyped, Cached
<1>11. QED
  BY <1>3, <1>9, <1>10

CountsAreNumbers == ToBump \in [Writer -> Nat] /\ ToWrite \in [Writer -> Nat]

LEMMA CountsTypedNext == JobsOK' => CountsAreNumbers'
<1>1. JobsOK => CountsAreNumbers
  BY CountsTyped DEF CountsAreNumbers
<1>2. QED
  BY <1>1, PTL

(* One writer moves: what becomes of the counts.                           *)
LEMMA CountsMove ==
  ASSUME JobsOK, JobsOK', NEW w \in Writer,
         \A x \in Writer : x # w => writer'[x] = writer[x] /\ jobs'[x] = jobs[x]
  PROVE  /\ ToBump' \in [Writer -> Nat] /\ ToWrite' \in [Writer -> Nat]
         /\ \A x \in Writer : x # w => ToBump[x] = ToBump'[x] /\ ToWrite[x] = ToWrite'[x]
         /\ ToBump[w] = Len(jobs[w]) - (IF writer[w].at \in Bumped THEN 1 ELSE 0)
         /\ ToBump'[w] = Len(jobs'[w]) - (IF writer'[w].at \in Bumped THEN 1 ELSE 0)
         /\ ToWrite[w] = Len(jobs[w]) - (IF Counted(w) THEN 1 ELSE 0)
         /\ ToWrite'[w] = Len(jobs'[w]) - (IF Counted(w)' THEN 1 ELSE 0)
         /\ Len(jobs[w]) \in Nat
<1>1. ToBump' \in [Writer -> Nat] /\ ToWrite' \in [Writer -> Nat]
  BY CountsTypedNext DEF CountsAreNumbers
<1>2. ASSUME NEW x \in Writer, x # w
      PROVE  ToBump[x] = ToBump'[x] /\ ToWrite[x] = ToWrite'[x]
  <2>1. Counted(x)' <=> Counted(x)
    BY <1>2 DEF Counted, Path
  <2> QED BY <1>2, <2>1 DEF ToBump, ToWrite
<1>3. /\ ToBump[w] = Len(jobs[w]) - (IF writer[w].at \in Bumped THEN 1 ELSE 0)
      /\ ToBump'[w] = Len(jobs'[w]) - (IF writer'[w].at \in Bumped THEN 1 ELSE 0)
      /\ ToWrite[w] = Len(jobs[w]) - (IF Counted(w) THEN 1 ELSE 0)
      /\ ToWrite'[w] = Len(jobs'[w]) - (IF Counted(w)' THEN 1 ELSE 0)
  BY DEF ToBump, ToWrite
<1>4. Len(jobs[w]) \in Nat
  BY JobsTyped
<1>5. QED
  BY <1>1, <1>2, <1>3, <1>4

(* A writer under way takes a step of its own.                             *)
LEMMA JobsKeep ==
  ASSUME JobsOK, NEW w \in Writer, NEW r \in WriterType, UNCHANGED jobs,
         writer' = [writer EXCEPT ![w] = r], jobs[w] # <<>>,
         r.at = "commit" => Invalidates(Path(w)) = "inside"
  PROVE  /\ JobsOK'
         /\ \A x \in Writer : x # w => writer'[x] = writer[x] /\ jobs'[x] = jobs[x]
         /\ writer'[w] = r
BY DEF JobsOK, Path

LEMMA WriterMoves ==
  ASSUME Base, NEW w \in Writer, NEW r \in WriterType, UNCHANGED jobs,
         writer' = [writer EXCEPT ![w] = r], jobs[w] # <<>>, r.at # "idle",
         r.at = "commit" => Invalidates(Path(w)) = "inside",
         writer[w].at \in Bumped => r.at \in Bumped,
         r.at = "bump" => r.v <= Reach,
         LET is == Invalidates(Path(w)) # "inside" \/ r.at = "respond"
         IN  IF is /\ ~Counted(w) THEN db' = db + 1 ELSE (Counted(w) => is) /\ db' = db,
         \/ UNCHANGED <<cache, late>>
         \/ \E key \in Keys, value \in Rev :
              /\ key = Version => \/ value <= Reach
                                  \/ /\ value <= Reach + 1
                                     /\ r.at \in Bumped /\ writer[w].at \notin Bumped
              /\ Store(key, value),
         UNCHANGED <<reader, shown, watched>>
  PROVE  (JobsOK /\ RevisionOK /\ VersionsOK /\ EntriesOK)'
<1>1. JobsOK
  BY DEF Base
<1>2. /\ JobsOK'
      /\ \A x \in Writer : x # w => writer'[x] = writer[x] /\ jobs'[x] = jobs[x]
      /\ writer'[w] = r
  BY <1>1, JobsKeep
<1>3. /\ ToBump' \in [Writer -> Nat] /\ ToWrite' \in [Writer -> Nat]
      /\ \A x \in Writer : x # w => ToBump[x] = ToBump'[x] /\ ToWrite[x] = ToWrite'[x]
      /\ ToBump[w] = Len(jobs[w]) - (IF writer[w].at \in Bumped THEN 1 ELSE 0)
      /\ ToBump'[w] = Len(jobs'[w]) - (IF writer'[w].at \in Bumped THEN 1 ELSE 0)
      /\ ToWrite[w] = Len(jobs[w]) - (IF Counted(w) THEN 1 ELSE 0)
      /\ ToWrite'[w] = Len(jobs'[w]) - (IF Counted(w)' THEN 1 ELSE 0)
      /\ Len(jobs[w]) \in Nat
  BY <1>1, <1>2, CountsMove
<1>4. /\ ToBump[w] = ToBump'[w] \/ ToBump[w] = ToBump'[w] + 1
      /\ r.at \in Bumped /\ writer[w].at \notin Bumped => ToBump[w] = ToBump'[w] + 1
  <2> DEFINE n == Len(jobs[w])
             before == ToBump[w]
             after == ToBump'[w]
  <2>1. /\ before = n - (IF writer[w].at \in Bumped THEN 1 ELSE 0)
        /\ after = n - (IF r.at \in Bumped THEN 1 ELSE 0) /\ n \in Nat
    BY <1>2, <1>3
  <2> HIDE DEF n, before, after
  <2>2. /\ before = after \/ before = after + 1
        /\ r.at \in Bumped /\ writer[w].at \notin Bumped => before = after + 1
    BY <2>1
  <2> QED BY <2>2 DEF before, after
<1>5. Counted(w)' <=> Invalidates(Path(w)) # "inside" \/ r.at = "respond"
  BY <1>2 DEF Counted, Path
<1>6. \/ ToWrite[w] = ToWrite'[w] /\ db' = db
      \/ ToWrite[w] = ToWrite'[w] + 1 /\ db' = db + 1
  <2>1. CASE Counted(w)' /\ ~Counted(w)
    BY <1>3, <1>5, <2>1
  <2>2. CASE ~(Counted(w)' /\ ~Counted(w))
    <3>1. (Counted(w)' <=> Counted(w)) /\ db' = db
      BY <1>5, <2>2
    <3> QED BY <1>3, <3>1
  <2> QED BY <2>1, <2>2
<1>7. \A x \in Writer : writer'[x].at = "bump" => writer'[x].v <= Reach
  BY <1>2 DEF Base, VersionsOK
<1>8. \/ UNCHANGED <<cache, late>>
      \/ \E key \in Keys, value \in Rev :
           /\ key = Version => \/ value <= Reach
                               \/ value <= Reach + 1 /\ ToBump[w] = ToBump'[w] + 1
           /\ Store(key, value)
  BY <1>4
<1> HIDE DEF Reach
<1>9. QED
  BY <1>1, <1>2, <1>3, <1>4, <1>6, <1>7, <1>8, WriterKeeps

(* A writer that has yet to bump the version has room for it.              *)
LEMMA RoomToBump ==
  ASSUME Base, NEW w \in Writer, writer[w].at \notin Bumped, writer[w].at # "idle"
  PROVE  Reach < MaxRev
<1>1. ToBump \in [Writer -> Nat] /\ Len(jobs[w]) \in Nat /\ Len(jobs[w]) >= 1
  BY CountsTyped, JobsTyped DEF Base
<1>2. ToBump[w] = Len(jobs[w])
  BY <1>1 DEF ToBump
<1>3. <<w, 1>> \in Left(ToBump)
  BY <1>1, <1>2 DEF Left
<1>4. IsFiniteSet(Left(ToBump))
  BY DEF Base, VersionsOK
<1>5. Cardinality(Left(ToBump)) \in Nat /\ Cardinality(Left(ToBump)) # 0
  BY <1>3, <1>4, FS_CardinalityType, FS_EmptySet
<1>6. QED
  BY <1>5, RevFacts DEF Reach

LEMMA WriterActs ==
  ASSUME Base, NEW w \in Writer,
         \/ StartWrite(w) \/ DeleteDetail(w) \/ ReadToBump(w) \/ SetToBump(w)
         \/ Bump(w) \/ Announce(w) \/ CommitWrite(w),
         UNCHANGED <<shown, watched>>
  PROVE  (JobsOK /\ RevisionOK /\ VersionsOK /\ EntriesOK)'
<1> DEFINE Goal == (JobsOK /\ RevisionOK /\ VersionsOK /\ EntriesOK)'
           To1(at, v) == [at |-> at, v |-> v]
<1>1. /\ JobsOK /\ writer[w] \in WriterType /\ cache \in [Keys -> Rev]
      /\ writer[w].at # "idle" => jobs[w] # <<>>
      /\ writer[w].at = "commit" => Invalidates(Path(w)) = "inside"
  BY DEF Base, JobsOK, EntriesOK
<1>2. Reach \in 1..MaxRev /\ cache[Version] <= Reach
      /\ (writer[w].at = "bump" => writer[w].v <= Reach)
  BY DEF Base, VersionsOK
<1>3. 0 \in Rev /\ 1 \in Rev /\ Version \in Keys /\ Detail \in Keys /\ Detail # Version
  BY RevFacts, KeyFacts DEF Rev
<1>4. \A at \in WriterStates, v \in Rev :
        To1(at, v) \in WriterType /\ To1(at, v).at = at /\ To1(at, v).v = v
  BY DEF WriterType
<1> HIDE DEF Goal
<1>5. ASSUME StartWrite(w) PROVE Goal
  <2>1. /\ writer[w].at = "idle" /\ jobs[w] # <<>> /\ UNCHANGED <<cache, late, jobs, reader>>
    BY <1>5 DEF StartWrite, Writing, WriteOnly
  <2>2. ~Counted(w) /\ writer[w].at \notin Bumped
    BY <2>1 DEF Counted, Bumped
  <2>3. CASE Invalidates(Path(w)) = "inside"
    <3>1. writer' = [writer EXCEPT ![w] = To1("delete", 0)] /\ db' = db
      BY <1>5, <2>3 DEF StartWrite, To
    <3>2. "delete" \in WriterStates
      BY DEF WriterStates
    <3> HIDE DEF To1
    <3> QED BY <1>3, <1>4, <2>1, <2>2, <2>3, <3>1, <3>2, WriterMoves DEF Goal
  <2>4. CASE Invalidates(Path(w)) # "inside"
    <3> DEFINE at == IF Invalidates(Path(w)) = "after" THEN "delete" ELSE "respond"
    <3>1. writer' = [writer EXCEPT ![w] = To1(at, 0)] /\ db' = db + 1
      BY <1>5, <2>4 DEF StartWrite, To
    <3>2. at \in WriterStates /\ at \in {"delete", "respond"}
      BY DEF WriterStates
    <3> HIDE DEF at
    <3> DEFINE r == To1(at, 0)
    <3>3. r \in WriterType /\ r.at \in {"delete", "respond"}
      BY <1>3, <1>4, <3>2
    <3>4. r.at \notin {"idle", "commit", "bump"}
      BY <3>3
    <3>5. LET is == Invalidates(Path(w)) # "inside" \/ r.at = "respond"
          IN  IF is /\ ~Counted(w) THEN db' = db + 1 ELSE (Counted(w) => is) /\ db' = db
      BY <2>2, <2>4, <3>1
    <3>6. writer' = [writer EXCEPT ![w] = r] /\ UNCHANGED <<reader, shown, watched>>
      BY <2>1, <3>1
    <3> HIDE DEF To1, r
    <3> QED BY <2>1, <2>2, <3>3, <3>4, <3>5, <3>6, WriterMoves DEF Goal
  <2> QED BY <2>3, <2>4
<1>6. ASSUME NEW at \in WriterStates \ {"idle"}, NEW v \in Rev,
             writer' = [writer EXCEPT ![w] = To1(at, v)],
             writer[w].at \notin {"idle", "respond"},
             at = "commit" => Invalidates(Path(w)) = "inside",
             at = "respond" => Invalidates(Path(w)) # "inside" \/ writer[w].at = "commit",
             writer[w].at \in Bumped => at \in Bumped,
             at = "bump" => v <= Reach,
             IF writer[w].at = "commit" THEN at = "respond" /\ db' = db + 1 ELSE db' = db,
             \/ UNCHANGED <<cache, late>>
             \/ \E key \in Keys, value \in Rev :
                  /\ key = Version => \/ value <= Reach
                                      \/ /\ value <= Reach + 1
                                         /\ at \in Bumped /\ writer[w].at \notin Bumped
                  /\ Store(key, value),
             UNCHANGED <<jobs, reader>>
      PROVE  Goal
  <2>1. To1(at, v) \in WriterType /\ To1(at, v).at = at /\ To1(at, v).v = v
    BY <1>4
  <2> HIDE DEF To1
  <2>2. Counted(w) <=> Invalidates(Path(w)) # "inside"
    BY <1>6 DEF Counted
  <2>3. LET is == Invalidates(Path(w)) # "inside" \/ at = "respond"
        IN  IF is /\ ~Counted(w) THEN db' = db + 1 ELSE (Counted(w) => is) /\ db' = db
    <3>1. CASE writer[w].at = "commit"
      BY <1>1, <1>6, <2>2, <3>1
    <3>2. CASE writer[w].at # "commit"
      BY <1>6, <2>2, <3>2
    <3> QED BY <3>1, <3>2
  <2>4. jobs[w] # <<>>
    BY <1>1, <1>6
  <2> HIDE DEF Reach
  <2>5. QED
    BY <1>6, <2>1, <2>3, <2>4, WriterMoves DEF Goal
<1> HIDE DEF Goal
<1>7. ASSUME DeleteDetail(w) PROVE Goal
  <2>1. writer' = [writer EXCEPT ![w] = To1("version", 0)] /\ writer[w].at = "delete"
        /\ Store(Detail, 0) /\ UNCHANGED <<db, jobs, reader>>
    BY <1>7 DEF DeleteDetail, To, Writing, WriteOnly
  <2>2. "version" \in WriterStates \ {"idle"} /\ "delete" \notin Bumped
    BY DEF WriterStates, Bumped
  <2> HIDE DEF To1, Reach
  <2> QED BY <1>3, <1>6, <2>1, <2>2
<1>8. ASSUME ReadToBump(w) PROVE Goal
  <2>1. PICK n \in Answers(Version) : IF n = 0 THEN To(w, "set_version", 1) ELSE To(w, "bump", n)
    BY <1>8 DEF ReadToBump
  <2>2. writer[w].at = "version" /\ UNCHANGED <<db, cache, late, jobs, reader>>
    BY <1>8 DEF ReadToBump, Writing, WriteOnly
  <2>3. n \in Rev /\ n <= Reach
    BY <1>1, <1>2, <1>3, RevFacts DEF Answers
  <2>4. {"set_version", "bump"} \subseteq WriterStates \ {"idle"} /\ "version" \notin Bumped
    BY DEF WriterStates, Bumped
  <2>5. CASE n = 0
    <3>1. writer' = [writer EXCEPT ![w] = To1("set_version", 1)]
      BY <2>1, <2>5 DEF To
    <3> HIDE DEF To1, Reach
    <3> QED BY <1>3, <1>6, <2>2, <2>4, <3>1
  <2>6. CASE n # 0
    <3>1. writer' = [writer EXCEPT ![w] = To1("bump", n)]
      BY <2>1, <2>6 DEF To
    <3> HIDE DEF To1, Reach
    <3> QED BY <1>6, <2>2, <2>3, <2>4, <3>1
  <2> QED BY <2>5, <2>6
<1>9. ASSUME SetToBump(w) PROVE Goal
  <2>1. writer' = [writer EXCEPT ![w] = To1("bump", 1)] /\ writer[w].at = "set_version"
        /\ Store(Version, 1) /\ UNCHANGED <<db, jobs, reader>>
    BY <1>9 DEF SetToBump, To, Writing, WriteOnly
  <2>2. "bump" \in WriterStates \ {"idle"} /\ "set_version" \notin Bumped
    BY DEF WriterStates, Bumped
  <2>3. 1 <= Reach
    BY <1>2
  <2> HIDE DEF To1, Reach
  <2> QED BY <1>3, <1>6, <2>1, <2>2, <2>3
<1>10. ASSUME Bump(w) PROVE Goal
  <2>1. writer' = [writer EXCEPT ![w] = To1("publish", 0)] /\ writer[w].at = "bump"
        /\ Store(Version, writer[w].v + 1) /\ UNCHANGED <<db, jobs, reader>>
    BY <1>10 DEF Bump, To, Writing, WriteOnly
  <2>2. "publish" \in WriterStates \ {"idle"} /\ "bump" \notin Bumped /\ "publish" \in Bumped
    BY DEF WriterStates, Bumped
  <2>3. writer[w].v \in Nat /\ writer[w].v + 1 <= Reach + 1
    <3>1. writer[w].v \in Nat /\ writer[w].v <= Reach /\ Reach \in Nat
      BY <1>1, <1>2, <2>1, RevFacts DEF WriterType
    <3> HIDE DEF Reach
    <3> QED BY <3>1
  <2>4. Reach < MaxRev
    BY <2>1, <2>2, RoomToBump
  <2>5. writer[w].v + 1 \in Rev
    BY <1>2, <2>3, <2>4, RevFacts DEF Rev
  <2> HIDE DEF To1, Reach
  <2> QED BY <1>3, <1>6, <2>1, <2>2, <2>3, <2>5
<1>11. ASSUME Announce(w) PROVE Goal
  <2> DEFINE at == IF Invalidates(Path(w)) = "inside" THEN "commit" ELSE "respond"
  <2>1. writer' = [writer EXCEPT ![w] = To1(at, 0)] /\ writer[w].at = "publish"
        /\ UNCHANGED <<db, cache, late, jobs, reader>>
    BY <1>11 DEF Announce, To, Writing, WriteOnly
  <2>2. at \in WriterStates \ {"idle"} /\ at \in Bumped /\ at \in {"commit", "respond"}
        /\ (at = "commit" => Invalidates(Path(w)) = "inside")
        /\ (at = "respond" => Invalidates(Path(w)) # "inside")
    BY DEF WriterStates, Bumped
  <2> HIDE DEF To1, Reach, at
  <2> QED BY <1>3, <1>6, <2>1, <2>2
<1>12. ASSUME CommitWrite(w) PROVE Goal
  <2>1. writer' = [writer EXCEPT ![w] = To1("respond", 0)] /\ writer[w].at = "commit"
        /\ db' = db + 1 /\ UNCHANGED <<cache, late, jobs, reader>>
    BY <1>12 DEF CommitWrite, To, Writing, WriteOnly
  <2>2. "respond" \in WriterStates \ {"idle"} /\ "respond" \in Bumped
    BY DEF WriterStates, Bumped
  <2> HIDE DEF To1, Reach
  <2> QED BY <1>3, <1>6, <2>1, <2>2
<1>13. QED
  BY <1>5, <1>7, <1>8, <1>9, <1>10, <1>11, <1>12 DEF Goal

LEMMA RespondKeeps ==
  ASSUME Base, NEW w \in Writer, Respond(w), UNCHANGED <<shown, watched>>
  PROVE  (JobsOK /\ RevisionOK /\ VersionsOK /\ EntriesOK)'
<1> DEFINE r == [at |-> "idle", v |-> 0]
<1>1. /\ writer[w].at = "respond" /\ writer' = [writer EXCEPT ![w] = r]
      /\ jobs' = [jobs EXCEPT ![w] = Tail(jobs[w])] /\ UNCHANGED <<db, cache, late, reader>>
  BY DEF Respond, Writing, To, WriteOnly
<1>2. r \in WriterType /\ r.at = "idle"
  BY IdleTyped
<1> HIDE DEF r
<1>3. /\ JobsOK /\ jobs[w] # <<>> /\ Tail(jobs[w]) \in Seq(Paths)
      /\ Len(Tail(jobs[w])) = Len(jobs[w]) - 1
  BY <1>1, JobsTyped DEF Base, JobsOK
<1>4. writer'[w] = r /\ jobs'[w] = Tail(jobs[w])
      /\ \A x \in Writer : x # w => writer'[x] = writer[x] /\ jobs'[x] = jobs[x]
  BY <1>1, <1>3 DEF JobsOK
<1>5. JobsOK'
  <2>1. jobs' \in [Writer -> Seq(Paths)] /\ writer' \in [Writer -> WriterType]
    BY <1>1, <1>2, <1>3 DEF JobsOK
  <2>2. \A x \in Writer : writer'[x].at # "idle" => jobs'[x] # <<>>
    BY <1>2, <1>3, <1>4 DEF JobsOK
  <2>3. \A x \in Writer : writer'[x].at = "commit" => Invalidates(Path(x))' = "inside"
    BY <1>2, <1>3, <1>4 DEF JobsOK, Path
  <2> QED BY <2>1, <2>2, <2>3 DEF JobsOK
<1>6. /\ ToBump' \in [Writer -> Nat] /\ ToWrite' \in [Writer -> Nat]
      /\ \A x \in Writer : x # w => ToBump[x] = ToBump'[x] /\ ToWrite[x] = ToWrite'[x]
      /\ ToBump[w] = Len(jobs[w]) - (IF writer[w].at \in Bumped THEN 1 ELSE 0)
      /\ ToBump'[w] = Len(jobs'[w]) - (IF writer'[w].at \in Bumped THEN 1 ELSE 0)
      /\ ToWrite[w] = Len(jobs[w]) - (IF Counted(w) THEN 1 ELSE 0)
      /\ ToWrite'[w] = Len(jobs'[w]) - (IF Counted(w)' THEN 1 ELSE 0)
      /\ Len(jobs[w]) \in Nat
  BY <1>3, <1>4, <1>5, CountsMove
<1>7. writer[w].at \in Bumped /\ writer'[w].at \notin Bumped /\ Counted(w) /\ ~Counted(w)'
  BY <1>1, <1>2, <1>4 DEF Bumped, Counted
<1>8. ToBump[w] = ToBump'[w] /\ ToWrite[w] = ToWrite'[w]
  BY <1>3, <1>4, <1>6, <1>7
<1>9. \A x \in Writer : writer'[x].at = "bump" => writer'[x].v <= Reach
  BY <1>2, <1>4 DEF Base, VersionsOK
<1> HIDE DEF Reach
<1>10. RevisionOK' /\ VersionsOK' /\ EntriesOK'
  BY <1>1, <1>5, <1>6, <1>8, <1>9, WriterKeeps
<1>11. QED
  BY <1>5, <1>10

(* Redis carries out a late command, or an entry expires.                  *)
LEMMA RedisKeeps ==
  ASSUME Base, NEW key \in Keys, RedisStep(key), UNCHANGED <<shown, watched>>
  PROVE  (JobsOK /\ RevisionOK /\ VersionsOK /\ EntriesOK)'
<1>1. UNCHANGED <<db, reader, writer, jobs>>
  BY DEF RedisStep, Deliver, Expire
<1>2. ToBump' = ToBump /\ ToWrite' = ToWrite /\ Reach' = Reach
  BY <1>1, CountsStand
<1>3. RedisTyped /\ Within(Reach) /\ Reach \in Nat
  BY RevFacts DEF Base, VersionsOK, EntriesOK, RedisTyped, Within
<1>4. RedisTyped' /\ cache'[Version] <= Reach
         /\ \A d \in late' : d.key = Version => d.value <= Reach
  <2> HIDE DEF Reach
  <2>1. CASE Deliver(key)
    BY <1>3, <2>1, DeliverKeeps
  <2>2. CASE Expire(key)
    BY <1>3, <2>2, ExpireKeeps
  <2> QED BY <2>1, <2>2 DEF RedisStep
<1>5. JobsOK' /\ RevisionOK'
  BY <1>1, <1>2 DEF Base, JobsOK, RevisionOK, Path
<1>6. VersionsOK'
  BY <1>1, <1>2, <1>4 DEF Base, VersionsOK
<1>7. EntriesOK'
  BY <1>1, <1>4 DEF Base, EntriesOK, RedisTyped, Cached
<1>8. QED
  BY <1>5, <1>6, <1>7

LEMMA RestartKeeps ==
  ASSUME Base, HandlersLost, UNCHANGED <<shown, watched>>
  PROVE  (JobsOK /\ RevisionOK /\ VersionsOK /\ EntriesOK)'
<1> DEFINE r == [at |-> "idle", v |-> 0]
<1>1. /\ reader' = [c \in Client |-> Idle] /\ writer' = [w \in Writer |-> r]
      /\ jobs' = [w \in Writer |-> IF writer[w].at = "idle" THEN jobs[w] ELSE Tail(jobs[w])]
      /\ UNCHANGED <<db, cache, late>>
  BY DEF HandlersLost
<1>2. r \in WriterType /\ r.at = "idle"
  BY IdleTyped
<1> HIDE DEF r
<1>3. JobsOK
  BY DEF Base
<1>4. ASSUME NEW w \in Writer
      PROVE  /\ jobs'[w] \in Seq(Paths) /\ writer'[w] = r
             /\ Len(jobs'[w]) = Len(jobs[w]) - (IF writer[w].at = "idle" THEN 0 ELSE 1)
             /\ Len(jobs[w]) \in Nat
  <2>1. writer[w].at # "idle" => jobs[w] # <<>>
    BY <1>3 DEF JobsOK
  <2>2. jobs'[w] = IF writer[w].at = "idle" THEN jobs[w] ELSE Tail(jobs[w])
    BY <1>1
  <2> QED BY <1>1, <1>3, <2>1, <2>2, JobsTyped
<1>5. JobsOK'
  <2>1. jobs' \in [Writer -> Seq(Paths)] /\ writer' \in [Writer -> WriterType]
    BY <1>1, <1>2, <1>4
  <2> QED BY <1>2, <1>4, <2>1 DEF JobsOK
<1>6. ToBump' \in [Writer -> Nat] /\ ToWrite' \in [Writer -> Nat]
      /\ ToBump \in [Writer -> Nat] /\ ToWrite \in [Writer -> Nat]
  BY <1>3, <1>5, CountsTyped, CountsTypedNext DEF CountsAreNumbers
<1>7. ASSUME NEW w \in Writer
      PROVE  ToBump'[w] <= ToBump[w] /\ ToWrite'[w] <= ToWrite[w]
  <2>1. writer'[w].at \notin Bumped /\ ~Counted(w)'
    BY <1>2, <1>4 DEF Bumped, Counted
  <2>2. ToBump'[w] = Len(jobs'[w]) /\ ToWrite'[w] = Len(jobs'[w])
    BY <1>4, <2>1 DEF ToBump, ToWrite
  <2>3. (writer[w].at \in Bumped => writer[w].at # "idle") /\ (Counted(w) => writer[w].at # "idle")
    BY DEF Bumped, Counted
  <2>4. /\ ToBump[w] = Len(jobs[w]) - (IF writer[w].at \in Bumped THEN 1 ELSE 0)
        /\ ToWrite[w] = Len(jobs[w]) - (IF Counted(w) THEN 1 ELSE 0)
    BY DEF ToBump, ToWrite
  <2> DEFINE n == Len(jobs[w])
             m == Len(jobs'[w])
  <2>5. m = n - (IF writer[w].at = "idle" THEN 0 ELSE 1) /\ n \in Nat
    BY <1>4
  <2> HIDE DEF n, m
  <2>6. /\ m <= n - (IF writer[w].at \in Bumped THEN 1 ELSE 0)
        /\ m <= n - (IF Counted(w) THEN 1 ELSE 0)
    BY <2>3, <2>5
  <2> QED BY <2>2, <2>4, <2>6 DEF n, m
<1>8. /\ IsFiniteSet(Left(ToWrite)) /\ db + Cardinality(Left(ToWrite)) <= MaxRev
      /\ db \in Nat \ {0}
      /\ IsFiniteSet(Left(ToBump)) /\ Reach \in 1..MaxRev
  BY DEF Base, RevisionOK, VersionsOK
<1>9. /\ IsFiniteSet(Left(ToWrite')) /\ Cardinality(Left(ToWrite')) \in Nat
      /\ Cardinality(Left(ToWrite')) <= Cardinality(Left(ToWrite))
      /\ Cardinality(Left(ToWrite)) \in Nat
  BY <1>6, <1>7, <1>8, LeftGrows
<1>10. /\ IsFiniteSet(Left(ToBump')) /\ Cardinality(Left(ToBump')) \in Nat
       /\ Cardinality(Left(ToBump')) <= Cardinality(Left(ToBump))
       /\ Cardinality(Left(ToBump)) \in Nat
  BY <1>6, <1>7, <1>8, LeftGrows
<1>11. RevisionOK'
  BY <1>1, <1>8, <1>9, RevFacts DEF RevisionOK
<1>12. Reach' \in 1..MaxRev /\ Reach <= Reach'
  BY <1>8, <1>10, RevFacts DEF Reach
<1>13. RedisTyped /\ Within(Reach)
  BY DEF Base, VersionsOK, EntriesOK, RedisTyped, Within
<1>14. cache'[Version] <= Reach' /\ \A c \in late' : c.key = Version => c.value <= Reach'
  <2>1. cache[Version] \in Nat /\ \A c \in late : c.value \in Nat
    BY <1>13, KeyFacts, RevFacts DEF RedisTyped
  <2>2. Reach \in Nat /\ Reach' \in Nat
    BY <1>8, <1>12, RevFacts
  <2> HIDE DEF Reach
  <2> QED BY <1>1, <1>12, <1>13, <2>1, <2>2 DEF Within
<1>15. VersionsOK'
  BY <1>2, <1>4, <1>10, <1>12, <1>14 DEF VersionsOK
<1>16. EntriesOK'
  <2>1. reader' \in [Client -> ReaderType] /\ \A c \in Client : reader'[c] = Idle
    BY <1>1, IdleTyped
  <2>2. \A c \in Client : reader'[c].at \notin {"get", "fill", "produce"}
    BY <2>1, IdleTyped
  <2>3. shown' \in [Page -> Rev]
    BY DEF Base, EntriesOK
  <2> QED BY <1>1, <1>13, <2>1, <2>2, <2>3 DEF EntriesOK, RedisTyped
<1>17. QED
  BY <1>5, <1>11, <1>15, <1>16

LEMMA ScenarioKept ==
  ASSUME Base, [Next]_vars
  PROVE  ScenarioOK'
<1>1. UNCHANGED <<scenario, watched, outage, visits>>
  BY DEF Next, ReadStep, Read, VisitDetail, BeginWrite, WriteStep, Restart, RedisStep, FeedStep,
         StreamStep, StartRead, ReadVersion, SetFirstVersion, GetEntry, Produce, Fill, Answer,
         ReadOnly, WriteOnly, StartWrite, DeleteDetail, ReadToBump, SetToBump, Bump, CommitWrite,
         Announce, Respond, HandlersLost, FeedRestarts, Ticket, OpenStream, CloseStream,
         WindowCloses, TrailingFires, Deliver, Expire, vars, feedVars, cacheVars
<1>2. restarts' = restarts \/ (restarts < MaxRestarts /\ restarts' = restarts + 1)
  BY DEF Next, ReadStep, VisitDetail, BeginWrite, WriteStep, Restart, vars
<1>3. MaxRestarts \in Nat
  BY FreshnessAssumption DEF FreshnessAssumption
<1>4. QED
  BY <1>1, <1>2, <1>3 DEF Base, ScenarioOK

LEMMA BaseStep ==
  ASSUME Base, [Next]_vars
  PROVE  Base'
<1> DEFINE Goal == (JobsOK /\ RevisionOK /\ VersionsOK /\ EntriesOK)'
<1>1. ASSUME UNCHANGED <<cacheVars, shown, watched>> PROVE Goal
  <2>1. UNCHANGED <<db, cache, late, outage, visits, reader, writer, jobs>>
    BY <1>1 DEF cacheVars
  <2>2. ToBump' = ToBump /\ ToWrite' = ToWrite /\ Reach' = Reach
    BY <2>1, CountsStand
  <2>3. JobsOK' /\ RevisionOK'
    BY <2>1, <2>2 DEF Base, JobsOK, RevisionOK, Path
  <2>4. VersionsOK'
    BY <2>1, <2>2 DEF Base, VersionsOK
  <2>5. EntriesOK'
    BY <1>1, <2>1 DEF Base, EntriesOK, Cached
  <2> QED BY <2>3, <2>4, <2>5
<1> HIDE DEF Goal
<1>2. ASSUME NEW c \in Client, ReadStep(c) \/ VisitDetail(c) PROVE Goal
  BY <1>2, ReaderStepKeeps DEF Goal
<1>3. ASSUME NEW w \in Writer, BeginWrite(w) \/ WriteStep(w) PROVE Goal
  <2>1. UNCHANGED <<shown, watched>>
    BY <1>3 DEF BeginWrite, WriteStep, feedVars
  <2>2. \/ \/ StartWrite(w) \/ DeleteDetail(w) \/ ReadToBump(w) \/ SetToBump(w)
           \/ Bump(w) \/ Announce(w) \/ CommitWrite(w)
        \/ Respond(w)
    BY <1>3 DEF BeginWrite, WriteStep
  <2> QED BY <2>1, <2>2, WriterActs, RespondKeeps DEF Goal
<1>4. ASSUME FeedStep \/ \E p \in Page : StreamStep(p), UNCHANGED <<cacheVars, shown>> PROVE Goal
  <2>1. watched' = watched
    BY <1>4 DEF FeedStep, StreamStep, WindowCloses, TrailingFires, Ticket, OpenStream, CloseStream
  <2> QED BY <1>1, <1>4, <2>1
<1>5. ASSUME NEW key \in Keys, RedisStep(key), UNCHANGED <<feedVars, shown>> PROVE Goal
  BY <1>5, RedisKeeps DEF Goal, feedVars
<1>6. ASSUME Restart PROVE Goal
  BY <1>6, RestartKeeps DEF Goal, Restart, FeedRestarts
<1>7. ASSUME UNCHANGED vars PROVE Goal
  BY <1>1, <1>7 DEF vars, feedVars
<1>8. Goal
  BY <1>2, <1>3, <1>4, <1>5, <1>6, <1>7 DEF Next
<1>9. QED
  BY <1>8, FeedStepKeeps, ScenarioKept DEF Base, Goal

LEMMA BaseInit == Init => Base
<1> SUFFICES ASSUME Init PROVE Base
  OBVIOUS
<1>1. scenario \in Scenarios
  BY DEF Init
<1>2. /\ jobs = scenario.jobs /\ jobs \in [Writer -> Seq(Paths)]
      /\ IsFiniteSet(Calls(jobs)) /\ Cardinality(Calls(jobs)) < MaxRev
      /\ scenario.opens \in Nat /\ opens = scenario.opens
  BY <1>1, InScenario DEF Init
<1>3. \A w \in Writer : writer[w] = [at |-> "idle", v |-> 0]
  BY DEF Init, CachingInit
<1>4. \A w \in Writer : writer[w].at \notin Bumped /\ ~Counted(w)
  BY <1>3 DEF Bumped, Counted
<1>5. \A w \in Writer : Len(jobs[w]) \in Nat
  BY <1>2, LenProperties
<1>6. ToBump = [w \in Writer |-> Len(jobs[w])] /\ ToWrite = [w \in Writer |-> Len(jobs[w])]
  <2>1. ASSUME NEW w \in Writer
        PROVE  /\ Len(jobs[w]) - (IF writer[w].at \in Bumped THEN 1 ELSE 0) = Len(jobs[w])
               /\ Len(jobs[w]) - (IF Counted(w) THEN 1 ELSE 0) = Len(jobs[w])
    <3> DEFINE n == Len(jobs[w])
    <3>1. n \in Nat /\ n - 0 = n
      BY <1>5
    <3> HIDE DEF n
    <3>2. /\ n - (IF writer[w].at \in Bumped THEN 1 ELSE 0) = n
          /\ n - (IF Counted(w) THEN 1 ELSE 0) = n
      BY <1>4, <3>1, Zenon
    <3> QED BY <3>2 DEF n
  <2> QED BY <2>1 DEF ToBump, ToWrite
<1>7. Calls(jobs) = Left(ToBump) /\ Calls(jobs) = Left(ToWrite)
  BY <1>2, <1>6, CallsAreLeft
<1>8. Cardinality(Calls(jobs)) \in Nat
  BY <1>2, FS_CardinalityType
<1>9. JobsOK
  BY <1>2, <1>3, IdleTyped DEF JobsOK, Init, CachingInit
<1>10. RevisionOK
  BY <1>2, <1>7, <1>8, RevFacts DEF RevisionOK, Init, CachingInit
<1>11. Reach \in 1..MaxRev
  BY <1>2, <1>7, <1>8, RevFacts DEF Reach
<1>12. cache \in [Keys -> {0, 1}] /\ late = {}
  BY DEF Init, CachingInit
<1>13. VersionsOK
  <2>1. cache[Version] \in {0, 1}
    BY <1>12, KeyFacts
  <2>2. cache[Version] <= Reach
    BY <1>11, <2>1, RevFacts
  <2> QED BY <1>2, <1>3, <1>7, <1>11, <1>12, <2>2 DEF VersionsOK
<1>14. EntriesOK
  <2>1. \A c \in Client : reader[c] = Idle
    BY DEF Init, CachingInit
  <2>2. reader \in [Client -> ReaderType]
    BY <2>1, IdleTyped DEF Init, CachingInit
  <2>3. \A c \in Client : reader[c].at \notin {"get", "fill", "produce"}
    BY <2>1, IdleTyped
  <2>4. 0 \in Rev /\ 1 \in Rev
    BY RevFacts DEF Rev
  <2>5. cache \in [Keys -> Rev]
    BY <1>12, <2>4
  <2>6. shown \in [Page -> Rev]
    BY <2>4 DEF Init
  <2> QED BY <1>12, <2>2, <2>3, <2>5, <2>6 DEF EntriesOK
<1>15. ScenarioOK
  BY <1>1, FreshnessAssumption DEF ScenarioOK, Init, FreshnessAssumption
<1>16. FeedOK
  <2>1. /\ window = FALSE /\ trailing = "none" /\ listeners = 0
        /\ stream = [p \in Page |-> "none"] /\ told = [p \in Page |-> FALSE]
    BY DEF Init, FeedInit
  <2>2. {p \in Page : stream[p] = "open"} = {}
    BY <2>1
  <2>3. ListenersAreStreams
    BY <2>1, <2>2, FS_EmptySet DEF ListenersAreStreams
  <2>4. stream \in [Page -> {"none", "ticket", "open"}] /\ told \in [Page -> BOOLEAN]
    BY <2>1
  <2>5. window \in BOOLEAN /\ trailing \in {"none", "set", "due"}
    BY <2>1
  <2>6. listeners \in Nat /\ opens \in Nat /\ listeners + opens <= scenario.opens
    BY <1>2, <2>1
  <2> QED BY <2>3, <2>4, <2>5, <2>6 DEF FeedOK
<1>17. QED
  BY <1>9, <1>10, <1>13, <1>14, <1>15, <1>16 DEF Base

LEMMA BaseAlways == Spec => []Base
<1>1. Base /\ [Next]_vars => Base'
  BY BaseStep
<1>2. QED
  BY <1>1, BaseInit, PTL DEF Spec

(* Every variable keeps its type and every counter stays in its bounds:    *)
(* the revision and the version run no further than the calls that are     *)
(* left allow, whatever late command or restart comes in between.          *)
THEOREM FreshnessTypeCorrect == Spec => []FreshnessTypeOK
<1>1. Base => FreshnessTypeOK
  <2> SUFFICES ASSUME Base PROVE FreshnessTypeOK
    OBVIOUS
  <2>1. listeners \in 0..scenario.opens /\ opens \in 0..scenario.opens
    BY InScenario DEF Base, FeedOK, ScenarioOK
  <2>2. db \in Rev
    <3>1. db \in Nat /\ db + Cardinality(Left(ToWrite)) <= MaxRev
          /\ Cardinality(Left(ToWrite)) \in Nat
      BY FS_CardinalityType DEF Base, RevisionOK
    <3> QED BY <3>1, RevFacts DEF Rev
  <2>3. /\ cache \in [Keys -> Rev] /\ shown \in [Page -> Rev]
        /\ late \subseteq [key : Keys, value : Rev]
        /\ reader \in [Client -> [at : ReaderStates, key : Keys \cup {Listing}, v : Rev]]
    BY DEF Base, EntriesOK, ReaderType
  <2>4. writer \in [Writer -> [at : WriterStates, v : Rev]] /\ DOMAIN jobs = Writer
    BY DEF Base, JobsOK, WriterType
  <2>5. /\ window \in BOOLEAN /\ trailing \in {"none", "set", "due"}
        /\ stream \in [Page -> {"none", "ticket", "open"}] /\ told \in [Page -> BOOLEAN]
    BY DEF Base, FeedOK
  <2> QED BY <2>1, <2>2, <2>3, <2>4, <2>5 DEF FreshnessTypeOK, Base, ScenarioOK
<1>2. QED
  BY <1>1, BaseAlways, PTL

(* The service's own count of connections is the number of streams that    *)
(* are open, for any number of pages, tickets and restarts.                *)
THEOREM CountIsTheStreams == Spec => []ListenersAreStreams
<1>1. Base => ListenersAreStreams
  BY DEF Base, FeedOK
<1>2. QED
  BY <1>1, BaseAlways, PTL

-----------------------------------------------------------------------------
(* The list at the current version.                                        *)

(* A writer that will still move the version from where it is.             *)
WillMove(w) ==
  \/ writer[w].at \in {"delete", "version"}
  \/ writer[w].at = "bump" /\ writer[w].v = cache[Version]

Moving == \E w \in Writer : WillMove(w)

(* A writer that will bump no more.                                        *)
Over(w) == jobs[w] = <<>> \/ (writer[w].at \in Bumped /\ Len(jobs[w]) = 1)

Calm ==
  /\ late = {} /\ cache[Version] # 0
  /\ \A w \in Writer : writer[w].at \notin {"set_version", "commit"}
  /\ \A c \in Client : reader[c].at # "set_version"

JobsLeft ==
  \A w \in Writer :
    /\ Len(jobs[w]) <= Len(scenario.jobs[w])
    /\ \A i \in DOMAIN jobs[w] : Invalidates(jobs[w][i]) = "after"

(* Of two writers with one write each, one may bump from the version the   *)
(* other has moved on from: it leaves the version where it is.             *)
InStep ==
  \A w \in Writer :
    writer[w].at = "bump" =>
      \/ writer[w].v = cache[Version]
      \/ writer[w].v + 1 = cache[Version] /\ \A x \in Writer \ {w} : Over(x)

(* Nobody is ahead of the version.                                         *)
NotAhead ==
  /\ \A u \in 1..MaxRev : u > cache[Version] => cache[ListKey(u)] = 0
  /\ \A c \in Client : reader[c].at \in {"get", "produce", "fill"} =>
       reader[c].key = Detail \/ \E u \in 0..cache[Version] : reader[c].key = ListKey(u)

(* What is stored, or about to be, at the current version is current, or   *)
(* the version is about to leave it behind.                                *)
UpToDate ==
  Moving \/ /\ cache[ListKey(cache[Version])] \in {0, db}
            /\ \A c \in Client :
                 reader[c].at = "fill" /\ reader[c].key = ListKey(cache[Version])
                   => reader[c].v = db

Current == Calm /\ JobsLeft /\ InStep /\ NotAhead /\ UpToDate

(* Redis answers.                                                          *)
LEMMA RedisAnswers ==
  ASSUME Base, Orderly
  PROVE  /\ outage = FALSE
         /\ \A key : Answers(key) = {cache[key]}
         /\ \A key, value : Store(key, value) =>
              cache' = [cache EXCEPT ![key] = value] /\ late' = late
<1>1. outage = FALSE
  BY InScenario DEF Base, ScenarioOK, Orderly
<1>2. QED
  BY <1>1 DEF Answers, Store

LEMMA VersionFacts ==
  ASSUME Base, Current
  PROVE  /\ cache \in [Keys -> Rev] /\ Version \in Keys
         /\ cache[Version] \in 1..MaxRev /\ ListKey(cache[Version]) \in Keys
<1>1. cache \in [Keys -> Rev] /\ Version \in Keys
  BY KeyFacts DEF Base, EntriesOK
<1>2. cache[Version] \in Rev /\ cache[Version] # 0
  BY <1>1 DEF Current, Calm
<1>3. cache[Version] \in 1..MaxRev
  BY <1>2, RevFacts DEF Rev
<1>4. QED
  BY <1>1, <1>3, KeyFacts

(* With two writers that have something left, each has one write, and      *)
(* nobody else has any.                                                    *)
LEMMA TwoBusy ==
  ASSUME Base, Orderly, JobsLeft, NEW w \in Writer, NEW x \in Writer, w # x,
         jobs[w] # <<>>, jobs[x] # <<>>
  PROVE  /\ Len(jobs[w]) = 1
         /\ \A y \in Writer \ {w, x} : jobs[y] = <<>>
<1>1. JobsOK /\ scenario.jobs \in [Writer -> Seq(Paths)]
  BY InScenario DEF Base, ScenarioOK
<1>2. ASSUME NEW y \in Writer, jobs[y] # <<>>
      PROVE  y \in Busy /\ Len(jobs[y]) \in Nat /\ Len(jobs[y]) >= 1
  <2>1. jobs[y] \in Seq(Paths)
    BY <1>1 DEF JobsOK
  <2>2. Len(jobs[y]) \in Nat /\ Len(jobs[y]) >= 1
    BY <1>2, <2>1, EmptySeq
  <2>3. scenario.jobs[y] # <<>>
    <3>1. Len(jobs[y]) <= Len(scenario.jobs[y])
      BY DEF JobsLeft
    <3>2. Len(<<>>) = 0
      BY EmptySeq
    <3> QED BY <2>2, <3>1, <3>2
  <2> QED BY <2>2, <2>3 DEF Busy
<1>3. IsFiniteSet(Busy)
  BY FreshnessAssumption, FS_Subset DEF FreshnessAssumption, Busy
<1>4. Cardinality(Busy) \in Nat
  BY <1>3, FS_CardinalityType
<1>5. IsFiniteSet({w, x}) /\ Cardinality({w, x}) = 2
  <2>1. IsFiniteSet({w}) /\ Cardinality({w}) = 1
    BY FS_Singleton
  <2>2. {w, x} = {w} \cup {x} /\ x \notin {w}
    OBVIOUS
  <2>3. /\ IsFiniteSet({w} \cup {x})
        /\ Cardinality({w} \cup {x}) = Cardinality({w}) + 1
    BY <2>1, <2>2, FS_AddElement
  <2> QED BY <2>1, <2>2, <2>3
<1>6. {w, x} \subseteq Busy
  BY <1>2
<1>7. Cardinality(Busy) >= 2
  BY <1>3, <1>4, <1>5, <1>6, FS_Subset
<1>8. Cardinality(Busy) = 2 /\ \A y \in Writer : Len(scenario.jobs[y]) < 2
  BY <1>4, <1>7 DEF Orderly
<1>9. Busy = {w, x}
  BY <1>3, <1>5, <1>6, <1>8, FS_Subset
<1>10. Len(jobs[w]) = 1
  <2>1. Len(scenario.jobs[w]) \in Nat
    BY <1>1, LenProperties
  <2>2. Len(jobs[w]) <= Len(scenario.jobs[w]) /\ Len(scenario.jobs[w]) < 2
    BY <1>8 DEF JobsLeft
  <2>3. Len(jobs[w]) \in Nat /\ Len(jobs[w]) >= 1
    BY <1>2
  <2> DEFINE n == Len(jobs[w])
             m == Len(scenario.jobs[w])
  <2>4. n \in Nat /\ m \in Nat /\ n >= 1 /\ n <= m /\ m < 2
    BY <2>1, <2>2, <2>3
  <2> HIDE DEF n, m
  <2>5. n = 1
    BY <2>4
  <2> QED BY <2>5 DEF n
<1>11. QED
  BY <1>2, <1>9, <1>10

-----------------------------------------------------------------------------
(* Readers, and the list at the current version.                           *)

(* A reader moves, the version stands still, and what is stored at the     *)
(* version is current if anything is.                                      *)
LEMMA ReaderKeepsCurrent ==
  ASSUME Base, Current, NEW c \in Client, NEW r,
         reader' = [reader EXCEPT ![c] = r], r.at # "set_version",
         r.at \in {"get", "produce", "fill"} =>
           r.key = Detail \/ \E u \in 0..cache[Version] : r.key = ListKey(u),
         r.at = "fill" => r.v = db,
         UNCHANGED <<db, jobs, writer, scenario, late>>,
         cache'[Version] = cache[Version],
         \A u \in 1..MaxRev : u > cache[Version] => cache'[ListKey(u)] = cache[ListKey(u)],
         ~Moving => cache'[ListKey(cache[Version])] \in {0, db}
  PROVE  Current'
<1>1. reader \in [Client -> ReaderType]
  BY DEF Base, EntriesOK
<1>2. \A d \in Client : reader'[d] = IF d = c THEN r ELSE reader[d]
  BY <1>1
<1>3. Calm'
  BY <1>2 DEF Current, Calm
<1>4. JobsLeft'
  BY DEF Current, JobsLeft
<1>5. InStep'
  BY DEF Current, InStep, Over
<1>6. NotAhead'
  BY <1>2 DEF Current, NotAhead
<1>7. Moving' <=> Moving
  BY DEF Moving, WillMove
<1>8. UpToDate'
  <2>1. CASE Moving
    BY <1>7, <2>1 DEF UpToDate
  <2>2. CASE ~Moving
    BY <1>2, <2>2 DEF Current, UpToDate
  <2> QED BY <2>1, <2>2
<1>9. QED
  BY <1>3, <1>4, <1>5, <1>6, <1>8 DEF Current

LEMMA ReadersStayCurrent ==
  ASSUME Base, Orderly, Current, NEW c \in Client, ReadStep(c) \/ VisitDetail(c)
  PROVE  Current'
<1>1. /\ \A key : Answers(key) = {cache[key]}
      /\ \A key, value : Store(key, value) =>
           cache' = [cache EXCEPT ![key] = value] /\ late' = late
  BY RedisAnswers
<1>2. /\ cache \in [Keys -> Rev] /\ Version \in Keys
      /\ cache[Version] \in 1..MaxRev /\ ListKey(cache[Version]) \in Keys
      /\ cache[Version] \in Nat
  BY VersionFacts, RevFacts
<1>3. UNCHANGED <<db, jobs, writer, scenario>>
  BY DEF ReadStep, VisitDetail, Read, StartRead, ReadVersion, SetFirstVersion, GetEntry, Produce,
         Fill, Answer, ReadOnly
<1>4. /\ \A d \in Client : reader[d].at # "set_version"
      /\ ~Moving => cache[ListKey(cache[Version])] \in {0, db}
  BY DEF Current, Calm, UpToDate
<1>5. reader[c].at \in {"get", "produce", "fill"} =>
        reader[c].key = Detail \/ \E u \in 0..cache[Version] : reader[c].key = ListKey(u)
  BY DEF Current, NotAhead
<1>6. ASSUME NEW key \in {Listing, Detail}, StartRead(c, key) PROVE Current'
  <2> DEFINE r == [at |-> IF ~Cached THEN "produce" ELSE IF key = Detail THEN "get" ELSE "version",
                   key |-> key, v |-> 0]
  <2>1. reader' = [reader EXCEPT ![c] = r] /\ UNCHANGED <<cache, late>>
    BY <1>6 DEF StartRead, Goes
  <2>2. r.at \notin {"set_version", "fill"} /\ r.key = key
    OBVIOUS
  <2>3. key = Detail \/ \E u \in 0..cache[Version] : key = ListKey(u)
    BY <1>2 DEF Listing
  <2> HIDE DEF r
  <2> QED BY <1>3, <1>4, <2>1, <2>2, <2>3, ReaderKeepsCurrent
<1>7. ASSUME ReadVersion(c) PROVE Current'
  <2> DEFINE r == [at |-> "get", key |-> ListKey(cache[Version]), v |-> 0]
  <2>1. reader' = [reader EXCEPT ![c] = r] /\ UNCHANGED <<cache, late>>
    BY <1>1, <1>2, <1>7 DEF ReadVersion, Goes
  <2>2. r.at = "get" /\ r.key = ListKey(cache[Version]) /\ cache[Version] \in 0..cache[Version]
    BY <1>2
  <2> HIDE DEF r
  <2> QED BY <1>3, <1>4, <2>1, <2>2, ReaderKeepsCurrent
<1>8. ASSUME SetFirstVersion(c) PROVE Current'
  BY <1>4, <1>8 DEF SetFirstVersion, Reading
<1>9. ASSUME GetEntry(c) PROVE Current'
  <2> DEFINE hit == cache[reader[c].key]
             r == [at |-> IF hit = 0 THEN "produce" ELSE "answer", key |-> reader[c].key, v |-> hit]
  <2>1. reader' = [reader EXCEPT ![c] = r] /\ UNCHANGED <<cache, late>> /\ reader[c].at = "get"
    BY <1>1, <1>9 DEF GetEntry, Goes, Reading
  <2>2. r.at \in {"produce", "answer"} /\ r.key = reader[c].key
    OBVIOUS
  <2> HIDE DEF r
  <2> QED BY <1>3, <1>4, <1>5, <2>1, <2>2, ReaderKeepsCurrent
<1>10. ASSUME Produce(c) PROVE Current'
  <2> DEFINE r == [at |-> IF Cached THEN "fill" ELSE "answer", key |-> reader[c].key, v |-> db]
  <2>1. reader' = [reader EXCEPT ![c] = r] /\ UNCHANGED <<cache, late>> /\ reader[c].at = "produce"
    BY <1>10 DEF Produce, Goes, Reading
  <2>2. r.at \in {"fill", "answer"} /\ r.key = reader[c].key /\ r.v = db
    OBVIOUS
  <2> HIDE DEF r
  <2> QED BY <1>3, <1>4, <1>5, <2>1, <2>2, ReaderKeepsCurrent
<1>11. ASSUME Fill(c) PROVE Current'
  <2> DEFINE key == reader[c].key
             value == reader[c].v
             r == [at |-> "answer", key |-> key, v |-> value]
  <2>1. reader' = [reader EXCEPT ![c] = r] /\ cache' = [cache EXCEPT ![key] = value]
        /\ late' = late /\ reader[c].at = "fill"
    BY <1>1, <1>11 DEF Fill, Goes, Reading
  <2>2. r.at = "answer"
    OBVIOUS
  <2>3. key \in Keys \ {Version}
    BY <2>1 DEF Base, EntriesOK
  <2>4. key = Detail \/ \E u \in 0..cache[Version] : key = ListKey(u)
    BY <1>5, <2>1
  <2>5. ~Moving /\ key = ListKey(cache[Version]) => value = db
    BY <2>1 DEF Current, UpToDate
  <2> HIDE DEF key, value, r
  <2>6. cache'[Version] = cache[Version]
    BY <1>2, <2>1, <2>3
  <2>7. \A u \in 1..MaxRev : u > cache[Version] => cache'[ListKey(u)] = cache[ListKey(u)]
    <3>1. ASSUME NEW u \in 1..MaxRev, u > cache[Version] PROVE ListKey(u) # key
      <4>1. ListKey(u) # Detail /\ \A n \in 0..cache[Version] : ListKey(u) = ListKey(n) => u = n
        BY KeyFacts
      <4>2. \A n \in 0..cache[Version] : u # n
        BY <1>2, <3>1
      <4> QED BY <2>4, <4>1, <4>2
    <3> QED BY <1>2, <2>1, <3>1, KeyFacts
  <2>8. ~Moving => cache'[ListKey(cache[Version])] \in {0, db}
    BY <1>2, <1>4, <2>1, <2>5
  <2> QED BY <1>3, <2>1, <2>2, <2>6, <2>7, <2>8, ReaderKeepsCurrent
<1>12. ASSUME Answer(c) PROVE Current'
  <2>1. reader' = [reader EXCEPT ![c] = Idle] /\ UNCHANGED <<cache, late>>
    BY <1>12 DEF Answer
  <2> QED BY <1>3, <1>4, <2>1, IdleTyped, ReaderKeepsCurrent
<1>13. QED
  BY <1>6, <1>7, <1>8, <1>9, <1>10, <1>11, <1>12 DEF ReadStep, VisitDetail, Read

-----------------------------------------------------------------------------
(* Writers, and the list at the current version.                           *)

(* A writer takes a step, and the version stands still.                    *)
LEMMA WriterKeepsCurrent ==
  ASSUME Base, Current, NEW w \in Writer, NEW r,
         writer' = [writer EXCEPT ![w] = r],
         r.at \notin {"set_version", "commit"},
         r.at = "bump" => r.v = cache[Version],
         Over(w) => Over(w)',
         \A x \in Writer \ {w} : jobs'[x] = jobs[x],
         /\ Len(jobs'[w]) <= Len(scenario.jobs[w])
         /\ \A i \in DOMAIN jobs'[w] : Invalidates(jobs'[w][i]) = "after",
         UNCHANGED <<reader, scenario, late>>,
         \A key \in Keys : key # Detail => cache'[key] = cache[key],
         r.at \in {"delete", "version", "bump"} \/ (~WillMove(w) /\ db' = db)
  PROVE  Current'
<1>1. writer \in [Writer -> WriterType]
  BY DEF Base, JobsOK
<1>2. writer'[w] = r /\ \A x \in Writer \ {w} : writer'[x] = writer[x]
  BY <1>1
<1>3. /\ Version \in Keys /\ ListKey(cache[Version]) \in Keys
      /\ cache'[Version] = cache[Version]
      /\ cache'[ListKey(cache[Version])] = cache[ListKey(cache[Version])]
  BY VersionFacts, KeyFacts
<1>4. Calm'
  BY <1>2, <1>3 DEF Current, Calm
<1>5. JobsLeft'
  BY DEF Current, JobsLeft
<1>6. \A x \in Writer : Over(x) => Over(x)'
  <2>1. ASSUME NEW x \in Writer, x # w, Over(x) PROVE Over(x)'
    BY <1>2, <2>1 DEF Over
  <2> QED BY <2>1
<1>7. InStep'
  <2>1. ASSUME NEW x \in Writer, writer'[x].at = "bump"
        PROVE  \/ writer'[x].v = cache'[Version]
               \/ writer'[x].v + 1 = cache'[Version] /\ \A y \in Writer \ {x} : Over(y)'
    <3>1. CASE x = w
      BY <1>2, <1>3, <2>1, <3>1
    <3>2. CASE x # w
      BY <1>2, <1>3, <1>6, <2>1, <3>2 DEF Current, InStep
    <3> QED BY <3>1, <3>2
  <2> QED BY <2>1 DEF InStep
<1>8. NotAhead'
  <2>1. ASSUME NEW u \in 1..MaxRev, u > cache[Version] PROVE cache'[ListKey(u)] = 0
    <3>1. ListKey(u) \in Keys /\ ListKey(u) # Detail /\ cache[ListKey(u)] = 0
      BY <2>1, KeyFacts DEF Current, NotAhead
    <3> QED BY <3>1
  <2> QED BY <1>3, <2>1 DEF Current, NotAhead
<1>9. UpToDate'
  <2>1. CASE r.at \in {"delete", "version", "bump"}
    <3>1. WillMove(w)'
      BY <1>2, <1>3, <2>1 DEF WillMove
    <3>2. Moving'
      BY <3>1 DEF Moving
    <3> QED BY <3>2 DEF UpToDate
  <2>2. CASE ~WillMove(w) /\ db' = db
    <3>1. ASSUME Moving PROVE Moving'
      <4>1. PICK x \in Writer : WillMove(x)
        BY <3>1 DEF Moving
      <4>2. x # w
        BY <2>2, <4>1
      <4>3. WillMove(x)'
        BY <1>2, <1>3, <4>1, <4>2 DEF WillMove
      <4> QED BY <4>3 DEF Moving
    <3>2. CASE Moving
      BY <3>1, <3>2 DEF UpToDate
    <3>3. CASE ~Moving
      BY <1>3, <2>2, <3>3 DEF Current, UpToDate
    <3> QED BY <3>2, <3>3
  <2> QED BY <2>1, <2>2
<1>10. QED
  BY <1>4, <1>5, <1>7, <1>8, <1>9 DEF Current

(* The version moves on: nothing is stored, or about to be, where it goes. *)
LEMMA BumpMovesOn ==
  ASSUME Base, Orderly, Current, NEW w \in Writer,
         writer[w].at = "bump", writer[w].v = cache[Version],
         writer' = [writer EXCEPT ![w] = [at |-> "publish", v |-> 0]],
         cache' = [cache EXCEPT ![Version] = cache[Version] + 1],
         UNCHANGED <<jobs, reader, scenario, late, db>>
  PROVE  Current'
<1> DEFINE v == cache[Version]
<1>1. writer \in [Writer -> WriterType] /\ JobsOK
  BY DEF Base, JobsOK
<1>2. /\ cache \in [Keys -> Rev] /\ Version \in Keys /\ v \in 1..MaxRev /\ v \in Nat
  BY VersionFacts, RevFacts
<1>3. v + 1 \in 1..MaxRev
  <2>1. Reach < MaxRev /\ Reach \in 1..MaxRev /\ v <= Reach
    BY RoomToBump DEF Bumped, Base, VersionsOK
  <2> HIDE DEF v, Reach
  <2> QED BY <1>2, <2>1, RevFacts
<1>4. /\ writer'[w].at = "publish" /\ \A x \in Writer \ {w} : writer'[x] = writer[x]
      /\ cache'[Version] = v + 1 /\ \A key \in Keys \ {Version} : cache'[key] = cache[key]
  BY <1>1, <1>2
<1>5. Calm'
  BY <1>2, <1>4 DEF Current, Calm
<1>6. JobsLeft'
  BY DEF Current, JobsLeft
<1>7. jobs[w] # <<>> /\ ~Over(w)
  BY <1>1 DEF JobsOK, Over, Bumped
<1>8. InStep'
  <2>1. ASSUME NEW x \in Writer, writer'[x].at = "bump"
        PROVE  writer'[x].v + 1 = cache'[Version] /\ \A y \in Writer \ {x} : Over(y)'
    <3>1. x # w /\ writer'[x] = writer[x] /\ jobs[x] # <<>>
      BY <1>1, <1>4, <2>1 DEF JobsOK
    <3>2. writer[x].v = v
      BY <1>7, <2>1, <3>1 DEF Current, InStep
    <3>3. Len(jobs[w]) = 1 /\ \A y \in Writer \ {w, x} : jobs[y] = <<>>
      BY <1>7, <3>1, TwoBusy DEF Current
    <3>4. ASSUME NEW y \in Writer \ {x} PROVE Over(y)'
      BY <1>4, <3>3 DEF Over, Bumped
    <3> QED BY <1>4, <3>1, <3>2, <3>4
  <2> QED BY <2>1 DEF InStep
<1>9. NotAhead'
  <2>1. ASSUME NEW u \in 1..MaxRev, u > v + 1 PROVE cache'[ListKey(u)] = 0
    <3>1. ListKey(u) \in Keys \ {Version} /\ u > v
      BY <1>2, <2>1, KeyFacts
    <3> QED BY <1>4, <3>1 DEF Current, NotAhead
  <2>2. 0..v \subseteq 0..(v + 1)
    BY <1>2
  <2> QED BY <1>4, <2>1, <2>2 DEF Current, NotAhead
<1>10. UpToDate'
  <2>1. cache'[ListKey(v + 1)] = 0
    <3>1. ListKey(v + 1) \in Keys \ {Version} /\ v + 1 > v
      BY <1>2, <1>3, KeyFacts
    <3> QED BY <1>3, <1>4, <3>1 DEF Current, NotAhead
  <2>2. ASSUME NEW c \in Client, reader[c].at = "fill", reader[c].key = ListKey(v + 1)
        PROVE  FALSE
    <3>1. reader[c].key = Detail \/ \E u \in 0..v : reader[c].key = ListKey(u)
      BY <2>2 DEF Current, NotAhead
    <3>2. ListKey(v + 1) # Detail /\ \A u \in 0..v : ListKey(v + 1) = ListKey(u) => v + 1 = u
      BY KeyFacts
    <3>3. \A u \in 0..v : v + 1 # u
      BY <1>2
    <3> HIDE DEF v
    <3> QED BY <2>2, <3>1, <3>2, <3>3
  <2> QED BY <1>4, <2>1, <2>2 DEF UpToDate
<1>11. QED
  BY <1>5, <1>6, <1>8, <1>9, <1>10 DEF Current

LEMMA WritersStayCurrent ==
  ASSUME Base, Orderly, Current, NEW w \in Writer, BeginWrite(w) \/ WriteStep(w)
  PROVE  Current'
<1> DEFINE To1(at, v) == [at |-> at, v |-> v]
<1>1. /\ \A key : Answers(key) = {cache[key]}
      /\ \A key, value : Store(key, value) =>
           cache' = [cache EXCEPT ![key] = value] /\ late' = late
  BY RedisAnswers
<1>2. /\ cache \in [Keys -> Rev] /\ Version \in Keys /\ Detail \in Keys
      /\ cache[Version] \in 1..MaxRev /\ cache[Version] # 0
  BY VersionFacts, KeyFacts DEF Current, Calm
<1>3. UNCHANGED <<reader, scenario>>
  BY DEF BeginWrite, WriteStep, StartWrite, DeleteDetail, ReadToBump, SetToBump, Bump, Announce,
         CommitWrite, Respond, WriteOnly
<1>4. /\ JobsOK /\ jobs[w] \in Seq(Paths) /\ Len(jobs[w]) \in Nat
      /\ writer[w].at # "idle" => jobs[w] # <<>>
      /\ writer[w].at \notin {"set_version", "commit"}
      /\ Len(jobs[w]) <= Len(scenario.jobs[w])
      /\ \A i \in DOMAIN jobs[w] : Invalidates(jobs[w][i]) = "after"
  BY JobsTyped DEF Base, JobsOK, Current, Calm, JobsLeft
<1>5. jobs[w] # <<>> => Invalidates(Path(w)) = "after"
  <2>1. ASSUME jobs[w] # <<>> PROVE 1 \in DOMAIN jobs[w] /\ Path(w) = jobs[w][1]
    BY <1>4, <2>1, EmptySeq, LenProperties DEF Path
  <2> QED BY <1>4, <2>1
(* Steps of the handler that leave the version alone.                      *)
<1>6. ASSUME NEW at \in {"delete", "version", "bump", "respond"}, NEW v,
             writer' = [writer EXCEPT ![w] = To1(at, v)], UNCHANGED <<jobs, late>>,
             at = "bump" => v = cache[Version],
             \A key \in Keys : key # Detail => cache'[key] = cache[key],
             \/ at \in {"delete", "version", "bump"} /\ writer[w].at \notin Bumped
             \/ at = "respond" /\ writer[w].at = "publish" /\ db' = db,
             jobs[w] # <<>>
      PROVE  Current'
  <2> DEFINE r == To1(at, v)
  <2>1. r.at = at /\ r.v = v
    OBVIOUS
  <2>2. writer'[w] = r
    BY <1>4, <1>6 DEF JobsOK
  <2> HIDE DEF r
  <2>3. Over(w) => Over(w)'
    BY <1>6, <2>1, <2>2 DEF Over, Bumped
  <2>4. r.at \in {"delete", "version", "bump"} \/ (~WillMove(w) /\ db' = db)
    BY <1>6, <2>1 DEF WillMove
  <2>5. r.at \notin {"set_version", "commit"} /\ (r.at = "bump" => r.v = cache[Version])
    BY <1>6, <2>1
  <2>6. writer' = [writer EXCEPT ![w] = r]
    BY <1>6 DEF r
  <2> QED BY <1>3, <1>4, <1>6, <2>3, <2>4, <2>5, <2>6, WriterKeepsCurrent
<1>7. ASSUME StartWrite(w) PROVE Current'
  <2>1. jobs[w] # <<>> /\ writer[w].at = "idle" /\ UNCHANGED <<cache, late, jobs>>
    BY <1>7 DEF StartWrite, Writing
  <2>2. writer' = [writer EXCEPT ![w] = To1("delete", 0)]
    BY <1>5, <1>7, <2>1 DEF StartWrite, To
  <2> HIDE DEF To1
  <2> QED BY <1>6, <2>1, <2>2 DEF Bumped
<1>8. ASSUME DeleteDetail(w) PROVE Current'
  <2>1. writer[w].at = "delete" /\ UNCHANGED <<late, jobs>> /\ cache' = [cache EXCEPT ![Detail] = 0]
        /\ writer' = [writer EXCEPT ![w] = To1("version", 0)]
    BY <1>1, <1>8 DEF DeleteDetail, Writing, To
  <2>2. \A key \in Keys : key # Detail => cache'[key] = cache[key]
    BY <1>2, <2>1
  <2> HIDE DEF To1
  <2> QED BY <1>4, <1>6, <2>1, <2>2 DEF Bumped
<1>9. ASSUME ReadToBump(w) PROVE Current'
  <2>1. writer[w].at = "version" /\ UNCHANGED <<cache, late, jobs>>
        /\ writer' = [writer EXCEPT ![w] = To1("bump", cache[Version])]
    BY <1>1, <1>2, <1>9 DEF ReadToBump, Writing, To
  <2> HIDE DEF To1
  <2> QED BY <1>4, <1>6, <2>1 DEF Bumped
<1>10. ASSUME Bump(w) PROVE Current'
  <2> DEFINE n == writer[w].v
  <2>1. writer[w].at = "bump" /\ UNCHANGED <<late, jobs, db>>
        /\ cache' = [cache EXCEPT ![Version] = n + 1]
        /\ writer' = [writer EXCEPT ![w] = To1("publish", 0)]
    BY <1>1, <1>10 DEF Bump, Writing, To
  <2>2. CASE n = cache[Version]
    BY <1>3, <2>1, <2>2, BumpMovesOn
  <2>3. CASE n # cache[Version]
    <3>1. n + 1 = cache[Version]
      BY <2>1, <2>3 DEF Current, InStep
    <3>2. \A key \in Keys : cache'[key] = cache[key]
      BY <1>2, <2>1, <3>1
    <3> DEFINE r == To1("publish", 0)
    <3>3. r.at = "publish" /\ writer'[w] = r
      BY <1>4, <2>1 DEF JobsOK
    <3> HIDE DEF r
    <3>4. ~WillMove(w)
      BY <2>1, <2>3 DEF WillMove
    <3>5. Over(w) => Over(w)'
      BY <1>4, <2>1 DEF Over, Bumped
    <3>6. writer' = [writer EXCEPT ![w] = r]
      BY <2>1 DEF r
    <3> QED BY <1>3, <1>4, <2>1, <3>2, <3>3, <3>4, <3>5, <3>6, WriterKeepsCurrent
  <2> QED BY <2>2, <2>3
<1>11. ASSUME Announce(w) PROVE Current'
  <2>1. writer[w].at = "publish" /\ UNCHANGED <<db, cache, late, jobs>>
    BY <1>11 DEF Announce, Writing
  <2>2. writer' = [writer EXCEPT ![w] = To1("respond", 0)]
    BY <1>4, <1>5, <1>11, <2>1 DEF Announce, To
  <2> HIDE DEF To1
  <2> QED BY <1>4, <1>6, <2>1, <2>2
<1>12. ASSUME Respond(w) PROVE Current'
  <2> DEFINE r == To1("idle", 0)
  <2>1. writer[w].at = "respond" /\ UNCHANGED <<db, cache, late>>
        /\ writer' = [writer EXCEPT ![w] = r] /\ jobs' = [jobs EXCEPT ![w] = Tail(jobs[w])]
    BY <1>12 DEF Respond, Writing, To
  <2>2. r.at = "idle" /\ writer'[w] = r
    BY <1>4, <2>1 DEF JobsOK
  <2>3. jobs'[w] = Tail(jobs[w]) /\ \A x \in Writer \ {w} : jobs'[x] = jobs[x]
    BY <1>4, <2>1 DEF JobsOK
  <2> HIDE DEF r
  <2>4. jobs[w] # <<>> /\ Len(jobs[w]) >= 1
    BY <1>4, <2>1, EmptySeq
  <2>5. /\ Tail(jobs[w]) \in Seq(Paths) /\ Len(Tail(jobs[w])) = Len(jobs[w]) - 1
        /\ \A i \in 1 .. Len(Tail(jobs[w])) : Tail(jobs[w])[i] = jobs[w][i+1]
    BY <1>4, <2>4, HeadTailProperties
  <2>6. Over(w) => Over(w)'
    <3>1. ASSUME Over(w) PROVE Len(jobs'[w]) = 0
      BY <2>3, <2>4, <2>5, <3>1 DEF Over
    <3>2. ASSUME Len(jobs'[w]) = 0 PROVE jobs'[w] = <<>>
      BY <2>3, <2>5, <3>2, EmptySeq
    <3> QED BY <3>1, <3>2 DEF Over
  <2>7. Len(jobs'[w]) <= Len(scenario.jobs[w])
    <3> DEFINE m == Len(jobs[w])
               k == Len(scenario.jobs[w])
    <3>1. m \in Nat /\ k \in Nat /\ m <= k
      BY <1>4, InScenario, LenProperties DEF Base, ScenarioOK
    <3> HIDE DEF m, k
    <3>2. m - 1 <= k
      BY <3>1
    <3> QED BY <2>3, <2>5, <3>2 DEF m, k
  <2>8. \A i \in DOMAIN jobs'[w] : Invalidates(jobs'[w][i]) = "after"
    <3>1. DOMAIN Tail(jobs[w]) = 1 .. Len(Tail(jobs[w])) /\ DOMAIN jobs[w] = 1 .. Len(jobs[w])
      BY <1>4, <2>5, LenProperties
    <3>2. \A i \in 1 .. Len(Tail(jobs[w])) : i + 1 \in 1 .. Len(jobs[w])
      BY <1>4, <2>5
    <3> QED BY <1>4, <2>3, <2>5, <3>1, <3>2
  <2>9. ~WillMove(w)
    BY <2>1 DEF WillMove
  <2> QED BY <1>3, <2>1, <2>2, <2>3, <2>6, <2>7, <2>8, <2>9, WriterKeepsCurrent
<1>13. QED
  <2>1. ~SetToBump(w) /\ ~CommitWrite(w)
    BY <1>4 DEF SetToBump, CommitWrite, Writing
  <2> QED BY <1>7, <1>8, <1>9, <1>10, <1>11, <1>12, <2>1 DEF BeginWrite, WriteStep

LEMMA ExpiryStaysCurrent ==
  ASSUME Base, Current, NEW key \in Keys, RedisStep(key), UNCHANGED scenario
  PROVE  Current'
<1>1. /\ key \in Expiring /\ cache' = [cache EXCEPT ![key] = 0]
      /\ UNCHANGED <<db, late, reader, writer, jobs>>
  BY DEF RedisStep, Deliver, Expire, Current, Calm
<1>2. key # Version
  BY <1>1, KeyFacts
<1>3. /\ cache \in [Keys -> Rev] /\ Version \in Keys /\ ListKey(cache[Version]) \in Keys
  BY VersionFacts
<1>4. cache'[Version] = cache[Version]
      /\ \A other \in Keys : cache'[other] \in {0, cache[other]}
  BY <1>1, <1>2, <1>3
<1>5. Calm' /\ JobsLeft' /\ InStep'
  BY <1>1, <1>4 DEF Current, Calm, JobsLeft, InStep, Over
<1>6. NotAhead'
  BY <1>1, <1>4, KeyFacts DEF Current, NotAhead
<1>7. (Moving' <=> Moving) /\ cache'[ListKey(cache[Version])] \in {0, cache[ListKey(cache[Version])]}
  BY <1>1, <1>3, <1>4 DEF Moving, WillMove
<1>8. UpToDate'
  <2>1. CASE Moving
    BY <1>7, <2>1 DEF UpToDate
  <2>2. CASE ~Moving
    BY <1>1, <1>4, <1>7, <2>2 DEF Current, UpToDate
  <2> QED BY <2>1, <2>2
<1>9. QED
  BY <1>5, <1>6, <1>8 DEF Current

LEMMA CurrentStep ==
  ASSUME Base, Orderly => Current, [Next]_vars
  PROVE  Orderly' => Current'
<1>1. SUFFICES ASSUME Orderly' PROVE Current'
  OBVIOUS
<1>2. scenario' = scenario
  BY DEF Next, ReadStep, VisitDetail, BeginWrite, WriteStep, vars
<1>3. Orderly
  BY <1>1, <1>2 DEF Orderly, Busy
<1>4. Current
  BY <1>3
<1>5. ASSUME UNCHANGED <<cacheVars, scenario>> PROVE Current'
  <2>1. UNCHANGED <<db, cache, late, reader, writer, jobs>>
    BY <1>5 DEF cacheVars
  <2>2. Calm' /\ JobsLeft' /\ InStep' /\ NotAhead'
    BY <1>2, <1>4, <2>1 DEF Current, Calm, JobsLeft, InStep, Over, NotAhead
  <2>3. UpToDate'
    BY <1>4, <2>1 DEF Current, UpToDate, Moving, WillMove
  <2> QED BY <2>2, <2>3 DEF Current
<1>6. ASSUME NEW c \in Client, ReadStep(c) \/ VisitDetail(c) PROVE Current'
  BY <1>3, <1>4, <1>6, ReadersStayCurrent
<1>7. ASSUME NEW w \in Writer, BeginWrite(w) \/ WriteStep(w) PROVE Current'
  BY <1>3, <1>4, <1>7, WritersStayCurrent
<1>8. ASSUME NEW key \in Keys, RedisStep(key) PROVE Current'
  BY <1>2, <1>4, <1>8, ExpiryStaysCurrent
<1>9. ~Restart
  BY <1>3, InScenario DEF Restart, Orderly, Base, ScenarioOK
<1>10. QED
  BY <1>2, <1>5, <1>6, <1>7, <1>8, <1>9 DEF Next, vars

LEMMA CurrentInit == Init /\ Orderly => Current
<1> SUFFICES ASSUME Init, Orderly PROVE Current
  OBVIOUS
<1>1. Base /\ jobs = scenario.jobs /\ late = {}
  BY BaseInit DEF Init, CachingInit
<1>2. /\ cache = [k \in Keys |-> IF k = Version THEN 1 ELSE 0] /\ Version \in Keys
  BY InScenario, KeyFacts DEF Init, Orderly
<1>3. cache[Version] = 1
  BY <1>2
<1>4. \A w \in Writer : writer[w].at = "idle"
  BY DEF Init, CachingInit
<1>5. \A c \in Client : reader[c].at = "idle"
  BY DEF Init, CachingInit, Idle
<1>6. Calm
  BY <1>1, <1>3, <1>4, <1>5 DEF Calm
<1>7. JobsLeft
  <2>1. \A w \in Writer : Len(jobs[w]) \in Nat
    BY <1>1, JobsTyped DEF Base
  <2> QED BY <1>1, <2>1 DEF JobsLeft, Orderly
<1>8. InStep
  BY <1>4 DEF InStep
<1>9. NotAhead
  BY <1>2, <1>5, KeyFacts DEF NotAhead
<1>10. UpToDate
  BY <1>2, <1>3, <1>5, KeyFacts, RevFacts DEF UpToDate
<1>11. QED
  BY <1>6, <1>7, <1>8, <1>9, <1>10 DEF Current

(* Whenever no write is in the middle of its invalidation, the list stored *)
(* at the version a reader would be given is the current one, or none is,  *)
(* whatever slow readers have yet to store - for one writer with any       *)
(* number of writes, or two with one each, that invalidate after they      *)
(* commit, over a Redis that answers.                                      *)
THEOREM ListsStayCurrent == Spec => []ReachableListsAreCurrent
<1>1. Base /\ (Orderly => Current) => ReachableListsAreCurrent
  <2> SUFFICES ASSUME Base, Orderly, Current, Unsettled = {}
               PROVE  cache[ListKey(cache[Version])] \in {0, db}
    BY DEF ReachableListsAreCurrent
  <2>1. ~Moving
    BY DEF Moving, WillMove, Unsettled
  <2> QED BY <2>1 DEF Current, UpToDate
<1>2. Init => (Orderly => Current)
  BY CurrentInit
<1>3. Base /\ (Orderly => Current) /\ [Next]_vars => (Orderly => Current)'
  BY CurrentStep
<1>4. QED
  BY <1>1, <1>2, <1>3, BaseAlways, PTL DEF Spec
=============================================================================
