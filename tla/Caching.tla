------------------------------- MODULE Caching -------------------------------
(***************************************************************************)
(* CacheService over Redis, and the two kinds of handler that use it: one  *)
(* that reads a listing or a detail page through the cache, and one that   *)
(* writes and then invalidates.                                            *)
(*                                                                         *)
(* One namespace, one query and one row: the cache has a version counter,  *)
(* a list entry per version and a detail entry.  What an entry holds is    *)
(* the revision of the database it was computed from; 0 is "absent".       *)
(* Every call to Redis is an action, so other requests fall between two    *)
(* calls of a handler.                                                     *)
(***************************************************************************)
EXTENDS Feed

CONSTANTS
  Visitor,      \* clients that read and have no stream
  Writer,       \* requests that write, one at a time each
  MaxRev        \* bound: one more than the writes of an instance

VARIABLES
  db,           \* the revision of the watched resource
  cache,        \* what Redis holds under each key
  late,         \* commands that timed out and that Redis may still carry out
  outage,       \* whether Redis may fail to answer
  visits,       \* what visitors ask for: the listing, the detail or both
  reader,       \* the read each client is making
  writer,       \* the write each writer is making
  jobs          \* the paths each writer has still to call

cacheVars == <<db, cache, late, outage, visits, reader, writer, jobs>>

Client == Page \cup Visitor

Version == <<"version", 0>>
Detail  == <<"detail", 0>>

(* Faulty: the key of a list leaves out the version.                       *)
FaultyListKey(version) == <<"list", 1>>

(* A list key embeds the version, so moving the version orphans it.        *)
ListKey(version) == <<"list", version>>

Lists == {ListKey(v) : v \in 1..MaxRev}
Keys  == {Version, Detail} \cup Lists

(* Faulty: a detail is stored with no time to live.                        *)
FaultyExpiring == Lists

(* Listings and details carry a time to live, the counter none.            *)
Expiring == Lists \cup {Detail}

Cached == watched = "providers"

(* The listing, before its key is known.                                   *)
Listing == ListKey(0)

Idle == [at |-> "idle", key |-> Listing, v |-> 0]

-----------------------------------------------------------------------------
(* Redis, behind guard                                                     *)

(* What a get may answer: the entry, or nothing when the call timed out.   *)
Answers(key) == {cache[key]} \cup (IF outage THEN {0} ELSE {})

(* A set, or a del (of value 0).  One that times out is lost, or is still  *)
(* queued in the client and carried out later.                             *)
Store(key, value) ==
  \/ cache' = [cache EXCEPT ![key] = value] /\ UNCHANGED late
  \/ /\ outage
     /\ late' \in {late, late \cup {[key |-> key, value |-> value]}}
     /\ UNCHANGED cache

Deliver(key) ==
  /\ \E c \in late :
       /\ c.key = key
       /\ cache' = [cache EXCEPT ![key] = c.value]
       /\ late' = late \ {c}
  /\ UNCHANGED <<db, outage, visits, reader, writer, jobs>>

Expire(key) ==
  /\ key \in Expiring /\ cache[key] # 0
  /\ cache' = [cache EXCEPT ![key] = 0]
  /\ UNCHANGED <<db, late, outage, visits, reader, writer, jobs>>

-----------------------------------------------------------------------------
(* Reading: listKey and wrap                                               *)

Reading(c, at) == reader[c].at = at
ReadOnly == UNCHANGED <<db, outage, visits, writer, jobs>>

Goes(c, at, key, v) == reader' = [reader EXCEPT ![c] = [at |-> at, key |-> key, v |-> v]]

(* A page fetches the listing it shows when it is told to; a visitor asks  *)
(* for the listing or the detail.  What is not cached is read at once.     *)
StartRead(c, key) ==
  /\ Reading(c, "idle")
  /\ \/ c \in Page /\ told[c] /\ key = Listing /\ told' = [told EXCEPT ![c] = FALSE]
     \/ c \in Visitor /\ key \in visits /\ UNCHANGED told
  /\ Goes(c, IF ~Cached THEN "produce" ELSE IF key = Detail THEN "get" ELSE "version", key, 0)
  /\ ReadOnly /\ UNCHANGED <<cache, late>>

ReadVersion(c) ==
  /\ Reading(c, "version")
  /\ \E v \in Answers(Version) :
       IF v = 0 THEN Goes(c, "set_version", Listing, 0)
                ELSE Goes(c, "get", ListKey(v), 0)
  /\ ReadOnly /\ UNCHANGED <<cache, late>>

SetFirstVersion(c) ==
  /\ Reading(c, "set_version")
  /\ Store(Version, 1)
  /\ Goes(c, "get", ListKey(1), 0)
  /\ ReadOnly

(* A hit is the answer; a miss goes to the database.                       *)
GetEntry(c) ==
  /\ Reading(c, "get")
  /\ \E hit \in Answers(reader[c].key) :
       Goes(c, IF hit = 0 THEN "produce" ELSE "answer", reader[c].key, hit)
  /\ ReadOnly /\ UNCHANGED <<cache, late>>

Produce(c) ==
  /\ Reading(c, "produce")
  /\ Goes(c, IF Cached THEN "fill" ELSE "answer", reader[c].key, db)
  /\ ReadOnly /\ UNCHANGED <<cache, late>>

Fill(c) ==
  /\ Reading(c, "fill")
  /\ Store(reader[c].key, reader[c].v)
  /\ Goes(c, "answer", reader[c].key, reader[c].v)
  /\ ReadOnly

-----------------------------------------------------------------------------
(* Writing                                                                 *)

(* Where a handler invalidates: after its commit, before it - in the       *)
(* transaction still open - or nowhere, its resource not being cached.     *)
(* Users and categories leave the details alone; that is not told apart.   *)
Invalidates(path) ==
  CASE path \in {<<"reviews">>, <<"admin", "users">>, <<"admin", "providers">>} -> "inside"
    [] path \in {<<"providers">>, <<"services">>, <<"admin", "services">>,
                 <<"admin", "reviews">>, <<"admin", "categories">>} -> "after"
    [] OTHER -> "never"

Writing(w, at) == writer[w].at = at
To(w, at, v) == writer' = [writer EXCEPT ![w] = [at |-> at, v |-> v]]
Path(w) == Head(jobs[w])
WriteOnly == UNCHANGED <<outage, visits, reader>>

(* Up to the commit, or up to the invalidation that precedes it.           *)
StartWrite(w) ==
  /\ Writing(w, "idle") /\ jobs[w] # <<>>
  /\ IF Invalidates(Path(w)) = "inside"
     THEN To(w, "delete", 0) /\ UNCHANGED db
     ELSE /\ db' = db + 1
          /\ To(w, IF Invalidates(Path(w)) = "after" THEN "delete" ELSE "respond", 0)
  /\ WriteOnly /\ UNCHANGED <<cache, late, jobs>>

(* invalidateDetail.                                                       *)
DeleteDetail(w) ==
  /\ Writing(w, "delete")
  /\ Store(Detail, 0)
  /\ To(w, "version", 0)
  /\ WriteOnly /\ UNCHANGED <<db, jobs>>

(* invalidateLists, up to the bump: version() and its own set.             *)
ReadToBump(w) ==
  /\ Writing(w, "version")
  /\ \E v \in Answers(Version) : IF v = 0 THEN To(w, "set_version", 1) ELSE To(w, "bump", v)
  /\ WriteOnly /\ UNCHANGED <<db, cache, late, jobs>>

SetToBump(w) ==
  /\ Writing(w, "set_version")
  /\ Store(Version, 1)
  /\ To(w, "bump", 1)
  /\ WriteOnly /\ UNCHANGED <<db, jobs>>

Bump(w) ==
  /\ Writing(w, "bump")
  /\ Store(Version, writer[w].v + 1)
  /\ To(w, "publish", 0)
  /\ WriteOnly /\ UNCHANGED <<db, jobs>>

(* feed.publish(ns), and then the commit if it is still to come.           *)
Announce(w) ==
  /\ Writing(w, "publish")
  /\ Publish({"providers"})
  /\ To(w, IF Invalidates(Path(w)) = "inside" THEN "commit" ELSE "respond", 0)
  /\ WriteOnly /\ UNCHANGED <<db, cache, late, jobs>>

CommitWrite(w) ==
  /\ Writing(w, "commit")
  /\ db' = db + 1
  /\ To(w, "respond", 0)
  /\ WriteOnly /\ UNCHANGED <<cache, late, jobs>>

(* ChangePublishInterceptor, once the handler has succeeded.               *)
Respond(w) ==
  /\ Writing(w, "respond")
  /\ Publish(ResourcesFor(Path(w)))
  /\ jobs' = [jobs EXCEPT ![w] = Tail(@)]
  /\ To(w, "idle", 0)
  /\ WriteOnly /\ UNCHANGED <<db, cache, late>>

(* Requests under way are lost with the process; Redis is not.             *)
HandlersLost ==
  /\ reader' = [c \in Client |-> Idle]
  /\ writer' = [w \in Writer |-> [at |-> "idle", v |-> 0]]
  /\ jobs' = [w \in Writer |-> IF writer[w].at = "idle" THEN jobs[w] ELSE Tail(jobs[w])]
  /\ UNCHANGED <<db, cache, late, outage, visits>>

CachingInit ==
  /\ db = 1
  /\ late = {}
  /\ reader = [c \in Client |-> Idle]
  /\ writer = [w \in Writer |-> [at |-> "idle", v |-> 0]]
=============================================================================
