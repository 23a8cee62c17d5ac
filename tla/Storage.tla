------------------------------ MODULE Storage ------------------------------
(***************************************************************************)
(* UploadsService and the routes that attach a file to a row.  The file    *)
(* goes to object storage first, the row that names it follows in the      *)
(* database, and nothing spans the two: a request can end between any of   *)
(* its statements, and storage can fail to answer.                         *)
(*                                                                         *)
(* handler[s] is the request session s is in: which route, the statement   *)
(* it makes next, and what it has kept of its reads.  It is shared by the  *)
(* modules that extend this one.                                           *)
(***************************************************************************)
EXTENDS Naturals, Sequences, FiniteSets

CONSTANTS
  Session       \* requests that may be under way at once

VARIABLES
  objects,      \* keys of the objects in storage
  keys,         \* keys generated so far: the n-th key is n
  handler,      \* the request each session is in
  faults        \* bound: how often storage may still fail

storageVars == <<objects, keys, handler, faults>>
stored == <<objects, keys, faults>>

NoKey == 0

Idle == [route |-> "none", at |-> "idle", kept |-> <<>>]

At(s, route, step) == handler[s].route = route /\ handler[s].at = step
Kept(s) == handler[s].kept

Goes(s, route, step, kept) ==
  handler' = [handler EXCEPT ![s] = [route |-> route, at |-> step, kept |-> kept]]
Done(s) == handler' = [handler EXCEPT ![s] = Idle]

Begin(s) == At(s, "none", "idle") /\ UNCHANGED stored

(* A route that is past its first statement makes the next one.            *)
Continue(s, route, step) == At(s, route, step) /\ UNCHANGED stored

-----------------------------------------------------------------------------

(* What a request that uploads keeps: the row it is about, the key that    *)
(* row had, and the key of the new object.                                 *)
Upload(ref, old) == [ref |-> ref, old |-> old, key |-> NoKey]

(* store() begins: the file has passed the checks on size and bytes.       *)
Uploads(s, route, ref, old) == Goes(s, route, "put", Upload(ref, old))

(* driver.put under a new key.  A failure is a 503 to the caller, whether  *)
(* or not the object had arrived when storage stopped answering.           *)
Put(s) ==
  /\ handler[s].at = "put"
  /\ keys' = keys + 1
  /\ \/ /\ objects' = objects \cup {keys'}
        /\ Goes(s, handler[s].route, "row", [Kept(s) EXCEPT !.key = keys'])
        /\ UNCHANGED faults
     \/ /\ faults > 0 /\ faults' = faults - 1
        /\ objects' \in {objects, objects \cup {keys'}}
        /\ Done(s)

(* remove(): the caller is answered the same when storage fails.           *)
Discard(s) ==
  /\ handler[s].at = "discard"
  /\ \/ objects' = objects \ {Kept(s).old} /\ UNCHANGED faults
     \/ faults > 0 /\ faults' = faults - 1 /\ UNCHANGED objects
  /\ Done(s)
  /\ UNCHANGED keys

(* Faulty: the replaced object is left where it is.                        *)
FaultyReplaces(s) == Done(s)

(* After its row is written an upload removes the object it replaced.      *)
Replaces(s) ==
  IF Kept(s).old = NoKey THEN Done(s) ELSE Goes(s, handler[s].route, "discard", Kept(s))

(* A statement fails and the request with it.  Only the attachment route   *)
(* cleans up after itself: it removes the object it has stored.            *)
Fail(s) ==
  /\ handler[s].at \notin {"idle", "put", "discard"}
  /\ faults > 0 /\ faults' = faults - 1
  /\ IF handler[s].route = "attachment"
     THEN Goes(s, "attachment", "discard", [Kept(s) EXCEPT !.old = Kept(s).key])
     ELSE Done(s)
  /\ UNCHANGED <<objects, keys>>
=============================================================================
