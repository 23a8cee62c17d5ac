------------------------------ MODULE Taxonomy ------------------------------
(***************************************************************************)
(* CategoriesService: the tree of categories.  Nothing in the database     *)
(* keeps it a tree but the foreign key on parent_id and a CHECK against a  *)
(* category that is its own parent; the rest is the walk that              *)
(* assertNoCycle makes, one SELECT for each ancestor, before the update.   *)
(***************************************************************************)
EXTENDS Catalogue

CONSTANTS
  Depth     \* how many ancestors assertNoCycle looks at

NoRow   == [exists |-> FALSE, active |-> TRUE, parent |-> NoCategory]
Deleted == [exists |-> FALSE, active |-> FALSE, parent |-> NoCategory]    \* ids are not reused

ChildrenOf(c) == {d \in Category : category[d].exists /\ category[d].parent = c}

(* Rows of services that refer to c, and those of them that are not        *)
(* deleted: the foreign key counts the first, the handler the second.      *)
FiledIn(c)  == {v \in Listing : listing[v].exists /\ listing[v].category = c}
ListedIn(c) == {v \in FiledIn(c) : ~listing[v].deleted}

treeOnly == <<profileVars, listing, gallery>>

Exists(c) == c # NoCategory => category[c].exists

CreateCategory(s, c, parent) ==
  /\ Begin(s) /\ category[c] = NoRow
  /\ Exists(parent)
  /\ Goes(s, "create_category", "insert", [id |-> c, parent |-> parent])
  /\ UNCHANGED catalogueVars

(* Two of the same name find the same free slug: one insert fails.         *)
InsertCategory(s) ==
  /\ Continue(s, "create_category", "insert") /\ Done(s)
  /\ LET new == Kept(s)
     IN  category' = IF category[new.id] # NoRow \/ ~Exists(new.parent) THEN category
                     ELSE [category EXCEPT ![new.id] =
                             [exists |-> TRUE, active |-> TRUE, parent |-> new.parent]]
  /\ UNCHANGED treeOnly

(* A new parent, or none, for category c.                                  *)
MoveCategory(s, c, parent) ==
  /\ Begin(s) /\ parent # c
  /\ Exists(parent)
  /\ Goes(s, "move_category", IF parent = NoCategory THEN "write" ELSE "climb",
          [id |-> c, parent |-> parent, cursor |-> parent, depth |-> 0])
  /\ UNCHANGED catalogueVars

(* Faulty: the walk is one ancestor shorter.                               *)
FaultyClimb(s) ==
  /\ Continue(s, "move_category", "climb")
  /\ LET k == Kept(s)
         Row == category[k.cursor]
     IN  IF k.cursor = NoCategory \/ k.depth + 1 = Depth
         THEN Goes(s, "move_category", "write", k)
         ELSE \/ k.cursor = k.id /\ Done(s)
              \/ /\ k.cursor # k.id
                 /\ Goes(s, "move_category", "climb",
                         [k EXCEPT !.depth = @ + 1,
                                   !.cursor = IF Row.exists THEN Row.parent ELSE NoCategory])
  /\ UNCHANGED catalogueVars

(* One turn of the loop: give up if c is an ancestor of its new parent,    *)
(* else go one up, until a root, a row that is gone, or Depth turns.       *)
Climb(s) ==
  /\ Continue(s, "move_category", "climb")
  /\ LET k == Kept(s)
         Row == category[k.cursor]
     IN  IF k.cursor = NoCategory \/ k.depth = Depth
         THEN Goes(s, "move_category", "write", k)
         ELSE \/ k.cursor = k.id /\ Done(s)
              \/ /\ k.cursor # k.id
                 /\ Goes(s, "move_category", "climb",
                         [k EXCEPT !.depth = @ + 1,
                                   !.cursor = IF Row.exists THEN Row.parent ELSE NoCategory])
  /\ UNCHANGED catalogueVars

WriteMove(s) ==
  /\ Continue(s, "move_category", "write") /\ Done(s)
  /\ LET k == Kept(s)
     IN  category' = IF ~category[k.id].exists \/ ~Exists(k.parent) THEN category
                     ELSE [category EXCEPT ![k.id].parent = k.parent]
  /\ UNCHANGED treeOnly

ShowCategory(s, c, active) ==
  /\ Begin(s) /\ category[c].exists
  /\ category' = [category EXCEPT ![c].active = active]
  /\ UNCHANGED <<handler, treeOnly>>

(* Both counts in one transaction; what they say is acted on later.  No    *)
(* controller calls remove yet; its races with the others are in it.       *)
RemoveCategory(s, c) ==
  /\ Begin(s) /\ ChildrenOf(c) = {}
  /\ Goes(s, "remove_category", IF ListedIn(c) # {} THEN "hide" ELSE "delete", c)
  /\ UNCHANGED catalogueVars

HideCategory(s) ==
  /\ Continue(s, "remove_category", "hide") /\ Done(s)
  /\ category' = IF category[Kept(s)].exists
                 THEN [category EXCEPT ![Kept(s)].active = FALSE] ELSE category
  /\ UNCHANGED treeOnly

(* The foreign keys are RESTRICT: a child or a listing that is there now,  *)
(* deleted or not, fails the request.                                      *)
DeleteCategory(s) ==
  /\ Continue(s, "remove_category", "delete") /\ Done(s)
  /\ category' = IF ChildrenOf(Kept(s)) # {} \/ FiledIn(Kept(s)) # {} THEN category
                 ELSE [category EXCEPT ![Kept(s)] = Deleted]
  /\ UNCHANGED treeOnly

(* Closed under parent: the categories of such a set hang below no root,   *)
(* and buildTree lists none of them.                                       *)
Loop(S) == S # {} /\ \A c \in S : category[c].exists /\ category[c].parent \in S
=============================================================================
