---------------------------- MODULE TaxonomyProofs ----------------------------
(***************************************************************************)
(* Proof that the walk up the tree, one statement for each ancestor, keeps *)
(* every loop longer than the walk while moves do not overlap, whatever    *)
(* else comes, goes or is hidden between two of its statements.            *)
(*                                                                         *)
(* What makes it work is that a row's parent changes in a move only, that  *)
(* a new row is nobody's parent yet, and that the id of a deleted row is   *)
(* not used again.  So the rows the walk has passed are still passed: a    *)
(* set of rows that would become a loop with the move contains them all.   *)
(***************************************************************************)
EXTENDS UploadsProofs

-----------------------------------------------------------------------------
(* Trees of rows *)

LoopIn(rows, S) == S # {} /\ \A c \in S : rows[c].exists /\ rows[c].parent \in S

(* Every row of the set but c has its parent in it: with c below one of    *)
(* them, they would be a loop.                                             *)
HangsIn(rows, S, c) == \A d \in S \ {c} : rows[d].exists /\ rows[d].parent \in S

ParentsExist(rows) ==
  \A c \in Category :
    rows[c].exists => rows[c].parent = NoCategory \/ rows[rows[c].parent].exists

NoShortLoop(rows) == \A S \in SUBSET Category : LoopIn(rows, S) => Cardinality(S) > Depth

(* A step that moves no row: rows that appear are new, under a parent that *)
(* was there; rows that go leave their id used.                            *)
Unmoved(rows, next) ==
  \A c \in Category :
    /\ rows[c] # NoRow => next[c] # NoRow
    /\ next[c].exists /\ rows[c].exists => next[c].parent = rows[c].parent
    /\ next[c].exists /\ ~rows[c].exists =>
         rows[c] = NoRow /\ (next[c].parent = NoCategory \/ rows[next[c].parent].exists)

(* V is what the walk k has passed on the way from the new parent to its   *)
(* cursor.  It never passed the row to move, and every set that would      *)
(* become a loop contains V, the cursor, and so at least k.depth rows.     *)
PassedIn(rows, V, k) ==
  /\ \A v \in V : /\ v # k.id /\ rows[v] # NoRow
                  /\ rows[v].exists => rows[v].parent \in V \cup {k.cursor}
  /\ Cardinality(V) <= k.depth
  /\ \A S \in SUBSET Category :
       HangsIn(rows, S, k.id) /\ k.parent \in S
         => V \subseteq S /\ k.cursor \in S /\ Cardinality(V) = k.depth

WalkIn(rows, k) ==
  /\ k.parent # k.id /\ rows[k.parent] # NoRow
  /\ k.cursor # NoCategory => rows[k.cursor] # NoRow
  /\ k.depth <= Depth
  /\ \E V \in SUBSET Category : PassedIn(rows, V, k)

Climbing(h) == h.route = "move_category" /\ h.kept.parent # NoCategory

LoopsOK == Alone({"move_category"}) => NoShortLoop(category)

WalksOK ==
  Alone({"move_category"}) =>
    \A s \in Session : Climbing(handler[s]) =>
      /\ WalkIn(category, handler[s].kept)
      /\ handler[s].at = "write"
           => handler[s].kept.cursor = NoCategory \/ handler[s].kept.depth = Depth

-----------------------------------------------------------------------------
(* What a step that moves no row leaves true *)

LEMMA LoopsWereLoops ==
  ASSUME MarketplaceAssumption, NEW rows, NEW next, ParentsExist(rows), Unmoved(rows, next),
         NEW S \in SUBSET Category, LoopIn(next, S)
  PROVE  LoopIn(rows, {c \in S : rows[c].exists})
<1> DEFINE T == {c \in S : rows[c].exists}
<1>1. NoCategory \notin S
  BY DEF MarketplaceAssumption
<1>2. ASSUME NEW c \in S
      PROVE  IF rows[c].exists THEN rows[c].parent \in T ELSE next[c].parent \in T
  <2>1. next[c].exists /\ next[c].parent \in S /\ next[c].parent # NoCategory
    BY <1>1 DEF LoopIn
  <2>2. CASE rows[c].exists
    BY <2>1, <2>2 DEF Unmoved, ParentsExist
  <2>3. CASE ~rows[c].exists
    BY <2>1, <2>3 DEF Unmoved
  <2> QED
    BY <2>2, <2>3
<1>3. T # {}
  BY <1>2 DEF LoopIn
<1> QED
  BY <1>2, <1>3 DEF LoopIn

LEMMA HangedBefore ==
  ASSUME MarketplaceAssumption, NEW rows, NEW next, ParentsExist(rows), Unmoved(rows, next),
         NEW S \in SUBSET Category, NEW c, NEW p \in S, p # c, rows[p] # NoRow,
         HangsIn(next, S, c)
  PROVE  \E T \in SUBSET S : HangsIn(rows, T, c) /\ p \in T
<1> DEFINE T == {d \in S : d = c \/ rows[d].exists}
<1>1. NoCategory \notin S
  BY DEF MarketplaceAssumption
<1>2. ASSUME NEW d \in T \ {c}
      PROVE  rows[d].exists /\ rows[d].parent \in T
  <2>1. next[d].exists /\ next[d].parent \in S /\ next[d].parent # NoCategory
    BY <1>1 DEF HangsIn
  <2>2. rows[d].exists
    OBVIOUS
  <2> QED
    BY <2>1, <2>2 DEF Unmoved, ParentsExist
<1>3. next[p].exists
  BY DEF HangsIn
<1>4. p \in T
  BY <1>3 DEF Unmoved
<1>5. HangsIn(rows, T, c)
  BY <1>2 DEF HangsIn
<1>6. T \in SUBSET S
  OBVIOUS
<1> QED
  BY <1>4, <1>5, <1>6

LEMMA LoopsStayLong ==
  ASSUME MarketplaceAssumption, NEW rows, NEW next, ParentsExist(rows), Unmoved(rows, next),
         NoShortLoop(rows)
  PROVE  NoShortLoop(next)
<1> SUFFICES ASSUME NEW S \in SUBSET Category, LoopIn(next, S)
             PROVE  Cardinality(S) > Depth
  BY DEF NoShortLoop
<1> DEFINE T == {c \in S : rows[c].exists}
<1>1. T \in SUBSET Category /\ T \subseteq S /\ LoopIn(rows, T)
  BY LoopsWereLoops
<1>2. Cardinality(T) > Depth
  BY <1>1 DEF NoShortLoop
<1>3. IsFiniteSet(S)
  BY FS_Subset DEF MarketplaceAssumption
<1>4. /\ Cardinality(T) <= Cardinality(S) /\ IsFiniteSet(T)
      /\ Cardinality(T) \in Nat /\ Cardinality(S) \in Nat /\ Depth \in Nat
  BY <1>1, <1>3, FS_Subset, FS_CardinalityType DEF MarketplaceAssumption
<1> HIDE DEF T
<1> QED
  BY <1>2, <1>4

LEMMA WalkGoesOn ==
  ASSUME MarketplaceAssumption, NEW rows, NEW next, ParentsExist(rows), Unmoved(rows, next),
         NEW k \in Climber, k.parent # NoCategory, WalkIn(rows, k)
  PROVE  WalkIn(next, k)
<1>1. PICK V \in SUBSET Category : PassedIn(rows, V, k)
  BY DEF WalkIn
<1>2. k.parent \in Category /\ k.cursor \in Category \cup {NoCategory}
  BY DEF Climber
<1>3. ASSUME NEW v \in V
      PROVE  /\ v # k.id /\ next[v] # NoRow
             /\ next[v].exists => next[v].parent \in V \cup {k.cursor}
  <2>1. /\ v # k.id /\ rows[v] # NoRow
        /\ rows[v].exists => rows[v].parent \in V \cup {k.cursor}
    BY <1>1 DEF PassedIn
  <2> QED
    BY <2>1 DEF Unmoved
<1>4. ASSUME NEW S \in SUBSET Category, HangsIn(next, S, k.id), k.parent \in S
      PROVE  V \subseteq S /\ k.cursor \in S /\ Cardinality(V) = k.depth
  <2>1. k.parent # k.id /\ rows[k.parent] # NoRow
    BY DEF WalkIn
  <2>2. PICK T \in SUBSET S : HangsIn(rows, T, k.id) /\ k.parent \in T
    BY <1>4, <2>1, HangedBefore
  <2>3. T \in SUBSET Category
    OBVIOUS
  <2> QED
    BY <1>1, <2>2, <2>3 DEF PassedIn
<1>5. PassedIn(next, V, k)
  BY <1>1, <1>3, <1>4 DEF PassedIn
<1>6. /\ k.parent # k.id /\ next[k.parent] # NoRow
      /\ k.cursor # NoCategory => next[k.cursor] # NoRow
      /\ k.depth <= Depth
  BY <1>2 DEF WalkIn, Unmoved
<1> QED
  BY <1>5, <1>6 DEF WalkIn

(* One turn further up.  The cursor is not a row the walk passed before,   *)
(* if a loop is in the making: those rows alone would be a loop no longer  *)
(* than the walk.                                                          *)
LEMMA WalkClimbs ==
  ASSUME MarketplaceAssumption, NEW rows \in [Category -> CategoryRow], ParentsExist(rows),
         NoShortLoop(rows), NEW k \in Climber, WalkIn(rows, k),
         k.cursor # NoCategory, k.cursor # k.id, k.depth # Depth
  PROVE  WalkIn(rows, [k EXCEPT !.depth = @ + 1,
                                !.cursor = IF rows[k.cursor].exists THEN rows[k.cursor].parent
                                                                    ELSE NoCategory])
<1> DEFINE c == k.cursor
           up == IF rows[c].exists THEN rows[c].parent ELSE NoCategory
           next == [k EXCEPT !.depth = @ + 1, !.cursor = up]
<1>1. PICK V \in SUBSET Category : PassedIn(rows, V, k)
  BY DEF WalkIn
<1>2. /\ c \in Category /\ k.depth \in Nat /\ Depth \in Nat /\ k.depth < Depth
      /\ rows[c] # NoRow
  BY DEF Climber, WalkIn, MarketplaceAssumption
<1>3. up \in Category \cup {NoCategory}
  BY <1>2 DEF CategoryRow
<1>4. /\ next.id = k.id /\ next.parent = k.parent
      /\ next.depth = k.depth + 1 /\ next.cursor = up
  BY <1>3 DEF Climber
<1>5. up # NoCategory => rows[up] # NoRow
  <2>1. up # NoCategory => rows[up].exists
    BY <1>2 DEF ParentsExist
  <2>2. ~NoRow.exists
    BY DEF NoRow
  <2> QED
    BY <2>1, <2>2
<1> DEFINE W == V \cup {c}
<1>6. IsFiniteSet(V) /\ Cardinality(V) \in Nat
  BY FS_Subset, FS_CardinalityType DEF MarketplaceAssumption
<1>7. Cardinality(W) = IF c \in V THEN Cardinality(V) ELSE Cardinality(V) + 1
  BY <1>6, FS_AddElement
<1>8. Cardinality(V) <= k.depth
  BY <1>1 DEF PassedIn
<1>9. Cardinality(W) <= k.depth + 1
  BY <1>2, <1>6, <1>7, <1>8
<1>10. ASSUME NEW w \in W
       PROVE  /\ w # k.id /\ rows[w] # NoRow
              /\ rows[w].exists => rows[w].parent \in W \cup {up}
  <2>1. CASE w = c
    BY <1>2, <2>1
  <2>2. CASE w \in V
    BY <1>1, <2>2 DEF PassedIn
  <2> QED
    BY <2>1, <2>2
<1>11. ASSUME NEW S \in SUBSET Category, HangsIn(rows, S, k.id), k.parent \in S
       PROVE  W \subseteq S /\ up \in S /\ Cardinality(W) = k.depth + 1
  <2>1. V \subseteq S /\ c \in S /\ Cardinality(V) = k.depth
    BY <1>1, <1>11 DEF PassedIn
  <2>2. rows[c].exists /\ rows[c].parent \in S
    BY <1>11, <2>1 DEF HangsIn
  <2>3. c \notin V
    <3> SUFFICES ASSUME c \in V PROVE FALSE
      OBVIOUS
    <3>1. \A v \in V : rows[v].exists /\ rows[v].parent \in V
      BY <1>1, <1>11, <2>1 DEF HangsIn, PassedIn
    <3>2. LoopIn(rows, V)
      BY <3>1 DEF LoopIn
    <3>3. Cardinality(V) > Depth
      BY <3>2 DEF NoShortLoop
    <3> QED
      BY <1>2, <2>1, <3>3
  <2> QED
    BY <1>2, <1>7, <2>1, <2>2, <2>3
<1> HIDE DEF W, next, up
<1>12. PassedIn(rows, W, next)
  BY <1>4, <1>9, <1>10, <1>11 DEF PassedIn
<1>13. W \in SUBSET Category
  BY <1>2 DEF W
<1>14. /\ next.parent # next.id /\ rows[next.parent] # NoRow
       /\ next.cursor # NoCategory => rows[next.cursor] # NoRow
       /\ next.depth <= Depth
  BY <1>2, <1>4, <1>5 DEF WalkIn
<1>15. WalkIn(rows, next)
  BY <1>12, <1>13, <1>14 DEF WalkIn
<1> QED
  BY <1>15 DEF next, up

(* The walk is over and did not meet the row to move: it is at a root, and *)
(* then no loop is made, or a loop contains all of the Depth rows it       *)
(* passed besides the row itself.                                          *)
LEMMA MoveIsSafe ==
  ASSUME MarketplaceAssumption, NEW rows \in [Category -> CategoryRow],
         NoShortLoop(rows), NEW k \in Climber,
         k.parent # NoCategory =>
           WalkIn(rows, k) /\ (k.cursor = NoCategory \/ k.depth = Depth),
         NEW next, next = [rows EXCEPT ![k.id].parent = k.parent]
  PROVE  NoShortLoop(next)
<1> SUFFICES ASSUME NEW S \in SUBSET Category, LoopIn(next, S)
             PROVE  Cardinality(S) > Depth
  BY DEF NoShortLoop
<1>1. k.id \in Category /\ k.depth \in Nat /\ Depth \in Nat /\ NoCategory \notin Category
  BY DEF Climber, MarketplaceAssumption
<1>2. \A c \in Category \ {k.id} : next[c] = rows[c]
  BY <1>1
<1>3. next[k.id].parent = k.parent
  BY <1>1 DEF CategoryRow
<1>4. CASE k.id \notin S
  <2>1. LoopIn(rows, S)
    BY <1>2, <1>4 DEF LoopIn
  <2> QED
    BY <2>1 DEF NoShortLoop
<1>5. CASE k.id \in S
  <2>1. k.parent \in S /\ k.parent # NoCategory
    BY <1>1, <1>3, <1>5 DEF LoopIn
  <2>2. HangsIn(rows, S, k.id)
    BY <1>2 DEF LoopIn, HangsIn
  <2>3. PICK V \in SUBSET Category : PassedIn(rows, V, k)
    BY <2>1 DEF WalkIn
  <2>4. V \subseteq S /\ k.cursor \in S /\ Cardinality(V) = k.depth /\ k.id \notin V
    BY <2>1, <2>2, <2>3 DEF PassedIn
  <2>5. k.depth = Depth
    BY <1>1, <2>1, <2>4
  <2>6. IsFiniteSet(V) /\ IsFiniteSet(S)
    BY FS_Subset DEF MarketplaceAssumption
  <2>7. Cardinality(V \cup {k.id}) = Cardinality(V) + 1
    BY <2>4, <2>6, FS_AddElement
  <2>8. V \cup {k.id} \subseteq S
    BY <1>5, <2>4
  <2>9. Cardinality(V \cup {k.id}) <= Cardinality(S) /\ Cardinality(S) \in Nat
    BY <2>6, <2>8, FS_Subset, FS_CardinalityType
  <2> QED
    BY <1>1, <2>4, <2>5, <2>7, <2>9
<1> QED
  BY <1>4, <1>5

-----------------------------------------------------------------------------
(* The steps of Marketplace *)

LEMMA TreeParents ==
  ASSUME Base
  PROVE  /\ ParentsExist(category) /\ category \in [Category -> CategoryRow]
         /\ \A c \in Category : ~category[c].exists => category[c] \in {NoRow, Deleted}
BY DEF Base, TreeOK, ParentsExist, Exists

LEMMA OnlyMovesMove ==
  ASSUME MarketplaceAssumption, Base, NEW s \in Session, WritesCategory(s), ~WriteMove(s)
  PROVE  Unmoved(category, category')
<1> DEFINE Goal == Unmoved(category, category')
<1>1. /\ category \in [Category -> CategoryRow] /\ ~NoRow.exists /\ ~Deleted.exists
      /\ Deleted # NoRow /\ NoCategory \notin Category
  BY TreeParents DEF NoRow, Deleted, MarketplaceAssumption
<1>2. ASSUME UNCHANGED category PROVE Goal
  BY <1>1, <1>2 DEF Unmoved
<1>3. ASSUME NEW c \in Category, NEW active \in BOOLEAN, category[c].exists,
             category' = [category EXCEPT ![c].active = active]
      PROVE  Goal
  <2>1. /\ category'[c] = [category[c] EXCEPT !.active = active]
        /\ \A d \in Category \ {c} : category'[d] = category[d]
    BY <1>1, <1>3
  <2>2. category[c] \in CategoryRow
    BY <1>1
  <2>3. category'[c].exists /\ category'[c].parent = category[c].parent
    BY <1>3, <2>1, <2>2 DEF CategoryRow
  <2> QED
    BY <1>1, <1>3, <2>1, <2>3 DEF Unmoved
<1> HIDE DEF Goal
<1>4. ASSUME InsertCategory(s) PROVE Goal
  <2> DEFINE new == handler[s].kept
             row == [exists |-> TRUE, active |-> TRUE, parent |-> new.parent]
  <2>1. new \in [id : Category, parent : Category \cup {NoCategory}]
    BY <1>4, InHandler DEF InsertCategory, Continue, At, HandlerOK, KeepsCategory
  <2>2. CASE category[new.id] # NoRow \/ ~Exists(new.parent)
    BY <1>2, <1>4, <2>2 DEF InsertCategory, Kept
  <2>3. CASE category[new.id] = NoRow /\ Exists(new.parent)
    <3>1. category' = [category EXCEPT ![new.id] = row]
      BY <1>4, <2>3 DEF InsertCategory, Kept
    <3>2. row.exists /\ row.parent = new.parent
      OBVIOUS
    <3>3. /\ category'[new.id] = row
          /\ \A d \in Category \ {new.id} : category'[d] = category[d]
      BY <1>1, <2>1, <3>1
    <3> HIDE DEF row
    <3>4. row # NoRow
      BY <1>1, <3>2
    <3> QED
      BY <1>1, <2>1, <2>3, <3>2, <3>3, <3>4 DEF Unmoved, Exists, Goal
  <2> QED
    BY <2>2, <2>3
<1>5. ASSUME HideCategory(s) PROVE Goal
  <2>1. handler[s].kept \in Category
    BY <1>5, InHandler DEF HideCategory, Continue, At, HandlerOK, KeepsCategory
  <2> QED
    BY <1>2, <1>3, <1>5, <2>1 DEF HideCategory, Kept
<1>6. ASSUME \E c \in Category, active \in BOOLEAN : ShowCategory(s, c, active) PROVE Goal
  BY <1>3, <1>6 DEF ShowCategory
<1>7. ASSUME DeleteCategory(s) PROVE Goal
  <2> DEFINE c == handler[s].kept
  <2>1. c \in Category
    BY <1>7, InHandler DEF DeleteCategory, Continue, At, HandlerOK, KeepsCategory
  <2>2. UNCHANGED category \/ category' = [category EXCEPT ![c] = Deleted]
    BY <1>7 DEF DeleteCategory, Kept
  <2>3. CASE category' = [category EXCEPT ![c] = Deleted]
    <3>1. category'[c] = Deleted /\ \A d \in Category \ {c} : category'[d] = category[d]
      BY <1>1, <2>1, <2>3
    <3> QED
      BY <1>1, <3>1 DEF Unmoved, Goal
  <2> QED
    BY <1>2, <2>2, <2>3
<1>8. Goal
  BY <1>4, <1>5, <1>6, <1>7 DEF WritesCategory
<1> QED
  BY <1>8 DEF Goal

LEMMA TreeSteps ==
  ASSUME MarketplaceAssumption, Base, [Next]_vars
  PROVE  Unmoved(category, category') \/ \E s \in Session : WriteMove(s)
<1>1. CASE UNCHANGED category
  <2>1. ~NoRow.exists
    BY DEF NoRow
  <2> QED
    BY <1>1, <2>1, TreeParents DEF Unmoved
<1>2. CASE \E s \in Session : WritesCategory(s)
  BY <1>2, OnlyMovesMove
<1> QED
  BY <1>1, <1>2, Writers

LEMMA LoopsStep ==
  ASSUME MarketplaceAssumption, Base, LoopsOK, WalksOK, [Next]_vars
  PROVE  LoopsOK'
<1> SUFFICES ASSUME Alone({"move_category"}) PROVE NoShortLoop(category')
  BY AloneKept DEF LoopsOK, NoShortLoop
<1>1. NoShortLoop(category) /\ ParentsExist(category) /\ category \in [Category -> CategoryRow]
  BY TreeParents DEF LoopsOK
<1>2. CASE Unmoved(category, category')
  BY <1>1, <1>2, LoopsStayLong
<1>3. ASSUME NEW s \in Session, WriteMove(s) PROVE NoShortLoop(category')
  <2> DEFINE k == handler[s].kept
  <2>1. k \in Climber /\ handler[s].route = "move_category" /\ handler[s].at = "write"
    BY <1>3, InHandler DEF WriteMove, Continue, At, HandlerOK, KeepsCategory
  <2>2. k.parent # NoCategory =>
          WalkIn(category, k) /\ (k.cursor = NoCategory \/ k.depth = Depth)
    BY <2>1 DEF WalksOK, Climbing
  <2>3. CASE UNCHANGED category
    BY <1>1, <2>3
  <2>4. CASE category' = [category EXCEPT ![k.id].parent = k.parent]
    <3> HIDE DEF k
    <3> QED
      BY <1>1, <2>1, <2>2, <2>4, MoveIsSafe
  <2> QED
    BY <1>3, <2>3, <2>4 DEF WriteMove, Kept
<1> QED
  BY <1>2, <1>3, TreeSteps

(* A walk is not disturbed by what another request does meanwhile.         *)
LEMMA WalkUndisturbed ==
  ASSUME MarketplaceAssumption, Base, WalksOK, [Next]_vars, Alone({"move_category"}),
         NEW s \in Session, handler'[s] = handler[s], Climbing(handler[s])
  PROVE  WalkIn(category', handler[s].kept)
<1>1. handler[s].kept \in Climber /\ handler[s].kept.parent # NoCategory
  BY InHandler DEF HandlerOK, KeepsCategory, Climbing
<1>2. WalkIn(category, handler[s].kept)
  BY DEF WalksOK
<1>3. ASSUME NEW r \in Session, WriteMove(r) PROVE FALSE
  <2>1. handler[r].route = "move_category" /\ handler'[r] = Idle
    BY <1>3 DEF WriteMove, Continue, At, Done, Base, HandlersOK
  <2>2. r = s
    BY <2>1, OnlyOne DEF Routes, Climbing
  <2> QED
    BY <2>1, <2>2 DEF Idle, Climbing
<1>4. Unmoved(category, category')
  BY <1>3, TreeSteps
<1> QED
  BY <1>1, <1>2, <1>4, TreeParents, WalkGoesOn

LEMMA WalkBegins ==
  ASSUME MarketplaceAssumption, Base, NEW s \in Session,
         NEW c \in Category, NEW p \in Category \cup {NoCategory}, MoveCategory(s, c, p),
         Climbing(handler'[s])
  PROVE  WalkIn(category', handler'[s].kept) /\ handler'[s].at = "climb"
<1> DEFINE k == handler'[s].kept
<1>1. /\ p # NoCategory /\ p # c /\ handler'[s].at = "climb"
      /\ k = [id |-> c, parent |-> p, cursor |-> p, depth |-> 0]
      /\ category[p].exists /\ UNCHANGED category
  BY GoesTo DEF MoveCategory, Climbing, Exists, catalogueVars
<1>2. category[p] # NoRow
  BY <1>1 DEF NoRow
<1>3. Cardinality({}) = 0 /\ Depth \in Nat
  BY FS_EmptySet DEF MarketplaceAssumption
<1>4. PassedIn(category, {}, k)
  BY <1>1, <1>3 DEF PassedIn
<1>5. \E V \in SUBSET Category : PassedIn(category, V, k)
  BY <1>4
<1>6. k.depth <= Depth
  BY <1>1, <1>3
<1>7. WalkIn(category, k)
  <2> HIDE DEF k
  <2>1. k.parent = p /\ k.id = c /\ k.cursor = p
    BY <1>1
  <2> QED
    BY <1>1, <1>2, <1>5, <1>6, <2>1 DEF WalkIn
<1> QED
  BY <1>1, <1>7

LEMMA WalkTurns ==
  ASSUME MarketplaceAssumption, Base, LoopsOK, WalksOK, Alone({"move_category"}),
         NEW s \in Session, Climb(s), Climbing(handler'[s])
  PROVE  /\ WalkIn(category', handler'[s].kept)
         /\ handler'[s].at = "write" =>
              handler'[s].kept.cursor = NoCategory \/ handler'[s].kept.depth = Depth
<1> DEFINE k == handler[s].kept
           next == [k EXCEPT !.depth = @ + 1,
                             !.cursor = IF category[k.cursor].exists
                                        THEN category[k.cursor].parent ELSE NoCategory]
<1>1. handler[s].route = "move_category" /\ handler[s].at = "climb" /\ UNCHANGED category
  BY DEF Climb, Continue, At, catalogueVars
<1>2. k \in Climber
  BY <1>1, InHandler DEF HandlerOK, KeepsCategory
<1>3. ~Done(s)
  BY DEF Done, Climbing, Idle, Base, HandlersOK
<1>4. CASE k.cursor = NoCategory \/ k.depth = Depth
  <2>1. handler'[s].kept = k /\ handler'[s].route = "move_category"
    BY <1>4, GoesTo DEF Climb, Kept
  <2>2. WalkIn(category, k)
    BY <1>1, <2>1 DEF WalksOK, Climbing
  <2> QED
    BY <1>1, <1>4, <2>1, <2>2
<1>5. CASE ~(k.cursor = NoCategory \/ k.depth = Depth)
  <2>1. k.cursor # k.id /\ Goes(s, "move_category", "climb", next)
    BY <1>3, <1>5 DEF Climb, Kept
  <2>2. handler'[s].kept = next /\ handler'[s].at = "climb"
    BY <2>1, GoesTo
  <2>3. next.parent = k.parent
    BY <1>2 DEF Climber
  <2>4. k.parent # NoCategory
    BY <2>2, <2>3 DEF Climbing
  <2>5. WalkIn(category, k)
    BY <1>1, <2>4 DEF WalksOK, Climbing
  <2> HIDE DEF k
  <2>6. WalkIn(category, next)
    BY <1>2, <1>5, <2>1, <2>5, TreeParents, WalkClimbs DEF LoopsOK
  <2> QED
    BY <1>1, <2>2, <2>6
<1> QED
  BY <1>4, <1>5

LEMMA WalksStep ==
  ASSUME MarketplaceAssumption, Base, LoopsOK, WalksOK, [Next]_vars
  PROVE  WalksOK'
<1> DEFINE Going(s) ==
             /\ WalkIn(category', handler'[s].kept)
             /\ handler'[s].at = "write" =>
                  handler'[s].kept.cursor = NoCategory \/ handler'[s].kept.depth = Depth
<1> SUFFICES ASSUME Alone({"move_category"}), NEW s \in Session, Climbing(handler'[s])
             PROVE  Going(s)
  BY AloneKept DEF WalksOK, Climbing, WalkIn, PassedIn, HangsIn
<1>1. ASSUME handler'[s] = handler[s] PROVE Going(s)
  BY <1>1, WalkUndisturbed DEF WalksOK
<1>2. handler'[s] # Idle
  BY DEF Climbing, Idle
<1> HIDE DEF Going
<1>3. ASSUME SessionCall(s) PROVE Going(s)
  <2>1. CASE UNCHANGED handler
    BY <1>1, <2>1
  <2>2. CASE OpenedBy(s)
    <3>1. PICK c \in Category, p \in Category \cup {NoCategory} : MoveCategory(s, c, p)
      BY <2>2 DEF OpenedBy, Climbing
    <3> QED
      BY <3>1, WalkBegins DEF Going
  <2> QED
    BY <1>3, <2>1, <2>2, CallsOpen
<1>4. ASSUME SessionStep(s) PROVE Going(s)
  <2>1. handler'[s].route = "move_category"
    BY DEF Climbing
  <2>2. ASSUME NEW route, NEW at, NEW kept, Goes(s, route, at, kept), route # "move_category"
        PROVE  Going(s)
    BY <2>1, <2>2, GoesTo
  <2>3. ASSUME Done(s) PROVE Going(s)
    BY <1>2, <2>3 DEF Done, Base, HandlersOK
  <2>4. CASE CountBookings(s) \/ CountImages(s) \/ ResolveAttachment(s)
    BY <2>2, <2>3, <2>4 DEF CountBookings, CountImages, ResolveAttachment, Refuse
  <2>5. CASE WriteProviderImage(s)
    <3>1. handler[s].route = "provider_image" /\ Replaces(s)
      BY <2>5 DEF WriteProviderImage, Continue, At
    <3>2. Done(s) \/ Goes(s, "provider_image", "discard", Kept(s))
      BY <3>1 DEF Replaces
    <3> QED
      BY <2>2, <2>3, <3>2
  <2>6. CASE Put(s)
    <3>1. handler[s].route \in Uploading
      BY <2>6, InHandler DEF Put, HandlerOK, StationOK
    <3> QED
      BY <2>2, <2>3, <2>6, <3>1 DEF Put, Uploading
  <2>7. CASE Fail(s)
    BY <2>2, <2>3, <2>7 DEF Fail
  <2>8. CASE Climb(s)
    BY <2>8, WalkTurns DEF Going
  <2> QED
    BY <1>2, <1>4, <2>4, <2>5, <2>6, <2>7, <2>8, StepsLead
<1>5. CASE handler' = [r \in Session |-> Idle]
  BY <1>2, <1>5
<1>6. CASE UNCHANGED handler
  BY <1>1, <1>6
<1>7. ASSUME NEW r \in Session, Acts(r) PROVE Going(s)
  <2>1. CASE r = s
    BY <1>3, <1>4, <1>7, <2>1 DEF Acts
  <2>2. CASE r # s
    BY <1>1, <1>7, <2>2 DEF Acts
  <2> QED
    BY <2>1, <2>2
<1> QED
  BY <1>5, <1>6, <1>7, OneActs

LEMMA LoopsInit ==
  ASSUME MarketplaceAssumption, Init
  PROVE  LoopsOK /\ WalksOK
<1>1. /\ scenario \in Scenarios /\ category = scenario.tree
      /\ handler = [s \in Session |-> Idle]
  BY DEF Init
<1>2. WellFormed(scenario)
  BY <1>1 DEF MarketplaceAssumption
<1>3. \A S \in SUBSET Category : ~LoopIn(category, S)
  BY <1>1, <1>2 DEF LoopIn, WellFormed
<1>4. \A s \in Session : ~Climbing(handler[s])
  BY <1>1 DEF Climbing, Idle
<1> QED
  BY <1>3, <1>4 DEF LoopsOK, NoShortLoop, WalksOK

(* While moves do not overlap, no loop of categories is as short as the    *)
(* walk that looks for one, whatever other requests do between its         *)
(* statements.                                                             *)
THEOREM NoLoopIsShort == Spec => []LoopsAreLong
<1>1. Init => LoopsOK /\ WalksOK
  BY LoopsInit, MarketplaceAssumption
<1>2. Base /\ LoopsOK /\ WalksOK /\ [Next]_vars => LoopsOK' /\ WalksOK'
  BY LoopsStep, WalksStep, MarketplaceAssumption
<1>3. LoopsOK => LoopsAreLong
  BY DEF LoopsOK, NoShortLoop, LoopIn, LoopsAreLong, Loop
<1> QED
  BY <1>1, <1>2, <1>3, BaseAlways, MarketplaceAssumption, PTL DEF Spec
=============================================================================
