----------------------------- MODULE HiringProofs -----------------------------
(***************************************************************************)
(* Proofs about Hiring, for any number of requests, quotes, providers,     *)
(* amounts and overlapping sessions.                                       *)
(***************************************************************************)
EXTENDS Hiring, TLAPS

-----------------------------------------------------------------------------
(* The inductive invariant. *)

(* A quote that was made states an amount.                                 *)
QuotesOK ==
  \A q \in Quote : quote[q].status # "NONE" => quote[q].amount \in Amount

(* A session that has read a quote knows that it was made.                 *)
Reads(t) == t \in Revising \cup Accepting \cup Rejecting \cup Recording

TxOK == \A s \in Session : Reads(tx[s]) => quote[tx[s].quote].status # "NONE"

Base == HiringTypeOK /\ QuotesOK /\ TxOK

(* What the two partial indexes keep: one accepted quote to a request, one *)
(* live quote of a provider on it.                                         *)
OneAcceptedQuote ==
  \A q, o \in Quote :
    (IsAccepted(q) /\ IsAccepted(o) /\ requestOf[q] = requestOf[o]) => q = o

OneLiveQuote ==
  \A q, o \in Quote :
    ( /\ quote[q].status \in LiveQuote
      /\ quote[o].status \in LiveQuote
      /\ requestOf[q] = requestOf[o]
      /\ quoterOf[q] = quoterOf[o] )
    => q = o

IInv == Base /\ OneAcceptedQuote /\ OneLiveQuote /\ AcceptedQuoteIsBooked

-----------------------------------------------------------------------------
(* Reading a record of Tx. *)

LEMMA OpTells ==
  ASSUME NEW t \in Tx
  PROVE  /\ t.op = "status" <=> t \in Moving
         /\ t.op = "quote" <=> t \in Quoting
         /\ t.op = "quoted" <=> t \in Quoted
         /\ t.op = "revise" <=> t \in Revising
         /\ t.op = "accept" <=> t \in Accepting
         /\ t.op = "reject" <=> t \in Rejecting
         /\ t.op = "record" <=> t \in Recording
         /\ t.op = "idle" <=> t = Idle
BY DEF Tx, Idle, Moving, Quoting, Quoted, Revising, Accepting, Rejecting, Recording

LEMMA IdleReadsNothing == Idle \in Tx /\ ~Reads(Idle)
BY DEF Tx, Idle, Reads, Revising, Accepting, Rejecting, Recording

LEMMA Vocabulary ==
  /\ {"OPEN", "QUOTED", "BOOKED", "CANCELLED", "CLOSED"} \subseteq RequestStatus
  /\ QuoteStatus = {"PENDING", "ACCEPTED", "REJECTED", "WITHDRAWN"}
  /\ LiveQuote = {"PENDING", "ACCEPTED"}
  /\ CustomerSide = {"customer", "admin"}
  /\ "NONE" \notin RequestStatus
BY DEF RequestStatus, QuoteStatus, LiveQuote, CustomerSide

-----------------------------------------------------------------------------
(* Which steps write the tables; the others only open, advance or drop a   *)
(* transaction.                                                            *)
Writes ==
  \/ \E r \in Request :
       \/ \E target \in Provider \cup {Anyone} : PostRequest(r, target)
       \/ ExpireRequest(r)
  \/ \E q \in Quote : LapseQuote(q)
  \/ \E s \in Session :
       \/ MoveRequestWrite(s) \/ QuoteWrite(s) \/ ReviseWrite(s)
       \/ AcceptWrite(s) \/ RejectWrite(s) \/ RecordWrite(s)

LEMMA StepKinds ==
  ASSUME [Next]_vars
  PROVE  UNCHANGED db \/ Writes
<1>1. ASSUME NEW s \in Session, NEW r, NEW c, NEW to, MoveRequestRead(s, r, c, to)
      PROVE  UNCHANGED db
  BY <1>1 DEF MoveRequestRead, Open
<1>2. ASSUME NEW s \in Session, NEW q, NEW x,
             \/ QuoteRead(s, q, x) \/ ReviseRead(s, q, x) \/ AcceptRead(s, q, x)
             \/ RejectRead(s, q) \/ RecordRead(s, q)
      PROVE  UNCHANGED db
  BY <1>2 DEF QuoteRead, ReviseRead, AcceptRead, RejectRead, RecordRead, Open
<1>3. ASSUME NEW s \in Session, QuoteReread(s) \/ Abort(s)
      PROVE  UNCHANGED db
  BY <1>3 DEF QuoteReread, Abort
<1>4. CASE UNCHANGED vars
  BY <1>4 DEF vars, db
<1> QED
  BY <1>1, <1>2, <1>3, <1>4 DEF Next, Writes

-----------------------------------------------------------------------------
(* The quotes table. *)

(* What a step may do to the quotes table.                                 *)
QuoteEffect ==
  /\ quote' \in [Quote -> QuoteRow]
  /\ \A q \in Quote :
       /\ quote[q].status # "NONE" => quote'[q].status # "NONE"
       /\ quote'[q].status # "NONE" => quote'[q].amount \in Amount

LEMMA QuoteEffectStep ==
  ASSUME HiringAssumption, Base, [Next]_vars
  PROVE  QuoteEffect
<1>0. quote \in [Quote -> QuoteRow]
  BY DEF Base, HiringTypeOK
<1>1. CASE UNCHANGED quote
  BY <1>0, <1>1 DEF QuoteEffect, Base, QuotesOK
<1>2. ASSUME NEW q \in Quote, LapseQuote(q) PROVE QuoteEffect
  BY <1>0, <1>2 DEF LapseQuote, QuoteEffect, QuoteRow, Base, QuotesOK
<1>3. ASSUME NEW s \in Session, QuoteWrite(s) PROVE QuoteEffect
  <2>1. tx[s] \in Quoted
    BY <1>3, OpTells DEF Base, HiringTypeOK, QuoteWrite
  <2>2. tx[s].quote \in Quote /\ tx[s].amount \in Amount
    BY <2>1 DEF Quoted
  <2>3. quote' = [quote EXCEPT ![tx[s].quote] =
                    [status |-> "PENDING", amount |-> tx[s].amount, lapsed |-> FALSE]]
    BY <1>3 DEF QuoteWrite
  <2> QED
    BY <1>0, <2>2, <2>3, Vocabulary DEF QuoteEffect, QuoteRow, Base, QuotesOK
<1>4. ASSUME NEW s \in Session, ReviseWrite(s) PROVE QuoteEffect
  <2> DEFINE q == tx[s].quote
             c == tx[s].change
             row == [status |-> IF c.withdraw THEN "WITHDRAWN" ELSE quote[q].status,
                     amount |-> IF c.amount # NoAmount THEN c.amount
                                ELSE quote[q].amount,
                     lapsed |-> quote[q].lapsed /\ ~c.renew]
  <2>1. tx[s] \in Revising
    BY <1>4, OpTells DEF Base, HiringTypeOK, ReviseWrite
  <2>2. q \in Quote /\ c \in Change /\ quote[q].status # "NONE"
    BY <2>1 DEF Revising, Reads, Base, TxOK
  <2>3. quote[q] \in QuoteRow /\ quote[q].amount \in Amount
    BY <1>0, <2>2 DEF Base, QuotesOK
  <2>4. row \in QuoteRow /\ row.status # "NONE" /\ row.amount \in Amount
    BY <2>2, <2>3, Vocabulary DEF Change, QuoteRow
  <2>5. quote' = [quote EXCEPT ![q] = row]
    BY <1>4 DEF ReviseWrite
  <2> HIDE DEF row
  <2> QED
    BY <1>0, <2>2, <2>4, <2>5 DEF QuoteEffect, Base, QuotesOK
<1>5. ASSUME NEW s \in Session, AcceptWrite(s) PROVE QuoteEffect
  <2> DEFINE q == tx[s].quote
  <2>1. tx[s] \in Accepting
    BY <1>5, OpTells DEF Base, HiringTypeOK, AcceptWrite
  <2>2. q \in Quote /\ quote[q].status # "NONE"
    BY <2>1 DEF Accepting, Reads, Base, TxOK
  <2> DEFINE Row(o) == IF o = q
                       THEN [quote[o] EXCEPT !.status = "ACCEPTED"]
                       ELSE IF o \in Siblings(q) /\ quote[o].status = "PENDING"
                            THEN [quote[o] EXCEPT !.status = "REJECTED"]
                            ELSE quote[o]
  <2>3. ASSUME NEW o \in Quote
        PROVE  /\ Row(o) \in QuoteRow
               /\ quote[o].status # "NONE" => Row(o).status # "NONE"
               /\ Row(o).status # "NONE" => Row(o).amount \in Amount
    <3>1. quote[o] \in QuoteRow
      BY <1>0
    <3> QED
      BY <2>2, <3>1, Vocabulary DEF QuoteRow, Base, QuotesOK
  <2>4. quote' = [o \in Quote |-> Row(o)]
    BY <1>5 DEF AcceptWrite
  <2> HIDE DEF Row
  <2> QED
    BY <2>3, <2>4 DEF QuoteEffect
<1>6. ASSUME NEW s \in Session, RejectWrite(s) PROVE QuoteEffect
  <2>1. tx[s] \in Rejecting
    BY <1>6, OpTells DEF Base, HiringTypeOK, RejectWrite
  <2>2. tx[s].quote \in Quote /\ quote[tx[s].quote].status # "NONE"
    BY <2>1 DEF Rejecting, Reads, Base, TxOK
  <2> QED
    BY <1>0, <1>6, <2>2, Vocabulary
       DEF RejectWrite, QuoteEffect, QuoteRow, Base, QuotesOK
<1>7. ASSUME NEW r \in Request, NEW target, PostRequest(r, target) \/ ExpireRequest(r)
      PROVE  QuoteEffect
  BY <1>1, <1>7 DEF PostRequest, ExpireRequest
<1>8. ASSUME NEW s \in Session, MoveRequestWrite(s) \/ RecordWrite(s)
      PROVE  QuoteEffect
  BY <1>1, <1>8 DEF MoveRequestWrite, RecordWrite
<1>9. CASE UNCHANGED db
  BY <1>1, <1>9 DEF db
<1> QED
  BY <1>2, <1>3, <1>4, <1>5, <1>6, <1>7, <1>8, <1>9, StepKinds DEF Writes

-----------------------------------------------------------------------------
(* The sessions. *)

LEMMA TxStep ==
  ASSUME Base, QuoteEffect, NEW s \in Session, NEW t \in Tx,
         tx' = [tx EXCEPT ![s] = t],
         Reads(t) => quote[t.quote].status # "NONE"
  PROVE  tx' \in [Session -> Tx] /\ TxOK'
<1>1. ASSUME NEW u \in Session, Reads(tx'[u])
      PROVE  quote'[tx'[u].quote].status # "NONE"
  <2>1. quote[tx'[u].quote].status # "NONE"
    BY <1>1 DEF Base, TxOK, HiringTypeOK
  <2>2. tx'[u].quote \in Quote
    BY <1>1 DEF Reads, Revising, Accepting, Rejecting, Recording
  <2> QED
    BY <2>1, <2>2 DEF QuoteEffect
<1> QED
  BY <1>1 DEF TxOK, Reads, Base, HiringTypeOK

LEMMA SessionsStep ==
  ASSUME HiringAssumption, Base, QuoteEffect, [Next]_vars
  PROVE  tx' \in [Session -> Tx] /\ TxOK'
<1> DEFINE Kept == tx' \in [Session -> Tx] /\ TxOK'
<1>1. CASE UNCHANGED tx
  BY <1>1 DEF Base, HiringTypeOK, TxOK, QuoteEffect, Reads,
              Revising, Accepting, Rejecting, Recording
<1>2. ASSUME NEW s \in Session, NEW t \in Tx, tx' = [tx EXCEPT ![s] = t],
             Reads(t) => quote[t.quote].status # "NONE"
      PROVE  Kept
  BY <1>2, TxStep
<1>3. ASSUME NEW s \in Session, Done(s) PROVE Kept
  BY <1>2, <1>3, IdleReadsNothing DEF Done
<1>4. ASSUME NEW s \in Session, NEW r \in Request, NEW c \in Caller,
             NEW to \in RequestStatus, MoveRequestRead(s, r, c, to)
      PROVE  Kept
  <2> DEFINE t == [op |-> "status", request |-> r, to |-> to, caller |-> c]
  <2>1. t \in Moving /\ t \in Tx
    BY DEF Moving, Tx, HiringAssumption
  <2>2. ~Reads(t)
    BY DEF Reads, Revising, Accepting, Rejecting, Recording
  <2> QED
    BY <1>2, <1>4, <2>1, <2>2 DEF MoveRequestRead, Open
<1>5. ASSUME NEW s \in Session, NEW q \in Quote, NEW amount \in Amount,
             QuoteRead(s, q, amount)
      PROVE  Kept
  <2> DEFINE t == [op |-> "quote", quote |-> q, amount |-> amount]
  <2>1. t \in Tx /\ ~Reads(t)
    BY DEF Quoting, Tx, Reads, Revising, Accepting, Rejecting, Recording
  <2> QED
    BY <1>2, <1>5, <2>1 DEF QuoteRead, Open
<1>6. ASSUME NEW s \in Session, QuoteReread(s) PROVE Kept
  <2> DEFINE r == requestOf[tx[s].quote]
             t == [op |-> "quoted", quote |-> tx[s].quote,
                   amount |-> tx[s].amount, seen |-> request[r].status]
  <2>1. tx[s] \in Quoting
    BY <1>6, OpTells DEF Base, HiringTypeOK, QuoteReread
  <2>2. tx[s].quote \in Quote /\ tx[s].amount \in Amount /\ r \in Request
    BY <2>1 DEF Quoting, HiringAssumption
  <2>3. request[r].status \in RequestStatus \cup {"NONE"}
    BY <2>2 DEF Base, HiringTypeOK, RequestRow
  <2>4. t \in Tx /\ ~Reads(t)
    BY <2>2, <2>3 DEF Quoted, Tx, Reads, Revising, Accepting, Rejecting, Recording
  <2> QED
    BY <1>2, <1>6, <2>4 DEF QuoteReread
<1>7. ASSUME NEW s \in Session, NEW q \in Quote, NEW change \in Changes,
             ReviseRead(s, q, change)
      PROVE  Kept
  <2> DEFINE t == [op |-> "revise", quote |-> q, change |-> change]
  <2>1. t \in Tx /\ t.quote = q
    BY DEF Revising, Tx, HiringAssumption
  <2> QED
    BY <1>2, <1>7, <2>1 DEF ReviseRead, Open
<1>8. ASSUME NEW s \in Session, NEW q \in Quote, NEW c \in CustomerSide,
             AcceptRead(s, q, c)
      PROVE  Kept
  <2> DEFINE t == [op |-> "accept", quote |-> q, amount |-> quote[q].amount,
                   caller |-> c]
  <2>1. quote[q].amount \in Amount
    BY <1>8 DEF AcceptRead, Base, QuotesOK
  <2>2. t \in Tx /\ t.quote = q
    BY <2>1 DEF Accepting, Tx
  <2> QED
    BY <1>2, <1>8, <2>2 DEF AcceptRead, Open
<1>9. ASSUME NEW s \in Session, NEW q \in Quote, RejectRead(s, q) PROVE Kept
  <2> DEFINE t == [op |-> "reject", quote |-> q]
  <2>1. t \in Tx /\ t.quote = q
    BY DEF Rejecting, Tx
  <2> QED
    BY <1>2, <1>9, <2>1 DEF RejectRead, Open
<1>10. ASSUME NEW s \in Session, NEW q \in Quote, RecordRead(s, q) PROVE Kept
  <2> DEFINE t == [op |-> "record", quote |-> q, amount |-> quote[q].amount]
  <2>1. quote[q].amount \in Amount
    BY <1>10 DEF RecordRead, Base, QuotesOK
  <2>2. t \in Tx /\ t.quote = q
    BY <2>1 DEF Recording, Tx
  <2> QED
    BY <1>2, <1>10, <2>2 DEF RecordRead, Open
<1>11. ASSUME NEW s \in Session,
              \/ MoveRequestWrite(s) \/ QuoteWrite(s) \/ ReviseWrite(s)
              \/ AcceptWrite(s) \/ RejectWrite(s) \/ RecordWrite(s) \/ Abort(s)
       PROVE  Kept
  BY <1>3, <1>11 DEF MoveRequestWrite, QuoteWrite, ReviseWrite, AcceptWrite,
                     RejectWrite, RecordWrite, Abort
<1>12. ASSUME NEW r \in Request, NEW target, PostRequest(r, target) \/ ExpireRequest(r)
       PROVE  Kept
  BY <1>1, <1>12 DEF PostRequest, ExpireRequest
<1>13. ASSUME NEW q \in Quote, LapseQuote(q) PROVE Kept
  BY <1>1, <1>13 DEF LapseQuote
<1>14. CASE UNCHANGED vars
  BY <1>1, <1>14 DEF vars
<1> QED
  BY <1>4, <1>5, <1>6, <1>7, <1>8, <1>9, <1>10, <1>11, <1>12, <1>13, <1>14
     DEF Next

-----------------------------------------------------------------------------
(* The other tables. *)

(* Moving a request leaves a table of requests.                            *)
LEMMA MovedRequestType ==
  ASSUME request \in [Request -> RequestRow],
         NEW r \in Request, NEW to \in RequestStatus
  PROVE  [request EXCEPT ![r].status = to] \in [Request -> RequestRow]
BY DEF RequestRow

LEMMA OtherTablesStep ==
  ASSUME HiringAssumption, Base, [Next]_vars
  PROVE  /\ request' \in [Request -> RequestRow]
         /\ booked' \in [Quote -> Amount \cup {NoAmount}]
         /\ inbox' \subseteq Notice
<1> DEFINE Kept == /\ request' \in [Request -> RequestRow]
                   /\ booked' \in [Quote -> Amount \cup {NoAmount}]
                   /\ inbox' \subseteq Notice
<1>0. /\ request \in [Request -> RequestRow]
      /\ booked \in [Quote -> Amount \cup {NoAmount}]
      /\ inbox \subseteq Notice
  BY DEF Base, HiringTypeOK
<1>1. CASE UNCHANGED <<request, booked, inbox>>
  BY <1>0, <1>1
<1>2. ASSUME NEW r \in Request, NEW target \in Provider \cup {Anyone},
             PostRequest(r, target)
      PROVE  Kept
  BY <1>0, <1>2, Vocabulary DEF PostRequest, RequestRow
<1>3. ASSUME NEW r \in Request, ExpireRequest(r) PROVE Kept
  BY <1>0, <1>3 DEF ExpireRequest, RequestRow
<1>4. ASSUME NEW s \in Session, MoveRequestWrite(s) PROVE Kept
  <2> DEFINE r == tx[s].request
             to == tx[s].to
  <2>1. tx[s] \in Moving
    BY <1>4, OpTells DEF Base, HiringTypeOK, MoveRequestWrite
  <2>2. r \in Request /\ to \in RequestStatus
    BY <2>1 DEF Moving
  <2>3. request' = [request EXCEPT ![r].status = to] /\ booked' = booked
    BY <1>4 DEF MoveRequestWrite
  <2>4. request' \in [Request -> RequestRow]
    BY <1>0, <2>2, <2>3, MovedRequestType
  <2>5. QuotersSeenBy(tx[s].caller, r) \subseteq Provider
    BY DEF QuotersSeenBy, QuotesOn, HiringAssumption
  <2>6. to \in {"CANCELLED", "CLOSED"}
          => ({to} \X {r} \X QuotersSeenBy(tx[s].caller, r)) \subseteq Notice
    BY <2>2, <2>5 DEF Notice
  <2>7. inbox' \subseteq Notice
    BY <1>0, <1>4, <2>6 DEF MoveRequestWrite
  <2> QED
    BY <1>0, <2>3, <2>4, <2>7
<1>5. ASSUME NEW s \in Session, QuoteWrite(s) PROVE Kept
  <2>1. tx[s] \in Quoted
    BY <1>5, OpTells DEF Base, HiringTypeOK, QuoteWrite
  <2>2. tx[s].quote \in Quote /\ requestOf[tx[s].quote] \in Request
    BY <2>1 DEF Quoted, HiringAssumption
  <2>3. \/ request' = [request EXCEPT ![requestOf[tx[s].quote]].status = "QUOTED"]
        \/ request' = request
    BY <1>5 DEF QuoteWrite
  <2>4. request' \in [Request -> RequestRow]
    BY <1>0, <2>2, <2>3, Vocabulary, MovedRequestType
  <2>5. inbox' = inbox \cup {<<"QUOTE_RECEIVED", tx[s].quote, "customer">>}
        /\ booked' = booked
    BY <1>5 DEF QuoteWrite
  <2> QED
    BY <1>0, <2>2, <2>4, <2>5 DEF Notice
<1>6. ASSUME NEW s \in Session, AcceptWrite(s) PROVE Kept
  <2>1. tx[s] \in Accepting
    BY <1>6, OpTells DEF Base, HiringTypeOK, AcceptWrite
  <2>2. /\ tx[s].quote \in Quote /\ requestOf[tx[s].quote] \in Request
        /\ tx[s].amount \in Amount /\ tx[s].caller \in CustomerSide
    BY <2>1 DEF Accepting, HiringAssumption
  <2>3. /\ request' = [request EXCEPT ![requestOf[tx[s].quote]].status = "BOOKED"]
        /\ booked' = [booked EXCEPT ![tx[s].quote] = tx[s].amount]
        /\ inbox' = inbox \cup {<<"QUOTE_ACCEPTED", tx[s].quote, tx[s].caller>>}
    BY <1>6 DEF AcceptWrite
  <2>4. request' \in [Request -> RequestRow]
    BY <1>0, <2>2, <2>3, Vocabulary, MovedRequestType
  <2>5. booked' \in [Quote -> Amount \cup {NoAmount}]
    BY <1>0, <2>2, <2>3
  <2>6. inbox' \subseteq Notice
    BY <1>0, <2>2, <2>3 DEF Notice
  <2> QED
    BY <2>4, <2>5, <2>6
<1>7. ASSUME NEW s \in Session, RecordWrite(s) PROVE Kept
  <2>1. tx[s] \in Recording
    BY <1>7, OpTells DEF Base, HiringTypeOK, RecordWrite
  <2> QED
    BY <1>0, <1>7, <2>1 DEF RecordWrite, Recording
<1>8. ASSUME NEW s \in Session, ReviseWrite(s) \/ RejectWrite(s) PROVE Kept
  BY <1>1, <1>8 DEF ReviseWrite, RejectWrite
<1>9. ASSUME NEW q \in Quote, LapseQuote(q) PROVE Kept
  BY <1>1, <1>9 DEF LapseQuote
<1>10. CASE UNCHANGED db
  BY <1>1, <1>10 DEF db
<1> QED
  BY <1>2, <1>3, <1>4, <1>5, <1>6, <1>7, <1>8, <1>9, <1>10, StepKinds DEF Writes

LEMMA BaseStep ==
  ASSUME HiringAssumption, Base, [Next]_vars
  PROVE  Base'
<1>1. QuoteEffect
  BY QuoteEffectStep
<1> QED
  BY <1>1, SessionsStep, OtherTablesStep DEF Base, HiringTypeOK, QuotesOK, QuoteEffect

LEMMA BaseInit == ASSUME Init PROVE Base
<1>1. HiringTypeOK
  BY IdleReadsNothing DEF Init, HiringTypeOK, RequestRow, QuoteRow
<1>2. QuotesOK
  BY DEF Init, QuotesOK
<1>3. TxOK
  BY IdleReadsNothing DEF Init, TxOK
<1> QED
  BY <1>1, <1>2, <1>3 DEF Base

(* Every variable of Hiring keeps to its type.                             *)
THEOREM HiringTypeCorrect == Spec => []HiringTypeOK
<1>1. Init => Base
  BY BaseInit
<1>2. Base /\ [Next]_vars => Base'
  BY BaseStep, HiringAssumption
<1>3. Base => HiringTypeOK
  BY DEF Base
<1> QED
  BY <1>1, <1>2, <1>3, PTL DEF Spec

-----------------------------------------------------------------------------
(* The rules on quotes. *)

(* What a step may do to the status of quotes: insert one that is live     *)
(* beside no other of its provider, accept one beside no other live one of *)
(* its provider and no other accepted one, or make some not live.          *)
Falls(q) == quote'[q].status \in LiveQuote => quote'[q].status = quote[q].status

StatusEffect ==
  \/ \A q \in Quote : Falls(q)
  \/ \E q \in Quote :
       /\ quote'[q].status = "PENDING"
       /\ NoOtherLive(q)
       /\ \A o \in Quote \ {q} : Falls(o)
  \/ \E q \in Quote :
       /\ quote'[q].status = "ACCEPTED"
       /\ NoOtherLive(q)
       /\ NoOtherAccepted(q)
       /\ booked'[q] # NoAmount
       /\ \A o \in Quote \ {q} : Falls(o)

LEMMA StatusEffectStep ==
  ASSUME HiringAssumption, Base, [Next]_vars
  PROVE  StatusEffect /\ \A q \in Quote : booked[q] # NoAmount => booked'[q] # NoAmount
<1> DEFINE Stay == \A q \in Quote : booked[q] # NoAmount => booked'[q] # NoAmount
<1>0. /\ quote \in [Quote -> QuoteRow]
      /\ booked \in [Quote -> Amount \cup {NoAmount}]
  BY DEF Base, HiringTypeOK
<1>1. ASSUME UNCHANGED quote PROVE StatusEffect
  BY <1>1 DEF StatusEffect, Falls
<1>2. ASSUME UNCHANGED booked PROVE Stay
  BY <1>2
<1>3. ASSUME NEW q \in Quote, LapseQuote(q) PROVE StatusEffect /\ Stay
  BY <1>0, <1>3 DEF LapseQuote, StatusEffect, Falls, QuoteRow
<1>4. ASSUME NEW s \in Session, QuoteWrite(s) PROVE StatusEffect /\ Stay
  <2>1. tx[s] \in Quoted
    BY <1>4, OpTells DEF Base, HiringTypeOK, QuoteWrite
  <2>2. tx[s].quote \in Quote
    BY <2>1 DEF Quoted
  <2>3. /\ quote'[tx[s].quote].status = "PENDING"
        /\ NoOtherLive(tx[s].quote)
        /\ \A o \in Quote \ {tx[s].quote} : quote'[o] = quote[o]
    BY <1>0, <1>4, <2>2 DEF QuoteWrite
  <2>4. StatusEffect
    BY <2>2, <2>3 DEF StatusEffect, Falls
  <2> QED
    BY <1>4, <2>4 DEF QuoteWrite
<1>5. ASSUME NEW s \in Session, ReviseWrite(s) PROVE StatusEffect /\ Stay
  <2>1. tx[s] \in Revising
    BY <1>5, OpTells DEF Base, HiringTypeOK, ReviseWrite
  <2>2. tx[s].quote \in Quote
    BY <2>1 DEF Revising
  <2>3. \A q \in Quote : Falls(q)
    BY <1>0, <1>5, <2>2, Vocabulary DEF ReviseWrite, Falls, QuoteRow
  <2> QED
    BY <1>5, <2>3 DEF ReviseWrite, StatusEffect
<1>6. ASSUME NEW s \in Session, RejectWrite(s) PROVE StatusEffect /\ Stay
  <2>1. tx[s] \in Rejecting
    BY <1>6, OpTells DEF Base, HiringTypeOK, RejectWrite
  <2>2. tx[s].quote \in Quote
    BY <2>1 DEF Rejecting
  <2>3. \A q \in Quote : Falls(q)
    BY <1>0, <1>6, <2>2, Vocabulary DEF RejectWrite, Falls, QuoteRow
  <2> QED
    BY <1>6, <2>3 DEF RejectWrite, StatusEffect
<1>7. ASSUME NEW s \in Session, AcceptWrite(s) PROVE StatusEffect /\ Stay
  <2> DEFINE q == tx[s].quote
  <2>1. tx[s] \in Accepting
    BY <1>7, OpTells DEF Base, HiringTypeOK, AcceptWrite
  <2>2. q \in Quote /\ tx[s].amount \in Amount
    BY <2>1 DEF Accepting
  <2>3. quote[q] \in QuoteRow
    BY <1>0, <2>2
  <2>4. quote'[q].status = "ACCEPTED"
    BY <1>7, <2>2, <2>3 DEF AcceptWrite, QuoteRow
  <2>5. ASSUME NEW o \in Quote \ {q} PROVE Falls(o)
    <3>1. quote[o] \in QuoteRow
      BY <1>0
    <3> QED
      BY <1>7, <3>1, Vocabulary DEF AcceptWrite, Falls, QuoteRow
  <2>6. booked' = [booked EXCEPT ![q] = tx[s].amount]
        /\ NoOtherLive(q) /\ NoOtherAccepted(q)
    BY <1>7 DEF AcceptWrite
  <2>7. booked'[q] # NoAmount /\ Stay
    BY <1>0, <2>2, <2>6 DEF HiringAssumption
  <2> QED
    BY <2>2, <2>4, <2>5, <2>6, <2>7 DEF StatusEffect
<1>8. ASSUME NEW s \in Session, RecordWrite(s) PROVE StatusEffect /\ Stay
  <2>1. tx[s] \in Recording
    BY <1>8, OpTells DEF Base, HiringTypeOK, RecordWrite
  <2>2. Stay
    BY <1>0, <1>8, <2>1 DEF RecordWrite, Recording, HiringAssumption
  <2> QED
    BY <1>1, <1>8, <2>2 DEF RecordWrite
<1>9. ASSUME NEW r \in Request, NEW target, PostRequest(r, target) \/ ExpireRequest(r)
      PROVE  StatusEffect /\ Stay
  BY <1>1, <1>2, <1>9 DEF PostRequest, ExpireRequest
<1>10. ASSUME NEW s \in Session, MoveRequestWrite(s) PROVE StatusEffect /\ Stay
  BY <1>1, <1>2, <1>10 DEF MoveRequestWrite
<1>11. CASE UNCHANGED db
  BY <1>1, <1>2, <1>11 DEF db
<1> QED
  BY <1>3, <1>4, <1>5, <1>6, <1>7, <1>8, <1>9, <1>10, <1>11, StepKinds DEF Writes

LEMMA QuoteRulesStep ==
  ASSUME HiringAssumption, IInv, [Next]_vars
  PROVE  OneAcceptedQuote' /\ OneLiveQuote' /\ AcceptedQuoteIsBooked'
<1>1. StatusEffect /\ \A q \in Quote : booked[q] # NoAmount => booked'[q] # NoAmount
  BY StatusEffectStep DEF IInv
<1> DEFINE Rules == OneAcceptedQuote' /\ OneLiveQuote' /\ AcceptedQuoteIsBooked'
<1>2. ASSUME \A q \in Quote : Falls(q) PROVE Rules
  BY <1>1, <1>2, Vocabulary
     DEF IInv, OneAcceptedQuote, OneLiveQuote, AcceptedQuoteIsBooked,
         IsAccepted, Falls
<1>3. ASSUME NEW q \in Quote, quote'[q].status = "PENDING", NoOtherLive(q),
             \A o \in Quote \ {q} : Falls(o)
      PROVE  Rules
  BY <1>1, <1>3, Vocabulary
     DEF IInv, OneAcceptedQuote, OneLiveQuote, AcceptedQuoteIsBooked,
         IsAccepted, Falls, NoOtherLive, Siblings
<1>4. ASSUME NEW q \in Quote, quote'[q].status = "ACCEPTED", NoOtherLive(q),
             NoOtherAccepted(q), booked'[q] # NoAmount,
             \A o \in Quote \ {q} : Falls(o)
      PROVE  Rules
  BY <1>1, <1>4, Vocabulary
     DEF IInv, OneAcceptedQuote, OneLiveQuote, AcceptedQuoteIsBooked,
         IsAccepted, Falls, NoOtherLive, NoOtherAccepted, Siblings
<1> QED
  BY <1>1, <1>2, <1>3, <1>4 DEF StatusEffect

LEMMA IInvInvariant == Spec => []IInv
<1>1. Init => IInv
  <2> SUFFICES ASSUME Init PROVE IInv
    OBVIOUS
  <2>1. \A q \in Quote : quote[q].status = "NONE"
    BY DEF Init
  <2> QED
    BY <2>1, BaseInit, Vocabulary
       DEF IInv, OneAcceptedQuote, OneLiveQuote, AcceptedQuoteIsBooked, IsAccepted
<1>2. IInv /\ [Next]_vars => IInv'
  BY BaseStep, QuoteRulesStep, HiringAssumption DEF IInv
<1> QED
  BY <1>1, <1>2, PTL DEF Spec

(* An accepted quote always has its booking: a late write of another       *)
(* handler may take the acceptance away, and nothing takes the booking.    *)
THEOREM AcceptanceIsBooked == Spec => []AcceptedQuoteIsBooked
<1>1. IInv => AcceptedQuoteIsBooked
  BY DEF IInv
<1> QED
  BY <1>1, IInvInvariant, PTL

-----------------------------------------------------------------------------
(* One transaction at a time. *)

(* What the handlers are written for: no transaction overlaps another.     *)
OneSession == \A s, t \in Session : s = t

(* What a session has read still holds when it writes.                     *)
ReadStands(t) ==
  /\ t \in Moving =>
       <<request[t.request].status, t.to, ActorFor(t.caller)>> \in RequestTransitions
  /\ t \in Quoting \cup Quoted => request[requestOf[t.quote]].status \in TakingQuotes
  /\ t \in Revising \cup Accepting \cup Rejecting => quote[t.quote].status = "PENDING"
  /\ t \in Accepting => t.amount = quote[t.quote].amount

ReadsStand == \A s \in Session : ReadStands(tx[s])

(* An acceptance closes its request to quotes, and there is none pending.  *)
AwardIsFinal ==
  \A q \in Quote : IsAccepted(q) =>
    /\ request[requestOf[q]].status \in {"BOOKED", "CLOSED"}
    /\ \A o \in Siblings(q) : quote[o].status # "PENDING"

SerialInv == IInv /\ ReadsStand /\ AwardIsFinal /\ QuotersHearOfCancellation

(* With one session nothing comes between a read and its write but a       *)
(* request that is posted, and no handler can have read that one, or a     *)
(* deadline that passes.                                                   *)
LEMMA ReadsStandStep ==
  ASSUME HiringAssumption, OneSession, Base, ReadsStand, [Next]_vars
  PROVE  ReadsStand'
<1> USE DEF Moving, Quoting, Quoted, Revising, Accepting, Rejecting, Recording
<1>0. /\ tx \in [Session -> Tx] /\ request \in [Request -> RequestRow]
      /\ quote \in [Quote -> QuoteRow]
  BY DEF Base, HiringTypeOK
<1>1. ASSUME NEW s \in Session, ReadStands(tx[s])' PROVE ReadsStand'
  BY <1>1 DEF OneSession, ReadsStand
<1>2. ASSUME NEW s \in Session, Done(s) PROVE ReadsStand'
  <2>1. tx'[s] = Idle
    BY <1>0, <1>2 DEF Done
  <2>2. ReadStands(tx[s])'
    BY <2>1 DEF ReadStands, Idle
  <2> QED
    BY <1>1, <2>2
<1>3. CASE UNCHANGED vars
  BY <1>3 DEF vars, ReadsStand, ReadStands
<1>4. ASSUME NEW r \in Request, NEW target, PostRequest(r, target) PROVE ReadsStand'
  <2> SUFFICES ASSUME NEW s \in Session PROVE ReadStands(tx[s])'
    BY DEF ReadsStand
  <2>1. /\ request[r].status = "NONE" /\ UNCHANGED <<quote, tx>>
        /\ \A o \in Request \ {r} : request'[o] = request[o]
    BY <1>0, <1>4 DEF PostRequest
  <2>2. ReadStands(tx[s])
    BY DEF ReadsStand
  <2>3. tx[s] \in Moving => tx[s].request \in Request \ {r}
    BY <2>1, <2>2 DEF ReadStands, RequestTransitions
  <2>4. tx[s] \in Quoting \cup Quoted => requestOf[tx[s].quote] \in Request \ {r}
    BY <2>1, <2>2 DEF ReadStands, TakingQuotes, HiringAssumption
  <2> QED
    BY <2>1, <2>2, <2>3, <2>4 DEF ReadStands
<1>5. ASSUME NEW r \in Request, ExpireRequest(r) PROVE ReadsStand'
  <2>1. /\ UNCHANGED <<quote, tx>>
        /\ \A o \in Request : request'[o].status = request[o].status
    BY <1>0, <1>5 DEF ExpireRequest, RequestRow
  <2>2. \A q \in Quote : requestOf[q] \in Request
    BY DEF HiringAssumption
  <2> QED
    BY <2>1, <2>2 DEF ReadsStand, ReadStands
<1>6. ASSUME NEW q \in Quote, LapseQuote(q) PROVE ReadsStand'
  <2>1. /\ UNCHANGED <<request, tx>>
        /\ \A o \in Quote : quote'[o].status = quote[o].status /\ quote'[o].amount = quote[o].amount
    BY <1>0, <1>6 DEF LapseQuote, QuoteRow
  <2> QED
    BY <2>1 DEF ReadsStand, ReadStands
<1>7. ASSUME NEW s \in Session, NEW t, tx' = [tx EXCEPT ![s] = t], UNCHANGED db,
             ReadStands(t)
      PROVE  ReadsStand'
  <2>1. tx'[s] = t /\ UNCHANGED <<request, quote>>
    BY <1>0, <1>7 DEF db
  <2>2. ReadStands(tx[s])'
    BY <1>7, <2>1 DEF ReadStands
  <2> QED
    BY <1>1, <2>2
<1>8. ASSUME NEW s \in Session, NEW r \in Request, NEW c, NEW to,
             MoveRequestRead(s, r, c, to)
      PROVE  ReadsStand'
  <2> DEFINE t == [op |-> "status", request |-> r, to |-> to, caller |-> c]
  <2>1. ReadStands(t)
    BY <1>8 DEF MoveRequestRead, ReadStands
  <2> HIDE DEF t
  <2> QED
    BY <1>7, <1>8, <2>1 DEF MoveRequestRead, Open, t
<1>9. ASSUME NEW s \in Session, NEW q \in Quote, NEW amount, QuoteRead(s, q, amount)
      PROVE  ReadsStand'
  <2> DEFINE t == [op |-> "quote", quote |-> q, amount |-> amount]
  <2>1. ReadStands(t)
    BY <1>9 DEF QuoteRead, MayQuote, ReadStands
  <2> HIDE DEF t
  <2> QED
    BY <1>7, <1>9, <2>1 DEF QuoteRead, Open, t
<1>10. ASSUME NEW s \in Session, QuoteReread(s) PROVE ReadsStand'
  <2> DEFINE t == [op |-> "quoted", quote |-> tx[s].quote, amount |-> tx[s].amount,
                   seen |-> request[requestOf[tx[s].quote]].status]
  <2>1. tx[s] \in Quoting /\ ReadStands(tx[s])
    BY <1>0, <1>10, OpTells DEF QuoteReread, ReadsStand
  <2>2. ReadStands(t)
    BY <2>1 DEF ReadStands
  <2> HIDE DEF t
  <2> QED
    BY <1>7, <1>10, <2>2 DEF QuoteReread, t
<1>11. ASSUME NEW s \in Session, NEW q \in Quote, NEW change, ReviseRead(s, q, change)
       PROVE  ReadsStand'
  <2> DEFINE t == [op |-> "revise", quote |-> q, change |-> change]
  <2>1. ReadStands(t)
    BY <1>11 DEF ReviseRead, ReadStands
  <2> HIDE DEF t
  <2> QED
    BY <1>7, <1>11, <2>1 DEF ReviseRead, Open, t
<1>12. ASSUME NEW s \in Session, NEW q \in Quote, NEW c, AcceptRead(s, q, c)
       PROVE  ReadsStand'
  <2> DEFINE t == [op |-> "accept", quote |-> q, amount |-> quote[q].amount, caller |-> c]
  <2>1. ReadStands(t)
    BY <1>12 DEF AcceptRead, ReadStands
  <2> HIDE DEF t
  <2> QED
    BY <1>7, <1>12, <2>1 DEF AcceptRead, Open, t
<1>13. ASSUME NEW s \in Session, NEW q \in Quote, RejectRead(s, q) PROVE ReadsStand'
  <2> DEFINE t == [op |-> "reject", quote |-> q]
  <2>1. ReadStands(t)
    BY <1>13 DEF RejectRead, ReadStands
  <2> HIDE DEF t
  <2> QED
    BY <1>7, <1>13, <2>1 DEF RejectRead, Open, t
<1>14. ASSUME NEW s \in Session, NEW q \in Quote, RecordRead(s, q) PROVE ReadsStand'
  <2> DEFINE t == [op |-> "record", quote |-> q, amount |-> quote[q].amount]
  <2>1. ReadStands(t)
    BY DEF ReadStands
  <2> HIDE DEF t
  <2> QED
    BY <1>7, <1>14, <2>1 DEF RecordRead, Open, t
<1>15. ASSUME NEW s \in Session,
              \/ MoveRequestWrite(s) \/ QuoteWrite(s) \/ ReviseWrite(s)
              \/ AcceptWrite(s) \/ RejectWrite(s) \/ RecordWrite(s) \/ Abort(s)
       PROVE  ReadsStand'
  BY <1>2, <1>15 DEF MoveRequestWrite, QuoteWrite, ReviseWrite, AcceptWrite,
                     RejectWrite, RecordWrite, Abort
<1> QED
  BY <1>3, <1>4, <1>5, <1>6, <1>8, <1>9, <1>10, <1>11, <1>12, <1>13, <1>14, <1>15 DEF Next

(* What a write does to the requests, the quotes and who is told, one case *)
(* for each handler that has any effect there.                             *)
Reposted == \E r \in Request :
  /\ request[r].status = "NONE" /\ request'[r].status = "OPEN"
  /\ \A o \in Request \ {r} : request'[o] = request[o]
  /\ UNCHANGED <<quote, booked, inbox>>

Moved(s) ==
  LET r == tx[s].request
  IN  /\ tx[s] \in Moving /\ request'[r].status = tx[s].to
      /\ \A o \in Request \ {r} : request'[o] = request[o]
      /\ tx[s].to \in {"CANCELLED", "CLOSED"} =>
           {tx[s].to} \X {r} \X QuotersSeenBy(tx[s].caller, r) \subseteq inbox'
      /\ inbox \subseteq inbox'
      /\ UNCHANGED <<quote, booked>>

Offered(s) ==
  LET q == tx[s].quote
  IN  /\ tx[s] \in Quoted
      /\ quote[q].status = "NONE" /\ NoOtherLive(q)
      /\ quote'[q].status = "PENDING" /\ quote'[q].amount = tx[s].amount
      /\ \A o \in Quote \ {q} : quote'[o] = quote[o]
      /\ request'[requestOf[q]].status \in {"QUOTED", request[requestOf[q]].status}
      /\ \A r \in Request \ {requestOf[q]} : request'[r] = request[r]
      /\ inbox \subseteq inbox' /\ UNCHANGED booked

Restated(s) ==
  LET q == tx[s].quote
  IN  /\ tx[s] \in Revising \cup Rejecting
      /\ \/ quote'[q].status \in {"WITHDRAWN", "REJECTED"}
         \/ quote'[q].status = quote[q].status /\ quote'[q].amount \in Amount
      /\ \A o \in Quote \ {q} : quote'[o] = quote[o]
      /\ UNCHANGED <<request, booked, inbox>>

Accepted(s) ==
  LET q == tx[s].quote
  IN  /\ tx[s] \in Accepting
      /\ NoOtherAccepted(q) /\ booked[q] = NoAmount
      /\ quote'[q].status = "ACCEPTED"
      /\ \A o \in Siblings(q) :
           quote'[o].status = IF quote[o].status = "PENDING" THEN "REJECTED" ELSE quote[o].status
      /\ \A o \in Quote \ (Siblings(q) \cup {q}) : quote'[o] = quote[o]
      /\ booked' = [booked EXCEPT ![q] = tx[s].amount]
      /\ request'[requestOf[q]].status = "BOOKED"
      /\ \A r \in Request \ {requestOf[q]} : request'[r] = request[r]
      /\ inbox \subseteq inbox'

Recorded(s) ==
  LET q == tx[s].quote
  IN  /\ tx[s] \in Recording /\ booked[q] = NoAmount
      /\ booked' = [booked EXCEPT ![q] = tx[s].amount]
      /\ UNCHANGED <<request, quote, inbox>>

Unseen ==
  /\ \A r \in Request : request'[r].status = request[r].status
  /\ \A q \in Quote : quote'[q].status = quote[q].status /\ quote'[q].amount = quote[q].amount
  /\ UNCHANGED <<booked, inbox>>

LEMMA Effects ==
  ASSUME HiringAssumption, Base, [Next]_vars
  PROVE  \/ Unseen \/ Reposted
         \/ \E s \in Session : Moved(s) \/ Offered(s) \/ Restated(s) \/ Accepted(s) \/ Recorded(s)
<1> DEFINE Goal == \/ Unseen \/ Reposted
                   \/ \E s \in Session : \/ Moved(s) \/ Offered(s) \/ Restated(s)
                                         \/ Accepted(s) \/ Recorded(s)
<1>0. /\ request \in [Request -> RequestRow] /\ quote \in [Quote -> QuoteRow]
      /\ tx \in [Session -> Tx] /\ \A q \in Quote : requestOf[q] \in Request
  BY DEF Base, HiringTypeOK, HiringAssumption
<1>1. CASE UNCHANGED db
  BY <1>1 DEF db, Unseen
<1>2. ASSUME NEW r \in Request, NEW target, PostRequest(r, target) PROVE Reposted
  BY <1>0, <1>2 DEF PostRequest, Reposted
<1>3. ASSUME NEW r \in Request, ExpireRequest(r) PROVE Unseen
  BY <1>0, <1>3 DEF ExpireRequest, Unseen, RequestRow
<1>4. ASSUME NEW q \in Quote, LapseQuote(q) PROVE Unseen
  BY <1>0, <1>4 DEF LapseQuote, Unseen, QuoteRow
<1>5. ASSUME NEW s \in Session, MoveRequestWrite(s) PROVE Moved(s)
  <2>1. tx[s] \in Moving /\ tx[s].request \in Request
    BY <1>0, <1>5, OpTells DEF MoveRequestWrite, Moving
  <2>2. request' = [request EXCEPT ![tx[s].request].status = tx[s].to]
    BY <1>5 DEF MoveRequestWrite
  <2>3. /\ request'[tx[s].request].status = tx[s].to
        /\ \A o \in Request \ {tx[s].request} : request'[o] = request[o]
    BY <1>0, <2>1, <2>2 DEF RequestRow
  <2> QED
    BY <1>5, <2>1, <2>3 DEF MoveRequestWrite, Moved
<1>6. ASSUME NEW s \in Session, QuoteWrite(s) PROVE Offered(s)
  <2> DEFINE q == tx[s].quote
             r == requestOf[q]
  <2>1. tx[s] \in Quoted /\ q \in Quote /\ r \in Request
    BY <1>0, <1>6, OpTells DEF QuoteWrite, Quoted
  <2>2. /\ quote'[q] = [status |-> "PENDING", amount |-> tx[s].amount, lapsed |-> FALSE]
        /\ \A o \in Quote \ {q} : quote'[o] = quote[o]
    BY <1>0, <1>6, <2>1 DEF QuoteWrite
  <2>3. /\ request'[r].status \in {"QUOTED", request[r].status}
        /\ \A o \in Request \ {r} : request'[o] = request[o]
    BY <1>0, <1>6, <2>1 DEF QuoteWrite, RequestRow
  <2> QED
    BY <1>6, <2>1, <2>2, <2>3 DEF QuoteWrite, Offered
<1>7. ASSUME NEW s \in Session, ReviseWrite(s) PROVE Restated(s)
  <2> DEFINE q == tx[s].quote
             c == tx[s].change
  <2>1. tx[s] \in Revising /\ q \in Quote /\ c \in Change /\ quote[q].status # "NONE"
    BY <1>0, <1>7, OpTells DEF ReviseWrite, Revising, Base, TxOK, Reads
  <2>2. quote[q].amount \in Amount
    BY <2>1 DEF Base, QuotesOK
  <2>3. /\ quote'[q].status = (IF c.withdraw THEN "WITHDRAWN" ELSE quote[q].status)
        /\ quote'[q].amount = (IF c.amount # NoAmount THEN c.amount ELSE quote[q].amount)
        /\ \A o \in Quote \ {q} : quote'[o] = quote[o]
    BY <1>0, <1>7, <2>1 DEF ReviseWrite
  <2>4. quote'[q].amount \in Amount
    BY <2>1, <2>2, <2>3 DEF Change
  <2> QED
    BY <1>7, <2>1, <2>3, <2>4 DEF ReviseWrite, Restated
<1>8. ASSUME NEW s \in Session, RejectWrite(s) PROVE Restated(s)
  <2>1. tx[s] \in Rejecting /\ tx[s].quote \in Quote
    BY <1>0, <1>8, OpTells DEF RejectWrite, Rejecting
  <2> QED
    BY <1>0, <1>8, <2>1 DEF RejectWrite, Restated, QuoteRow
<1>9. ASSUME NEW s \in Session, AcceptWrite(s) PROVE Accepted(s)
  <2> DEFINE q == tx[s].quote
             r == requestOf[q]
  <2>1. tx[s] \in Accepting /\ q \in Quote /\ r \in Request
    BY <1>0, <1>9, OpTells DEF AcceptWrite, Accepting
  <2>2. /\ quote'[q].status = "ACCEPTED"
        /\ \A o \in Siblings(q) :
             quote'[o].status = IF quote[o].status = "PENDING" THEN "REJECTED"
                                ELSE quote[o].status
        /\ \A o \in Quote \ (Siblings(q) \cup {q}) : quote'[o] = quote[o]
    <3>1. \A o \in Quote : quote[o] \in QuoteRow
      BY <1>0
    <3> QED
      BY <1>9, <2>1, <3>1 DEF AcceptWrite, QuoteRow, Siblings
  <2>3. /\ request'[r].status = "BOOKED"
        /\ \A o \in Request \ {r} : request'[o] = request[o]
    BY <1>0, <1>9, <2>1 DEF AcceptWrite, RequestRow
  <2> QED
    BY <1>9, <2>1, <2>2, <2>3 DEF AcceptWrite, Accepted, NoBookingYet
<1>10. ASSUME NEW s \in Session, RecordWrite(s) PROVE Recorded(s)
  BY <1>0, <1>10, OpTells DEF RecordWrite, Recorded, NoBookingYet
<1>11. Goal
  BY <1>1, <1>2, <1>3, <1>4, <1>5, <1>6, <1>7, <1>8, <1>9, <1>10, StepKinds DEF Writes
<1> QED
  BY <1>11

LEMMA AwardIsFinalStep ==
  ASSUME HiringAssumption, Base, ReadsStand, AwardIsFinal, [Next]_vars
  PROVE  AwardIsFinal'
<1> DEFINE Goal == AwardIsFinal'
<1>0. \A q \in Quote : requestOf[q] \in Request
  BY DEF HiringAssumption
<1>1. CASE Unseen
  BY <1>0, <1>1 DEF Unseen, AwardIsFinal, IsAccepted, Siblings
<1>2. CASE Reposted
  BY <1>0, <1>2 DEF Reposted, AwardIsFinal, IsAccepted, Siblings
<1> HIDE DEF Goal
<1>3. ASSUME NEW s \in Session, Moved(s) PROVE Goal
  <2> DEFINE r == tx[s].request
  <2>1. request[r].status = "BOOKED" => request'[r].status = "CLOSED"
    BY <1>3 DEF Moved, ReadsStand, ReadStands, RequestTransitions, CustomerSide
  <2>2. request[r].status # "CLOSED"
    BY <1>3 DEF Moved, ReadsStand, ReadStands, RequestTransitions
  <2>3. \A o \in Request :
          request[o].status \in {"BOOKED", "CLOSED"} => request'[o].status \in {"BOOKED", "CLOSED"}
    BY <1>3, <2>1, <2>2 DEF Moved
  <2> QED
    BY <1>0, <1>3, <2>3 DEF Moved, AwardIsFinal, IsAccepted, Siblings, Goal
<1>4. ASSUME NEW s \in Session, Offered(s) PROVE Goal
  <2> DEFINE q == tx[s].quote
  <2>1. tx[s] \in Quoted /\ q \in Quote
    BY <1>4 DEF Offered, Quoted
  <2>2. request[requestOf[q]].status \in TakingQuotes
    BY <2>1 DEF ReadsStand, ReadStands
  <2>3. \A o \in Quote : requestOf[o] = requestOf[q] => ~IsAccepted(o)
    BY <2>2 DEF AwardIsFinal, TakingQuotes
  <2>4. ASSUME NEW o \in Quote, quote'[o].status = "ACCEPTED"
        PROVE  o # q /\ IsAccepted(o) /\ requestOf[o] # requestOf[q]
    BY <1>4, <2>3, <2>4 DEF Offered, IsAccepted
  <2> QED
    BY <1>0, <1>4, <2>1, <2>4 DEF Offered, AwardIsFinal, IsAccepted, Siblings, Goal
<1>5. ASSUME NEW s \in Session, Restated(s) PROVE Goal
  <2> DEFINE q == tx[s].quote
  <2>1. q \in Quote /\ quote[q].status = "PENDING"
    BY <1>5 DEF Restated, ReadsStand, ReadStands, Revising, Rejecting
  <2>2. /\ quote'[q].status # "ACCEPTED"
        /\ \A o \in Quote \ {q} : quote'[o] = quote[o]
    BY <1>5, <2>1 DEF Restated
  <2> QED
    BY <1>5, <2>1, <2>2 DEF Restated, AwardIsFinal, IsAccepted, Siblings, Goal
<1>6. ASSUME NEW s \in Session, Accepted(s) PROVE Goal
  <2> DEFINE q == tx[s].quote
  <2>1. q \in Quote
    BY <1>6 DEF Accepted, Accepting
  <2>2. \A o \in Siblings(q) : quote'[o].status \notin {"ACCEPTED", "PENDING"}
    BY <1>6 DEF Accepted, NoOtherAccepted
  <2>3. /\ quote'[q].status = "ACCEPTED" /\ request'[requestOf[q]].status = "BOOKED"
        /\ \A o \in Quote \ (Siblings(q) \cup {q}) : quote'[o] = quote[o]
        /\ \A r \in Request \ {requestOf[q]} : request'[r] = request[r]
    BY <1>6 DEF Accepted
  <2> SUFFICES ASSUME NEW o \in Quote, quote'[o].status = "ACCEPTED"
               PROVE  /\ request'[requestOf[o]].status \in {"BOOKED", "CLOSED"}
                      /\ \A c \in Siblings(o) : quote'[c].status # "PENDING"
    BY DEF AwardIsFinal, IsAccepted, Siblings, Goal
  <2>4. CASE o = q
    BY <2>2, <2>3, <2>4
  <2>5. CASE o # q
    <3>1. requestOf[o] # requestOf[q]
      BY <2>1, <2>2, <2>5 DEF Siblings
    <3>2. IsAccepted(o) /\ requestOf[o] \in Request
      BY <1>0, <2>3, <2>5, <3>1 DEF Siblings, IsAccepted
    <3>3. \A c \in Siblings(o) : c \in Quote \ (Siblings(q) \cup {q})
      BY <3>1 DEF Siblings
    <3> QED
      BY <2>3, <3>1, <3>2, <3>3 DEF AwardIsFinal
  <2> QED
    BY <2>4, <2>5
<1>7. ASSUME NEW s \in Session, Recorded(s) PROVE Goal
  BY <1>7 DEF Recorded, AwardIsFinal, IsAccepted, Siblings, Goal
<1>8. Goal
  BY <1>1, <1>2, <1>3, <1>4, <1>5, <1>6, <1>7, Effects DEF Goal
<1> QED
  BY <1>8 DEF Goal

(* A customer or an administrator sees every quote on the request; and no  *)
(* quote is made on a request that was called off.                         *)
LEMMA QuotersStep ==
  ASSUME HiringAssumption, Base, ReadsStand, QuotersHearOfCancellation, [Next]_vars
  PROVE  QuotersHearOfCancellation'
<1> DEFINE Goal == QuotersHearOfCancellation'
<1>0. \A q \in Quote : requestOf[q] \in Request
  BY DEF HiringAssumption
<1>1. ASSUME inbox \subseteq inbox',
             \A r \in Request : request'[r].status = "CANCELLED" => request[r].status = "CANCELLED",
             \A q \in Quote : quote'[q].status # "NONE" /\ quote[q].status = "NONE"
                                => request'[requestOf[q]].status # "CANCELLED"
      PROVE  Goal
  BY <1>1 DEF QuotersHearOfCancellation, QuotesOn
<1> HIDE DEF Goal
<1>2. ASSUME Unseen PROVE Goal
  BY <1>1, <1>2 DEF Unseen
<1>3. ASSUME Reposted PROVE Goal
  <2>1. \A r \in Request : request'[r].status = "CANCELLED" => request[r].status = "CANCELLED"
    BY <1>3 DEF Reposted
  <2> QED
    BY <1>1, <1>3, <2>1 DEF Reposted
<1>4. ASSUME NEW s \in Session, Moved(s) PROVE Goal
  <2> DEFINE r == tx[s].request
  <2>1. r \in Request /\ tx[s].caller \in CustomerSide \cup Provider
    BY <1>4 DEF Moved, Moving
  <2>2. CASE tx[s].to # "CANCELLED"
    <3>1. \A o \in Request : request'[o].status = "CANCELLED" => request[o].status = "CANCELLED"
      BY <1>4, <2>2 DEF Moved
    <3> QED
      BY <1>1, <1>4, <3>1 DEF Moved
  <2>3. CASE tx[s].to = "CANCELLED"
    <3>1. ActorFor(tx[s].caller) \in CustomerSide
      BY <1>4, <2>3 DEF Moved, ReadsStand, ReadStands, RequestTransitions
    <3>2. tx[s].caller \in CustomerSide
      BY <2>1, <3>1, Vocabulary DEF ActorFor
    <3>3. \A q \in QuotesOn(r) : quoterOf[q] \in QuotersSeenBy(tx[s].caller, r)
      BY <3>2 DEF QuotersSeenBy
    <3>4. \A q \in QuotesOn(r) : <<"CANCELLED", r, quoterOf[q]>> \in inbox'
      BY <1>4, <2>3, <3>3 DEF Moved
    <3>5. /\ \A o \in Request : QuotesOn(o)' = QuotesOn(o)
          /\ \A o \in Request \ {r} : request'[o] = request[o]
          /\ inbox \subseteq inbox'
      BY <1>4 DEF Moved, QuotesOn
    <3> QED
      BY <3>4, <3>5 DEF QuotersHearOfCancellation, Goal
  <2> QED
    BY <2>2, <2>3
<1>5. ASSUME NEW s \in Session, Offered(s) PROVE Goal
  <2> DEFINE q == tx[s].quote
  <2>1. tx[s] \in Quoted /\ q \in Quote
    BY <1>5 DEF Offered, Quoted
  <2>2. request[requestOf[q]].status \in TakingQuotes
    BY <2>1 DEF ReadsStand, ReadStands
  <2>3. request'[requestOf[q]].status # "CANCELLED"
    BY <1>5, <2>2 DEF Offered, TakingQuotes
  <2>4. \A r \in Request : request'[r].status = "CANCELLED" => request[r].status = "CANCELLED"
    BY <1>5, <2>3 DEF Offered
  <2> QED
    BY <1>1, <1>5, <2>3, <2>4 DEF Offered
<1>6. ASSUME NEW s \in Session, Restated(s) PROVE Goal
  <2> DEFINE q == tx[s].quote
  <2>1. quote[q].status = "PENDING"
    BY <1>6 DEF Restated, ReadsStand, ReadStands
  <2>2. \A o \in Quote : quote'[o].status # "NONE" => quote[o].status # "NONE"
    BY <1>6, <2>1 DEF Restated
  <2> QED
    BY <1>1, <1>6, <2>2 DEF Restated
<1>7. ASSUME NEW s \in Session, Accepted(s) PROVE Goal
  <2> DEFINE q == tx[s].quote
  <2>1. tx[s] \in Accepting /\ quote[q].status = "PENDING"
    BY <1>7 DEF Accepted, ReadsStand, ReadStands
  <2>2. \A o \in Quote : quote'[o].status # "NONE" => quote[o].status # "NONE"
    BY <1>7, <2>1 DEF Accepted
  <2>3. \A r \in Request : request'[r].status = "CANCELLED" => request[r].status = "CANCELLED"
    BY <1>7 DEF Accepted
  <2> QED
    BY <1>1, <1>7, <2>2, <2>3 DEF Accepted
<1>8. ASSUME NEW s \in Session, Recorded(s) PROVE Goal
  BY <1>1, <1>8 DEF Recorded
<1>9. Goal
  BY <1>2, <1>3, <1>4, <1>5, <1>6, <1>7, <1>8, Effects
<1> QED
  BY <1>9 DEF Goal

LEMMA SerialAlways ==
  ASSUME OneSession
  PROVE  Spec => []SerialInv
<1>1. Init => SerialInv
  <2> SUFFICES ASSUME Init PROVE IInv /\ ReadsStand /\ AwardIsFinal /\ QuotersHearOfCancellation
    BY DEF SerialInv
  <2>1. \A q \in Quote : quote[q].status = "NONE"
    BY DEF Init
  <2>2. IInv
    BY <2>1, BaseInit, Vocabulary
       DEF IInv, OneAcceptedQuote, OneLiveQuote, AcceptedQuoteIsBooked, IsAccepted
  <2>3. ReadsStand
    BY DEF Init, ReadsStand, ReadStands, Idle, Moving, Quoting, Quoted, Revising, Accepting,
           Rejecting
  <2>4. AwardIsFinal /\ QuotersHearOfCancellation
    BY <2>1 DEF AwardIsFinal, QuotersHearOfCancellation, IsAccepted, QuotesOn
  <2> QED
    BY <2>2, <2>3, <2>4
<1>2. SerialInv /\ [Next]_vars => SerialInv'
  BY BaseStep, QuoteRulesStep, ReadsStandStep, AwardIsFinalStep, QuotersStep, HiringAssumption
     DEF SerialInv, IInv
<1> QED
  BY <1>1, <1>2, PTL DEF Spec

(* As long as handlers do not overlap, whoever quoted a request that was   *)
(* called off has been told, whatever became of the quote.                 *)
THEOREM CancellationIsHeard ==
  ASSUME OneSession
  PROVE  Spec => []QuotersHearOfCancellation
<1>1. SerialInv => QuotersHearOfCancellation
  BY DEF SerialInv
<1> QED
  BY <1>1, SerialAlways, PTL

-----------------------------------------------------------------------------
(* Hiring implements Tender: what each step looks like from outside. *)

Offers == [q \in Quote |-> IF quote[q].status = "PENDING" THEN quote[q].amount ELSE NoAmount]
Awards == [r \in Request |-> AwardOf(r)]

AwardsRead ==
  /\ \A q \in Quote : IsAccepted(q) =>
       AwardOf(requestOf[q]) = [quote |-> q, price |-> booked[q]]
  /\ \A r \in Request :
       (\A q \in Quote : requestOf[q] = r => ~IsAccepted(q))
         => AwardOf(r) = [quote |-> NoAmount, price |-> NoAmount]

(* There is at most one accepted quote to choose.                          *)
LEMMA AwardsReadable == OneAcceptedQuote => AwardsRead
<1> SUFFICES ASSUME OneAcceptedQuote PROVE AwardsRead
  OBVIOUS
<1>1. ASSUME NEW q \in Quote, IsAccepted(q)
      PROVE  AwardOf(requestOf[q]) = [quote |-> q, price |-> booked[q]]
  <2> DEFINE Q == QuotesOn(requestOf[q])
             c == CHOOSE o \in Q : IsAccepted(o)
  <2>1. q \in Q
    BY <1>1 DEF QuotesOn, IsAccepted
  <2>2. c \in Q /\ IsAccepted(c)
    BY <1>1, <2>1
  <2>3. c = q
    BY <1>1, <2>2 DEF QuotesOn, OneAcceptedQuote
  <2> HIDE DEF c
  <2>4. AwardOf(requestOf[q]) = [quote |-> c, price |-> booked[c]]
    BY <1>1, <2>1 DEF AwardOf, c
  <2> QED
    BY <2>3, <2>4
<1>2. ASSUME NEW r \in Request, \A q \in Quote : requestOf[q] = r => ~IsAccepted(q)
      PROVE  AwardOf(r) = [quote |-> NoAmount, price |-> NoAmount]
  <2>1. ~ \E q \in QuotesOn(r) : IsAccepted(q)
    BY <1>2 DEF QuotesOn
  <2> QED
    BY <2>1 DEF AwardOf
<1> QED
  BY <1>1, <1>2 DEF AwardsRead

LEMMA AwardsReadableNext == OneAcceptedQuote' => AwardsRead'
BY AwardsReadable, PTL

(* A step that accepts no quote, unaccepts none and books no accepted one  *)
(* leaves the awards alone.                                                *)
LEMMA AwardsStay ==
  ASSUME HiringAssumption, AwardsRead, AwardsRead',
         \A q \in Quote : IsAccepted(q)' <=> IsAccepted(q),
         \A q \in Quote : IsAccepted(q) => booked'[q] = booked[q]
  PROVE  UNCHANGED Awards
<1> SUFFICES ASSUME NEW r \in Request PROVE AwardOf(r)' = AwardOf(r)
  BY DEF Awards
<1>1. CASE \E q \in Quote : requestOf[q] = r /\ IsAccepted(q)
  <2>1. PICK q \in Quote : requestOf[q] = r /\ IsAccepted(q)
    BY <1>1
  <2>2. IsAccepted(q)'
    BY <2>1
  <2>3. AwardOf(r) = [quote |-> q, price |-> booked[q]]
    BY <2>1 DEF AwardsRead
  <2>4. AwardOf(r)' = [quote |-> q, price |-> booked'[q]]
    BY <2>1, <2>2 DEF AwardsRead
  <2> QED
    BY <2>1, <2>3, <2>4
<1>2. CASE ~ \E q \in Quote : requestOf[q] = r /\ IsAccepted(q)
  BY <1>2 DEF AwardsRead
<1> QED
  BY <1>1, <1>2

Nobody == [quote |-> NoAmount, price |-> NoAmount]

TenderOffer(q, a) ==
  /\ Awards[requestOf[q]] = Nobody
  /\ \A o \in Siblings(q) : quoterOf[o] = quoterOf[q] => Offers[o] = NoAmount
  /\ Offers' = [Offers EXCEPT ![q] = a]
  /\ UNCHANGED Awards

TenderDrop(q) ==
  /\ Offers[q] # NoAmount
  /\ Offers' = [Offers EXCEPT ![q] = NoAmount]
  /\ UNCHANGED Awards

TenderAward(q) ==
  /\ Offers[q] # NoAmount
  /\ Awards[requestOf[q]] = Nobody
  /\ Awards' = [Awards EXCEPT ![requestOf[q]] = [quote |-> q, price |-> Offers[q]]]
  /\ Offers' = [o \in Quote |-> IF requestOf[o] = requestOf[q] THEN NoAmount ELSE Offers[o]]

TenderStep ==
  \/ UNCHANGED <<Offers, Awards>>
  \/ \E q \in Quote : (\E a \in Amount : TenderOffer(q, a)) \/ TenderDrop(q) \/ TenderAward(q)

LEMMA QuoteMakesOffer ==
  ASSUME HiringAssumption, SerialInv, AwardsRead, AwardsRead',
         NEW s \in Session, Offered(s)
  PROVE  TenderStep
<1> DEFINE q == tx[s].quote
<1>1. tx[s] \in Quoted /\ q \in Quote /\ tx[s].amount \in Amount /\ requestOf[q] \in Request
  BY DEF Offered, Quoted, HiringAssumption
<1>2. request[requestOf[q]].status \in TakingQuotes
  BY <1>1 DEF SerialInv, ReadsStand, ReadStands
<1>3. \A o \in Quote : requestOf[o] = requestOf[q] => ~IsAccepted(o)
  BY <1>2 DEF SerialInv, AwardIsFinal, TakingQuotes
<1>4. Awards[requestOf[q]] = Nobody
  BY <1>1, <1>3 DEF Awards, AwardsRead, Nobody
<1>5. \A o \in Siblings(q) : quoterOf[o] = quoterOf[q] => Offers[o] = NoAmount
  BY DEF Offered, NoOtherLive, LiveQuote, Siblings, Offers
<1>6. Offers' = [Offers EXCEPT ![q] = tx[s].amount]
  BY <1>1 DEF Offered, Offers
<1>7. \A o \in Quote : IsAccepted(o)' <=> IsAccepted(o)
  BY DEF Offered, IsAccepted
<1>8. UNCHANGED Awards
  BY <1>7, AwardsStay DEF Offered
<1>9. TenderOffer(q, tx[s].amount)
  BY <1>4, <1>5, <1>6, <1>8 DEF TenderOffer
<1> QED
  BY <1>1, <1>9 DEF TenderStep

LEMMA RestatingOffersOrDrops ==
  ASSUME HiringAssumption, SerialInv, AwardsRead, AwardsRead',
         NEW s \in Session, Restated(s)
  PROVE  TenderStep
<1> DEFINE q == tx[s].quote
<1>1. q \in Quote /\ quote[q].status = "PENDING" /\ requestOf[q] \in Request
  BY DEF Restated, Revising, Rejecting, SerialInv, ReadsStand, ReadStands, HiringAssumption
<1>2. quote[q].amount \in Amount /\ NoAmount \notin Amount
  BY <1>1 DEF SerialInv, IInv, Base, QuotesOK, HiringAssumption
<1>3. Offers[q] # NoAmount
  BY <1>1, <1>2 DEF Offers
<1>4. \A o \in Quote : IsAccepted(o)' <=> IsAccepted(o)
  BY <1>1 DEF Restated, IsAccepted
<1>5. UNCHANGED Awards
  BY <1>4, AwardsStay DEF Restated
<1>6. CASE quote'[q].status \in {"WITHDRAWN", "REJECTED"}
  <2>1. Offers' = [Offers EXCEPT ![q] = NoAmount]
    BY <1>1, <1>6 DEF Restated, Offers
  <2>2. TenderDrop(q)
    BY <1>3, <1>5, <2>1 DEF TenderDrop
  <2> QED
    BY <1>1, <2>2 DEF TenderStep
<1>7. CASE quote'[q].status = quote[q].status /\ quote'[q].amount \in Amount
  <2>1. Offers' = [Offers EXCEPT ![q] = quote'[q].amount]
    BY <1>1, <1>7 DEF Restated, Offers
  <2>2. \A o \in Siblings(q) : quoterOf[o] = quoterOf[q] => Offers[o] = NoAmount
    BY <1>1 DEF SerialInv, IInv, OneLiveQuote, LiveQuote, Siblings, Offers
  <2>3. \A o \in Quote : requestOf[o] = requestOf[q] => ~IsAccepted(o)
    BY <1>1 DEF SerialInv, AwardIsFinal, Siblings, IsAccepted
  <2>4. Awards[requestOf[q]] = Nobody
    BY <1>1, <2>3 DEF Awards, AwardsRead, Nobody
  <2>5. TenderOffer(q, quote'[q].amount)
    BY <1>5, <2>1, <2>2, <2>4 DEF TenderOffer
  <2> QED
    BY <1>1, <1>7, <2>5 DEF TenderStep
<1> QED
  BY <1>6, <1>7 DEF Restated

LEMMA AcceptingAwards ==
  ASSUME HiringAssumption, SerialInv, AwardsRead, AwardsRead',
         NEW s \in Session, Accepted(s)
  PROVE  TenderStep
<1>0. tx[s] \in Accepting
  BY DEF Accepted
<1> SUFFICES ASSUME NEW q \in Quote, q = tx[s].quote
             PROVE  TenderStep
  BY <1>0 DEF Accepting
<1> DEFINE r == requestOf[q]
<1>1. /\ tx[s] \in Accepting /\ q \in Quote /\ quote[q].status = "PENDING"
      /\ tx[s].amount = quote[q].amount /\ r \in Request
  BY <1>0 DEF SerialInv, ReadsStand, ReadStands, HiringAssumption
<1>2. quote[q].amount \in Amount /\ NoAmount \notin Amount
  BY <1>1 DEF SerialInv, IInv, Base, QuotesOK, HiringAssumption
<1>3. Offers[q] = quote[q].amount /\ Offers[q] # NoAmount
  BY <1>1, <1>2 DEF Offers
<1>4. \A o \in Quote : requestOf[o] = r => ~IsAccepted(o)
  BY <1>1 DEF SerialInv, AwardIsFinal, Siblings, IsAccepted
<1>5. Awards[r] = Nobody
  BY <1>1, <1>4 DEF Awards, AwardsRead, Nobody
<1>6. booked \in [Quote -> Amount \cup {NoAmount}]
  BY DEF SerialInv, IInv, Base, HiringTypeOK
<1>7. booked'[q] = quote[q].amount /\ \A o \in Quote \ {q} : booked'[o] = booked[o]
  BY <1>1, <1>6 DEF Accepted
<1>8. IsAccepted(q)'
  BY DEF Accepted, IsAccepted
<1>9. ASSUME NEW o \in Quote, requestOf[o] # r
      PROVE  o # q /\ quote'[o] = quote[o]
  BY <1>9 DEF Accepted, Siblings
<1>10. AwardOf(r)' = [quote |-> q, price |-> Offers[q]]
  <2>1. AwardOf(r)' = [quote |-> q, price |-> booked'[q]]
    BY <1>1, <1>8 DEF AwardsRead
  <2> QED
    BY <1>3, <1>7, <2>1
<1>11. ASSUME NEW p \in Request, p # r
       PROVE  AwardOf(p)' = AwardOf(p)
  <2>1. \A o \in Quote : requestOf[o] = p =>
          /\ IsAccepted(o)' <=> IsAccepted(o)
          /\ booked'[o] = booked[o]
    BY <1>7, <1>9, <1>11 DEF IsAccepted
  <2>2. CASE \E o \in Quote : requestOf[o] = p /\ IsAccepted(o)
    <3>1. PICK o \in Quote : requestOf[o] = p /\ IsAccepted(o)
      BY <2>2
    <3>2. IsAccepted(o)' /\ booked'[o] = booked[o]
      BY <2>1, <3>1
    <3>3. AwardOf(p) = [quote |-> o, price |-> booked[o]]
      BY <3>1 DEF AwardsRead
    <3>4. AwardOf(p)' = [quote |-> o, price |-> booked'[o]]
      BY <3>1, <3>2 DEF AwardsRead
    <3> QED
      BY <3>2, <3>3, <3>4
  <2>3. CASE ~ \E o \in Quote : requestOf[o] = p /\ IsAccepted(o)
    BY <2>1, <2>3 DEF AwardsRead
  <2> QED
    BY <2>2, <2>3
<1>12. Awards' = [Awards EXCEPT ![r] = [quote |-> q, price |-> Offers[q]]]
  BY <1>1, <1>10, <1>11 DEF Awards
<1>13. ASSUME NEW o \in Quote
       PROVE  Offers'[o] = IF requestOf[o] = r THEN NoAmount ELSE Offers[o]
  <2>1. CASE requestOf[o] = r
    <3>1. quote'[o].status # "PENDING"
      BY <2>1 DEF Accepted, Siblings
    <3> QED
      BY <2>1, <3>1 DEF Offers
  <2>2. CASE requestOf[o] # r
    BY <1>9, <2>2 DEF Offers
  <2> QED
    BY <2>1, <2>2
<1>14. Offers' = [o \in Quote |-> IF requestOf[o] = r THEN NoAmount ELSE Offers[o]]
  BY <1>13 DEF Offers
<1>15. TenderAward(q)
  BY <1>3, <1>5, <1>12, <1>14 DEF TenderAward
<1> QED
  BY <1>1, <1>15 DEF TenderStep

LEMMA EveryStepIsTenders ==
  ASSUME HiringAssumption, SerialInv, AwardsRead, AwardsRead', [Next]_vars
  PROVE  TenderStep
<1>1. ASSUME \A q \in Quote : /\ quote'[q].status = quote[q].status
                              /\ quote'[q].amount = quote[q].amount,
             \A q \in Quote : IsAccepted(q) => booked'[q] = booked[q]
      PROVE  TenderStep
  <2>1. UNCHANGED Offers
    BY <1>1 DEF Offers
  <2>2. UNCHANGED Awards
    BY <1>1, AwardsStay DEF IsAccepted
  <2> QED
    BY <2>1, <2>2 DEF TenderStep
<1>2. CASE Unseen \/ Reposted
  BY <1>1, <1>2 DEF Unseen, Reposted
<1>3. ASSUME NEW s \in Session, Moved(s) PROVE TenderStep
  BY <1>1, <1>3 DEF Moved
<1>4. ASSUME NEW s \in Session, Recorded(s) PROVE TenderStep
  <2>1. \A q \in Quote : IsAccepted(q) => booked'[q] = booked[q]
    BY <1>4 DEF Recorded, Recording, SerialInv, IInv, AcceptedQuoteIsBooked, Base, HiringTypeOK
  <2> QED
    BY <1>1, <1>4, <2>1 DEF Recorded
<1> QED
  BY <1>2, <1>3, <1>4, QuoteMakesOffer, RestatingOffersOrDrops, AcceptingAwards, Effects
     DEF SerialInv, IInv

(* As long as handlers do not overlap, hiring is a Tender: a request is    *)
(* awarded once, to a quote that stood, at the price it stood at, and no   *)
(* quote on it stands from then on.                                        *)
THEOREM HiringIsATender ==
  ASSUME OneSession
  PROVE  Spec => ImplementsTender
<1>1. Init => AsTender!Init
  <2> SUFFICES ASSUME Init PROVE AsTender!Init
    OBVIOUS
  <2>1. \A q \in Quote : quote[q].status = "NONE"
    BY DEF Init
  <2>2. AwardsRead
    BY <2>1, AwardsReadable DEF OneAcceptedQuote, IsAccepted
  <2>3. \A r \in Request : AwardOf(r) = [quote |-> NoAmount, price |-> NoAmount]
    BY <2>1, <2>2 DEF AwardsRead, IsAccepted
  <2> QED
    BY <2>1, <2>3 DEF AsTender!Init
<1>2. SerialInv /\ SerialInv' /\ [Next]_vars => [AsTender!Next]_<<Offers, Awards>>
  <2> SUFFICES ASSUME SerialInv, SerialInv', [Next]_vars
               PROVE  [AsTender!Next]_<<Offers, Awards>>
    OBVIOUS
  <2>1. AwardsRead /\ AwardsRead'
    BY AwardsReadable, AwardsReadableNext DEF SerialInv, IInv
  <2>2. TenderStep
    BY <2>1, EveryStepIsTenders, HiringAssumption
  <2>3. ASSUME NEW q \in Quote, NEW a \in Amount, TenderOffer(q, a)
        PROVE  AsTender!Offer(q, a)
    BY <2>3 DEF TenderOffer, AsTender!Offer, AsTender!Rivals, AsTender!Stands,
                Siblings, Offers, Awards, Nobody
  <2>4. ASSUME NEW q \in Quote, TenderDrop(q)
        PROVE  AsTender!Drop(q)
    BY <2>4 DEF TenderDrop, AsTender!Drop, AsTender!Stands, Offers, Awards
  <2>5. ASSUME NEW q \in Quote, TenderAward(q)
        PROVE  AsTender!Award(q)
    BY <2>5 DEF TenderAward, AsTender!Award, AsTender!Rivals, AsTender!Stands,
                Offers, Awards, Nobody
  <2> QED
    BY <2>2, <2>3, <2>4, <2>5 DEF TenderStep, AsTender!Next
<1> QED
  BY <1>1, <1>2, SerialAlways, PTL
     DEF Spec, ImplementsTender, AsTender!Spec, Offers, Awards
=============================================================================
