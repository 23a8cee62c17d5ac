---------------------------- MODULE AccountsProofs ----------------------------
(***************************************************************************)
(* Proofs about Accounts, for any number of sessions, Google accounts and  *)
(* limits, and for any set of scenarios.                                   *)
(*                                                                         *)
(* Every handler works from what it read some statements ago.  What makes  *)
(* that safe is that the tables only grow: an account is never removed, a  *)
(* token keeps its family and stays dead once it is, a code keeps its      *)
(* kind.                                                                   *)
(***************************************************************************)
EXTENDS Accounts, FiniteSetTheorems, TLAPS

-----------------------------------------------------------------------------
(* The inductive invariant *)

Token == [family : Nat, revoked : BOOLEAN, next : Nat]

CodeRow ==
  [kind : Kinds, status : {"open", "retired", "spent"}, attempts : Nat,
   locked : BOOLEAN, verified : BOOLEAN, recent : BOOLEAN, tries : Nat]

AccountRow ==
  [exists : BOOLEAN, status : {"ACTIVE", "SUSPENDED"}, password : Passwords,
   verified : BOOLEAN, failed : Nat, locked : {"no", "locked", "past"}]

Request == [at : Steps, ref : Nat, n : Nat]

(* Before the account exists nothing hangs on it.                          *)
AccountOK ==
  /\ account \in AccountRow
  /\ ~account.exists => account = NoAccount /\ strikes = 0 /\ links = {} /\ codes = <<>>

TokensOK ==
  /\ tokens \in Seq(Token)
  /\ \A t \in 1..Len(tokens) :
       /\ tokens[t].family \in 1..t
       /\ tokens[t].next \in {0} \cup ((t + 1)..Len(tokens))
       /\ tokens[t].next # 0 => tokens[tokens[t].next].family = tokens[t].family

(* The steps of a request that has found no account, or need not.          *)
WithoutAccount == {"idle", "by_email", "create", "end_family"}

(* What a request under way still relies on.                               *)
RequestOK(h) ==
  /\ h \in Request
  /\ h.at \notin WithoutAccount => account.exists
  /\ h.at \in {"by_email", "link", "create"} => h.ref \in Subject
  /\ h.at = "issue" => h.ref \in 0..Len(tokens)
  /\ h.at = "end_family" => h.ref \in 1..Len(tokens)
  /\ h.at = "retire" => /\ h.ref \in 1..Len(tokens)
                        /\ h.n \in (h.ref + 1)..Len(tokens)
                        /\ tokens[h.n].family = tokens[h.ref].family
  /\ h.at \in {"wrong", "right", "reset"} => h.ref \in 1..Len(codes)
  /\ h.at = "reset" => codes[h.ref].kind = "reset"
  /\ h.at \in {"insert_reset", "insert_email"} => h.n \in 0..Len(codes)

HandlersOK ==
  /\ handler \in [Session -> Request]
  /\ \A s \in Session : RequestOK(handler[s])

CountsOK ==
  /\ links \subseteq Subject
  /\ codes \in Seq(CodeRow)
  /\ strikes \in Nat
  /\ scenario \in ScenarioType
  /\ restarts \in 0..scenario.restarts

Base == AccountOK /\ TokensOK /\ HandlersOK /\ CountsOK

(* A suspension under which no request is under way leaves none that could *)
(* still sign somebody in.                                                 *)
SignedOut ==
  scenario.serial /\ account.status = "SUSPENDED"
    => /\ \A t \in 1..Len(tokens) : ~Live(t)
       /\ \A s \in Session : handler[s].at \notin {"welcome", "issue", "link"}

(* Of the requests that ask for a code of this kind one is under way, and  *)
(* the rows it has seen are all that it has to retire.                     *)
ReplaceStep(kind) == IF kind = "reset" THEN "replace_reset" ELSE "replace_email"
InsertStep(kind)  == IF kind = "reset" THEN "insert_reset" ELSE "insert_email"
Asking(kind)      == IF kind = "reset" THEN {"request_reset"} ELSE {"send"}

Replaces(s, kind) == handler[s].at \in {ReplaceStep(kind), InsertStep(kind)}

OneOpen(kind) ==
  /\ \A s \in Session :
       Replaces(s, kind) => scenario.routes[s] \cap Asking(kind) # {}
  /\ Alone(Asking(kind)) =>
       /\ \A r, s \in Session : Replaces(r, kind) /\ Replaces(s, kind) => r = s
       /\ \A i, j \in Open(kind) : i = j
       /\ \A s \in Session :
            handler[s].at = InsertStep(kind) => \A i \in Open(kind) : i <= handler[s].n

(* What a request will write as the count is what it read plus one, so the *)
(* count is never behind as long as nobody else counts.                    *)
StrikesOK ==
  /\ account.locked = "no" => account.failed < MaxAttempts
  /\ \A s \in Session : At(s, "count") => "login" \in scenario.routes[s]
  /\ Alone({"login"}) =>
       /\ \A r, s \in Session : At(r, "count") /\ At(s, "count") => r = s
       /\ strikes <= account.failed
       /\ \A s \in Session : At(s, "count") => strikes <= handler[s].n

TriesOK ==
  /\ \A s \in Session :
       handler[s].at \in {"wrong", "right"} => scenario.routes[s] \cap {"verify", "confirm"} # {}
  /\ Alone({"verify", "confirm"}) =>
       /\ \A r, s \in Session :
            {handler[r].at, handler[s].at} \subseteq {"wrong", "right"} => r = s
       /\ \A i \in 1..Len(codes) :
            /\ codes[i].tries <= MaxGuesses
            /\ ~codes[i].verified => codes[i].tries <= codes[i].attempts
            /\ ~codes[i].locked => codes[i].attempts < MaxGuesses
       /\ \A s \in Session :
            At(s, "wrong") => /\ codes[handler[s].ref].tries <= handler[s].n
                              /\ handler[s].n < MaxGuesses

(* A refresh that was let through holds the live token of its family, or   *)
(* the family has ended under it.                                          *)
Rotates(s) == handler[s].at \in {"issue", "retire"} /\ handler[s].ref # 0

Retiring == {t \in DOMAIN tokens : \E s \in Session : At(s, "retire") /\ Rotates(s) /\ handler[s].ref = t}

HoldsChain(s) ==
  LET chain == LiveIn(tokens[handler[s].ref].family)
  IN  handler[s].ref \notin chain =>
        chain \subseteq IF At(s, "issue") THEN {} ELSE {handler[s].n}

ChainsOK ==
  /\ \A s \in Session : Rotates(s) => "refresh" \in scenario.routes[s]
  /\ Alone({"refresh"}) =>
       /\ \A r, s \in Session : Rotates(r) /\ Rotates(s) => r = s
       /\ \A s \in Session : Rotates(s) => HoldsChain(s)
       /\ \A f \in DOMAIN tokens : Cardinality(LiveIn(f) \ Retiring) <= 1 + restarts

-----------------------------------------------------------------------------
(* What no step undoes *)

TokensGrow ==
  /\ TokensOK'
  /\ Len(tokens) <= Len(tokens')
  /\ \A t \in 1..Len(tokens) :
       /\ tokens'[t].family = tokens[t].family
       /\ tokens[t].revoked => tokens'[t].revoked
       /\ tokens[t].next # 0 => tokens'[t].next # 0

CodesGrow ==
  /\ codes' \in Seq(CodeRow)
  /\ Len(codes) <= Len(codes')
  /\ \A i \in 1..Len(codes) : codes'[i].kind = codes[i].kind

Grows ==
  /\ account.exists => account'.exists
  /\ TokensGrow
  /\ CodesGrow

(* A request keeps what it relies on through the steps of the others.      *)
LEMMA RequestKept ==
  ASSUME Base, Grows, NEW h, RequestOK(h)
  PROVE  RequestOK(h)'
<1>1. h \in Request
  BY DEF RequestOK
<1>2. h.ref \in Nat /\ h.n \in Nat
  BY <1>1 DEF Request
<1>3. Len(tokens) \in Nat /\ Len(tokens') \in Nat /\ Len(codes) \in Nat /\ Len(codes') \in Nat
  BY DEF Base, TokensOK, CountsOK, Grows, TokensGrow, CodesGrow
<1>4. h.at = "retire" => /\ h.ref \in 1..Len(tokens')
                         /\ h.n \in (h.ref + 1)..Len(tokens')
                         /\ tokens'[h.n].family = tokens'[h.ref].family
  BY <1>1, <1>2, <1>3 DEF RequestOK, Grows, TokensGrow
<1>5. /\ h.at = "issue" => h.ref \in 0..Len(tokens')
      /\ h.at = "end_family" => h.ref \in 1..Len(tokens')
  BY <1>2, <1>3 DEF RequestOK, Grows, TokensGrow
<1>6. /\ h.at \in {"wrong", "right", "reset"} => h.ref \in 1..Len(codes')
      /\ h.at = "reset" => codes'[h.ref].kind = "reset"
      /\ h.at \in {"insert_reset", "insert_email"} => h.n \in 0..Len(codes')
  BY <1>2, <1>3 DEF RequestOK, Grows, CodesGrow
<1>7. /\ h.at \notin WithoutAccount => account'.exists
      /\ h.at \in {"by_email", "link", "create"} => h.ref \in Subject
  BY DEF RequestOK, Grows
<1> QED
  BY <1>1, <1>4, <1>5, <1>6, <1>7 DEF RequestOK

-----------------------------------------------------------------------------
(* The statements that write refresh_tokens *)

LEMMA RevokeGrows ==
  ASSUME TokensOK, NEW chosen, Revoke(chosen)
  PROVE  /\ TokensGrow
         /\ Len(tokens') = Len(tokens)
         /\ \A t \in 1..Len(tokens) :
              /\ tokens'[t].next = tokens[t].next
              /\ chosen[t] => tokens'[t].revoked
<1>1. tokens \in Seq(Token) /\ DOMAIN tokens = 1..Len(tokens) /\ Len(tokens) \in Nat
  BY DEF TokensOK
<1>2. \A t \in 1..Len(tokens) : tokens[t] \in Token
  BY <1>1
<1>3. tokens' = [t \in 1..Len(tokens) |->
                   IF chosen[t] THEN [tokens[t] EXCEPT !.revoked = TRUE] ELSE tokens[t]]
  BY <1>1 DEF Revoke
<1>4. \A t \in 1..Len(tokens) :
        /\ tokens'[t] \in Token
        /\ tokens'[t].family = tokens[t].family
        /\ tokens'[t].next = tokens[t].next
        /\ tokens[t].revoked => tokens'[t].revoked
        /\ chosen[t] => tokens'[t].revoked
  BY <1>2, <1>3 DEF Token
<1>5. tokens' \in Seq(Token) /\ Len(tokens') = Len(tokens)
  BY <1>1, <1>3, <1>4
<1>6. TokensOK'
  <2>1. \A t \in 1..Len(tokens) : tokens[t].next # 0 => tokens[t].next \in 1..Len(tokens)
    BY <1>1 DEF TokensOK
  <2> QED
    BY <1>4, <1>5, <2>1 DEF TokensOK
<1> QED
  BY <1>1, <1>4, <1>5, <1>6 DEF TokensGrow

LEMMA IssueGrows ==
  ASSUME Base, NEW s \in Session, Issue(s)
  PROVE  /\ TokensGrow
         /\ Len(tokens') = Len(tokens) + 1
         /\ \A t \in 1..Len(tokens) : tokens'[t] = tokens[t]
         /\ tokens'[Len(tokens) + 1] =
              [family |-> IF handler[s].ref = 0 THEN Len(tokens) + 1
                                                ELSE tokens[handler[s].ref].family,
               revoked |-> FALSE, next |-> 0]
<1> DEFINE old == handler[s].ref
           family == IF old = 0 THEN Len(tokens) + 1 ELSE tokens[old].family
           row == [family |-> family, revoked |-> FALSE, next |-> 0]
<1>1. tokens \in Seq(Token) /\ Len(tokens) \in Nat
  BY DEF Base, TokensOK
<1>2. old \in 0..Len(tokens)
  BY DEF Issue, At, Base, HandlersOK, RequestOK
<1>3. family \in 1..(Len(tokens) + 1)
  BY <1>1, <1>2 DEF Base, TokensOK
<1>4. row \in Token
  BY <1>1, <1>3 DEF Token
<1>5. tokens' = Append(tokens, row)
  BY DEF Issue
<1> HIDE DEF row
<1>6. /\ tokens' \in Seq(Token) /\ Len(tokens') = Len(tokens) + 1
      /\ \A t \in 1..Len(tokens) : tokens'[t] = tokens[t]
      /\ tokens'[Len(tokens) + 1] = row
  BY <1>1, <1>4, <1>5
<1>7. row.family = family /\ row.next = 0
  BY DEF row
<1>8. ASSUME NEW t \in 1..Len(tokens')
      PROVE  /\ tokens'[t].family \in 1..t
             /\ tokens'[t].next \in {0} \cup ((t + 1)..Len(tokens'))
             /\ tokens'[t].next # 0
                  => tokens'[tokens'[t].next].family = tokens'[t].family
  <2>1. CASE t \in 1..Len(tokens)
    <3>1. tokens[t].next # 0 => tokens[t].next \in 1..Len(tokens)
      BY <1>1, <2>1 DEF Base, TokensOK
    <3> QED
      BY <1>1, <1>6, <2>1, <3>1 DEF Base, TokensOK
  <2>2. CASE t = Len(tokens) + 1
    BY <1>3, <1>6, <1>7, <2>2
  <2> QED
    BY <1>1, <1>6, <2>1, <2>2
<1>9. TokensOK'
  BY <1>6, <1>8 DEF TokensOK
<1>10. TokensGrow
  BY <1>1, <1>6, <1>9 DEF TokensGrow
<1> QED
  BY <1>6, <1>10 DEF row

LEMMA RetiredToken ==
  ASSUME NEW tok \in Token, NEW new \in Nat
  PROVE  LET row == [[tok EXCEPT !.revoked = TRUE] EXCEPT !.next = new]
         IN  row \in Token /\ row.family = tok.family /\ row.revoked /\ row.next = new
<1> DEFINE row == [[tok EXCEPT !.revoked = TRUE] EXCEPT !.next = new]
<1>1. row \in Token /\ row.family = tok.family /\ row.next = new
  BY DEF Token
<1>2. row.revoked
  BY DEF Token
<1> QED
  BY <1>1, <1>2

LEMMA RetireGrows ==
  ASSUME Base, NEW s \in Session, Retire(s)
  PROVE  /\ TokensGrow
         /\ Len(tokens') = Len(tokens)
         /\ \A t \in 1..Len(tokens) : t # handler[s].ref => tokens'[t] = tokens[t]
         /\ tokens'[handler[s].ref].revoked
<1> DEFINE old == handler[s].ref
           new == handler[s].n
<1>1. tokens \in Seq(Token) /\ Len(tokens) \in Nat
  BY DEF Base, TokensOK
<1>2. /\ old \in 1..Len(tokens) /\ new \in (old + 1)..Len(tokens)
      /\ tokens[new].family = tokens[old].family
  BY DEF Retire, At, Base, HandlersOK, RequestOK
<1>3. tokens[old] \in Token
  BY <1>1, <1>2
<1> DEFINE row == [[tokens[old] EXCEPT !.revoked = TRUE] EXCEPT !.next = new]
<1>4. tokens' = [tokens EXCEPT ![old] = row]
  <2>1. tokens' = [tokens EXCEPT ![old].revoked = TRUE, ![old].next = new]
    BY DEF Retire
  <2> QED
    BY <1>1, <1>2, <2>1
<1>5. new \in Nat
  BY <1>1, <1>2
<1>6. row \in Token /\ row.family = tokens[old].family /\ row.revoked /\ row.next = new
  BY <1>3, <1>5, RetiredToken
<1> HIDE DEF row
<1>7. /\ tokens' \in Seq(Token) /\ Len(tokens') = Len(tokens)
      /\ \A t \in 1..Len(tokens) : t # old => tokens'[t] = tokens[t]
      /\ tokens'[old] = row
  BY <1>1, <1>2, <1>4, <1>6
<1>8. \A t \in 1..Len(tokens) : tokens'[t].family = tokens[t].family
  BY <1>7, <1>6
<1>9. ASSUME NEW t \in 1..Len(tokens)
      PROVE  /\ tokens'[t].family \in 1..t
             /\ tokens'[t].next \in {0} \cup ((t + 1)..Len(tokens))
             /\ tokens'[t].next # 0
                  => tokens'[tokens'[t].next].family = tokens'[t].family
  <2>1. tokens'[t].next = IF t = old THEN new ELSE tokens[t].next
    BY <1>7, <1>6
  <2>2. tokens'[t].next \in {0} \cup ((t + 1)..Len(tokens))
    BY <1>2, <2>1 DEF Base, TokensOK
  <2>3. tokens'[t].next # 0 => tokens'[t].next \in 1..Len(tokens)
    BY <1>1, <2>2
  <2> QED
    BY <1>2, <1>8, <2>1, <2>2, <2>3 DEF Base, TokensOK
<1>10. TokensOK'
  BY <1>7, <1>9 DEF TokensOK
<1>11. TokensGrow
  BY <1>1, <1>2, <1>7, <1>6, <1>8, <1>10 DEF TokensGrow
<1> QED
  BY <1>7, <1>6, <1>11

-----------------------------------------------------------------------------
(* The statements that write the two tables of codes *)

LEMMA RowWritten ==
  ASSUME Base, NEW i \in 1..Len(codes), NEW row \in CodeRow, row.kind = codes[i].kind,
         codes' = [codes EXCEPT ![i] = row]
  PROVE  /\ CodesGrow
         /\ Len(codes') = Len(codes)
         /\ \A j \in 1..Len(codes) : codes'[j] = IF j = i THEN row ELSE codes[j]
<1>1. codes \in Seq(CodeRow) /\ Len(codes) \in Nat
  BY DEF Base, CountsOK
<1>2. /\ codes' \in Seq(CodeRow) /\ Len(codes') = Len(codes)
      /\ \A j \in 1..Len(codes) : codes'[j] = IF j = i THEN row ELSE codes[j]
  BY <1>1
<1> QED
  BY <1>1, <1>2 DEF CodesGrow

LEMMA InsertWrites ==
  ASSUME Base, NEW s \in Session, NEW kind \in Kinds, InsertCode(s, kind)
  PROVE  /\ CodesGrow
         /\ Len(codes') = Len(codes) + 1
         /\ \A i \in 1..Len(codes) :
              codes'[i] = IF i <= handler[s].n /\ i \in Open(kind)
                          THEN [codes[i] EXCEPT !.status = "retired"] ELSE codes[i]
         /\ codes'[Len(codes) + 1] = NewCode(kind)
<1> DEFINE old == [i \in DOMAIN codes |->
                     IF i <= handler[s].n /\ i \in Open(kind)
                     THEN [codes[i] EXCEPT !.status = "retired"] ELSE codes[i]]
<1>1. codes \in Seq(CodeRow) /\ Len(codes) \in Nat /\ DOMAIN codes = 1..Len(codes)
  BY DEF Base, CountsOK
<1>2. \A i \in 1..Len(codes) : old[i] \in CodeRow /\ old[i].kind = codes[i].kind
  <2>1. \A row \in CodeRow : /\ [row EXCEPT !.status = "retired"] \in CodeRow
                              /\ [row EXCEPT !.status = "retired"].kind = row.kind
    BY DEF CodeRow
  <2>2. \A i \in 1..Len(codes) : codes[i] \in CodeRow
    BY <1>1
  <2> QED
    BY <1>1, <2>1, <2>2
<1>3. old \in Seq(CodeRow) /\ Len(old) = Len(codes)
  BY <1>1, <1>2
<1>4. NewCode(kind) \in CodeRow
  BY DEF NewCode, CodeRow, Kinds
<1>5. codes' = Append(old, NewCode(kind))
  BY DEF InsertCode
<1> HIDE DEF old
<1>6. /\ codes' \in Seq(CodeRow) /\ Len(codes') = Len(codes) + 1
      /\ \A i \in 1..Len(codes) : codes'[i] = old[i]
      /\ codes'[Len(codes) + 1] = NewCode(kind)
  BY <1>1, <1>3, <1>4, <1>5
<1>7. CodesGrow
  BY <1>1, <1>2, <1>6 DEF CodesGrow
<1> QED
  BY <1>1, <1>6, <1>7 DEF old

LEMMA CooldownWrites ==
  ASSUME Base, NEW i \in DOMAIN codes, CooldownPasses(i)
  PROVE  /\ CodesGrow
         /\ Len(codes') = Len(codes)
         /\ \A j \in 1..Len(codes) :
              codes'[j] = IF j = i THEN [codes[j] EXCEPT !.recent = FALSE] ELSE codes[j]
<1> DEFINE row == [codes[i] EXCEPT !.recent = FALSE]
<1>1. i \in 1..Len(codes) /\ codes[i] \in CodeRow
  BY DEF Base, CountsOK
<1>2. row \in CodeRow /\ row.kind = codes[i].kind
  BY <1>1 DEF CodeRow
<1>3. codes' = [codes EXCEPT ![i] = row]
  BY DEF CooldownPasses
<1>4. row = [codes[i] EXCEPT !.recent = FALSE]
  OBVIOUS
<1> HIDE DEF row
<1>5. /\ CodesGrow
      /\ Len(codes') = Len(codes)
      /\ \A j \in 1..Len(codes) : codes'[j] = IF j = i THEN row ELSE codes[j]
  BY <1>1, <1>2, <1>3, RowWritten
<1> QED
  BY <1>4, <1>5

(* The row a wrong guess leaves.                                           *)
Guessed(row, n) ==
  [row EXCEPT !.attempts = n + 1, !.tries = @ + 1,
              !.locked = n + 1 >= MaxGuesses \/ (row.kind = "email" /\ @)]

LEMMA GuessedRow ==
  ASSUME NEW row \in CodeRow, NEW n \in Nat, AccountsAssumption
  PROVE  /\ Guessed(row, n) \in CodeRow
         /\ Guessed(row, n).kind = row.kind
         /\ Guessed(row, n).status = row.status
         /\ Guessed(row, n).verified = row.verified
         /\ Guessed(row, n).attempts = n + 1
         /\ Guessed(row, n).tries = row.tries + 1
         /\ ~Guessed(row, n).locked => n + 1 < MaxGuesses
<1> DEFINE lock == n + 1 >= MaxGuesses \/ (row.kind = "email" /\ row.locked)
           new  == [row EXCEPT !.attempts = n + 1, !.tries = row.tries + 1, !.locked = lock]
<1>1. row.tries + 1 \in Nat /\ n + 1 \in Nat
  BY DEF CodeRow
<1>2. lock \in BOOLEAN
  OBVIOUS
<1>3. ~lock => n + 1 < MaxGuesses
  BY DEF AccountsAssumption
<1>4. Guessed(row, n) = new
  BY DEF Guessed, CodeRow
<1> HIDE DEF lock
<1>5. new \in CodeRow
  BY <1>1, <1>2 DEF CodeRow
<1>6. /\ new.kind = row.kind /\ new.status = row.status
      /\ new.attempts = n + 1 /\ new.tries = row.tries + 1
  BY DEF CodeRow
<1>7. new.verified = row.verified
  BY DEF CodeRow
<1>8. new.locked = lock
  BY DEF CodeRow
<1> QED
  BY <1>3, <1>4, <1>5, <1>6, <1>7, <1>8

LEMMA WrongWrites ==
  ASSUME AccountsAssumption, Base, NEW s \in Session, WrongCode(s)
  PROVE  /\ CodesGrow
         /\ Len(codes') = Len(codes)
         /\ \A j \in 1..Len(codes) :
              codes'[j] = IF j = handler[s].ref THEN Guessed(codes[j], handler[s].n)
                                                ELSE codes[j]
<1> DEFINE i == handler[s].ref
           row == Guessed(codes[i], handler[s].n)
<1>1. i \in 1..Len(codes) /\ handler[s].n \in Nat
  BY DEF WrongCode, At, Base, HandlersOK, RequestOK, Request
<1>2. codes[i] \in CodeRow
  BY <1>1 DEF Base, CountsOK
<1>3. row \in CodeRow /\ row.kind = codes[i].kind
  BY <1>1, <1>2, GuessedRow
<1>4. codes' = [codes EXCEPT ![i] = row]
  BY DEF WrongCode, Guessed
<1> HIDE DEF row
<1>5. /\ CodesGrow /\ Len(codes') = Len(codes)
      /\ \A j \in 1..Len(codes) : codes'[j] = IF j = i THEN row ELSE codes[j]
  BY <1>1, <1>3, <1>4, RowWritten
<1> QED
  BY <1>5 DEF row

(* The row a right guess of a reset code leaves.                           *)
Verified(row) == [row EXCEPT !.verified = TRUE, !.attempts = 0, !.locked = FALSE]

LEMMA VerifiedWrites ==
  ASSUME Base, NEW s \in Session, RightResetCode(s)
  PROVE  /\ CodesGrow
         /\ Len(codes') = Len(codes)
         /\ \A j \in 1..Len(codes) :
              codes'[j] = IF j = handler[s].ref THEN Verified(codes[j]) ELSE codes[j]
<1> DEFINE i == handler[s].ref
           row == Verified(codes[i])
<1>1. i \in 1..Len(codes)
  BY DEF RightResetCode, At, Base, HandlersOK, RequestOK
<1>2. codes \in Seq(CodeRow) /\ codes[i] \in CodeRow
  BY <1>1 DEF Base, CountsOK
<1>3. row \in CodeRow /\ row.kind = codes[i].kind
  BY <1>2 DEF CodeRow, Verified
<1>4. codes' = [codes EXCEPT ![i] = row]
  BY <1>1, <1>2 DEF RightResetCode, Verified
<1> HIDE DEF row
<1>5. /\ CodesGrow /\ Len(codes') = Len(codes)
      /\ \A j \in 1..Len(codes) : codes'[j] = IF j = i THEN row ELSE codes[j]
  BY <1>1, <1>3, <1>4, RowWritten
<1> QED
  BY <1>5 DEF row

(* A code that has done what it is for.                                    *)
LEMMA SpentWrites ==
  ASSUME Base, NEW s \in Session, RightEmailCode(s) \/ CommitReset(s)
  PROVE  /\ CodesGrow
         /\ Len(codes') = Len(codes)
         /\ \A j \in 1..Len(codes) :
              codes'[j] = IF j = handler[s].ref THEN [codes[j] EXCEPT !.status = "spent"]
                                                ELSE codes[j]
<1> DEFINE i == handler[s].ref
           row == [codes[i] EXCEPT !.status = "spent"]
<1>1. i \in 1..Len(codes)
  BY DEF RightEmailCode, CommitReset, At, Base, HandlersOK, RequestOK
<1>2. codes \in Seq(CodeRow) /\ codes[i] \in CodeRow
  BY <1>1 DEF Base, CountsOK
<1>3. row \in CodeRow /\ row.kind = codes[i].kind
  BY <1>2 DEF CodeRow
<1>4. codes' = [codes EXCEPT ![i] = row]
  BY <1>1, <1>2 DEF RightEmailCode, CommitReset
<1> HIDE DEF row
<1>5. /\ CodesGrow /\ Len(codes') = Len(codes)
      /\ \A j \in 1..Len(codes) : codes'[j] = IF j = i THEN row ELSE codes[j]
  BY <1>1, <1>3, <1>4, RowWritten
<1> QED
  BY <1>5 DEF row

-----------------------------------------------------------------------------
(* The steps *)

(* A request that starts or goes on and has only read.                     *)
Reads(s) ==
  \/ Calls(s, "login") /\ \E p \in Passwords \ {"none"} : Login(s, p)
  \/ Calls(s, "refresh") /\ \E t \in DOMAIN tokens : Refresh(s, t)
  \/ Calls(s, "logout") /\ \E t \in DOMAIN tokens : Logout(s, t)
  \/ \E subject \in Subject : GoogleSignIn(s, subject)
  \/ ByEmail(s)
  \/ Calls(s, "request_reset") /\ RequestReset(s)
  \/ Calls(s, "send") /\ SendEmailCode(s)
  \/ ResetPassword(s)
  \/ Calls(s, "verify") /\ \E right \in BOOLEAN : Guess(s, "reset", right)
  \/ Calls(s, "confirm") /\ \E right \in BOOLEAN : Guess(s, "email", right)
  \/ \E kind \in Kinds : ReplaceCodes(s, kind)

WritesAccount(s) ==
  /\ Register(s) \/ CountFailure(s) \/ Welcome(s) \/ CreateFromGoogle(s) \/ ReinstateUser(s)
  /\ UNCHANGED <<tokens, codes>>

WritesTokens(s) ==
  /\ \/ Issue(s) \/ Retire(s) \/ EndFamily(s) \/ Link(s)
     \/ Calls(s, "suspend") /\ SuspendUser(s)
  /\ UNCHANGED codes

WritesCodes(s) ==
  /\ \/ \E kind \in Kinds : InsertCode(s, kind)
     \/ WrongCode(s) \/ RightResetCode(s) \/ RightEmailCode(s)
  /\ UNCHANGED tokens

Tables == <<account, links, tokens, strikes, codes>>

Passes ==
  \/ LockPasses /\ UNCHANGED codes
  \/ \E i \in DOMAIN codes : CooldownPasses(i)

LEMMA ReadsOnly ==
  ASSUME NEW s \in Session, Reads(s)
  PROVE  UNCHANGED <<account, links, tokens, strikes>>
BY DEF Reads, Login, Refresh, Logout, GoogleSignIn, ByEmail, RequestReset, SendEmailCode,
       ResetPassword, Guess, ReplaceCodes, CodesOnly

(* Every step is a request's read, one of its writes, time that passes, a  *)
(* restart or nothing.                                                     *)
LEMMA StepKinds ==
  ASSUME [Next]_vars
  PROVE  \/ \E s \in Session : Reads(s) /\ UNCHANGED Tables
         \/ \E s \in Session : WritesAccount(s) \/ WritesTokens(s) \/ WritesCodes(s)
                              \/ CommitReset(s)
         \/ Passes
         \/ Restart
         \/ UNCHANGED <<Tables, handler>>
<1>1. ASSUME NEW s \in Session, Account(s), UNCHANGED codes
      PROVE  (Reads(s) /\ UNCHANGED Tables) \/ WritesAccount(s) \/ WritesTokens(s)
  <2>1. CASE Register(s) \/ ReinstateUser(s)
    BY <1>1, <2>1 DEF WritesAccount, Register, ReinstateUser
  <2>2. CASE Calls(s, "suspend") /\ SuspendUser(s)
    BY <1>1, <2>2 DEF WritesTokens
  <2>3. CASE ~(Register(s) \/ ReinstateUser(s) \/ (Calls(s, "suspend") /\ SuspendUser(s)))
    <3>1. Reads(s)
      BY <1>1, <2>3 DEF Account, Reads
    <3> QED
      BY <1>1, <3>1, ReadsOnly DEF Tables
  <2> QED
    BY <2>1, <2>2, <2>3
<1>2. ASSUME NEW s \in Session, Code(s)
      PROVE  Reads(s) /\ UNCHANGED Tables
  <2>1. Reads(s)
    BY <1>2 DEF Code, Reads, Kinds
  <2>2. UNCHANGED codes
    BY <1>2 DEF Code, RequestReset, Guess, ResetPassword, SendEmailCode
  <2> QED
    BY <2>1, <2>2, ReadsOnly DEF Tables
<1>3. ASSUME NEW s \in Session, SignInStep(s), UNCHANGED codes
      PROVE  (Reads(s) /\ UNCHANGED Tables) \/ WritesAccount(s) \/ WritesTokens(s)
  <2>1. CASE ByEmail(s)
    BY <1>3, <2>1, ReadsOnly DEF Reads, Tables
  <2>2. CASE ~ByEmail(s)
    BY <1>3, <2>2 DEF SignInStep, WritesAccount, WritesTokens, CountFailure, Welcome,
                      CreateFromGoogle
  <2> QED
    BY <2>1, <2>2
<1>4. ASSUME NEW s \in Session, CodeStep(s)
      PROVE  (Reads(s) /\ UNCHANGED Tables) \/ WritesCodes(s) \/ CommitReset(s)
  <2>1. ASSUME NEW kind \in Kinds, ReplaceCodes(s, kind)
        PROVE  Reads(s) /\ UNCHANGED Tables
    BY <2>1 DEF Reads, Tables, ReplaceCodes, CodesOnly
  <2>2. ASSUME NEW kind \in Kinds, InsertCode(s, kind)
        PROVE  WritesCodes(s)
    BY <2>2 DEF WritesCodes, InsertCode, CodesOnly
  <2>3. CASE WrongCode(s) \/ RightResetCode(s) \/ RightEmailCode(s)
    BY <2>3 DEF WritesCodes, WrongCode, RightResetCode, RightEmailCode, CodesOnly
  <2> QED
    BY <1>4, <2>1, <2>2, <2>3 DEF CodeStep
<1>5. CASE UNCHANGED vars
  BY <1>5 DEF vars, sessionVars, Tables
<1> QED
  BY <1>1, <1>2, <1>3, <1>4, <1>5 DEF Next, Passes

LEMMA GrowsStep ==
  ASSUME AccountsAssumption, Base, [Next]_vars
  PROVE  Grows
<1>1. UNCHANGED tokens => TokensGrow
  BY DEF Base, TokensOK, TokensGrow
<1>2. UNCHANGED codes => CodesGrow
  BY DEF Base, CountsOK, CodesGrow
<1>3. ASSUME NEW s \in Session, WritesAccount(s)
      PROVE  Grows
  <2>1. account.exists => account'.exists
    BY <1>3 DEF WritesAccount, Register, CountFailure, Welcome, CreateFromGoogle,
                ReinstateUser, CleanCount, Base, AccountOK, AccountRow
  <2> QED
    BY <1>1, <1>2, <1>3, <2>1 DEF WritesAccount, Grows
<1>4. ASSUME NEW s \in Session, WritesTokens(s)
      PROVE  Grows
  <2>1. account.exists => account'.exists
    BY <1>4 DEF WritesTokens, Issue, Retire, EndFamily, Link, SuspendUser, Base, AccountOK,
                AccountRow
  <2>2. TokensGrow
    <3>1. CASE Issue(s)
      BY <3>1, IssueGrows
    <3>2. CASE Retire(s)
      BY <3>2, RetireGrows
    <3>3. CASE EndFamily(s)
      BY <3>3, RevokeGrows DEF EndFamily, RevokeFamily, Base
    <3>4. CASE Link(s)
      BY <3>4, <1>1, RevokeGrows DEF Link, RevokeAll, Base
    <3>5. CASE SuspendUser(s)
      BY <3>5, RevokeGrows DEF SuspendUser, RevokeAll, Base
    <3> QED
      BY <1>4, <3>1, <3>2, <3>3, <3>4, <3>5 DEF WritesTokens
  <2> QED
    BY <1>2, <1>4, <2>1, <2>2 DEF WritesTokens, Grows
<1>5. ASSUME NEW s \in Session, WritesCodes(s)
      PROVE  Grows
  <2>1. account.exists => account'.exists
    BY <1>5 DEF WritesCodes, InsertCode, WrongCode, RightResetCode, RightEmailCode,
                CodesOnly, Base, AccountOK, AccountRow
  <2>2. CodesGrow
    BY <1>5, InsertWrites, WrongWrites, VerifiedWrites, SpentWrites DEF WritesCodes
  <2> QED
    BY <1>1, <1>5, <2>1, <2>2 DEF WritesCodes, Grows
<1>6. ASSUME NEW s \in Session, CommitReset(s)
      PROVE  Grows
  <2>1. account.exists => account'.exists
    BY <1>6 DEF CommitReset, CleanCount, Base, AccountOK, AccountRow
  <2>2. TokensGrow
    BY <1>6, RevokeGrows DEF CommitReset, RevokeAll, Base
  <2> QED
    BY <1>6, <2>1, <2>2, SpentWrites DEF Grows
<1>7. CASE Passes
  <2>1. account.exists => account'.exists
    BY <1>7 DEF Passes, LockPasses, CooldownPasses, CodesOnly, Base, AccountOK, AccountRow
  <2>2. UNCHANGED tokens
    BY <1>7 DEF Passes, LockPasses, CooldownPasses, CodesOnly
  <2>3. CodesGrow
    BY <1>2, <1>7, CooldownWrites DEF Passes
  <2> QED
    BY <1>1, <2>1, <2>2, <2>3 DEF Grows
<1>8. CASE UNCHANGED Tables
  BY <1>1, <1>2, <1>8 DEF Tables, Grows
<1>9. CASE Restart
  BY <1>8, <1>9 DEF Restart, Tables
<1> QED
  BY <1>3, <1>4, <1>5, <1>6, <1>7, <1>8, <1>9, StepKinds

-----------------------------------------------------------------------------
(* Type correctness *)

(* The session that takes the step is where it should be, and no other     *)
(* session has moved.                                                      *)
LEMMA Moved ==
  ASSUME Base, Grows, NEW s \in Session,
         \E h : RequestOK(h)' /\ handler' = [handler EXCEPT ![s] = h]
  PROVE  HandlersOK'
<1>1. PICK h : RequestOK(h)' /\ handler' = [handler EXCEPT ![s] = h]
  OBVIOUS
<1>2. handler \in [Session -> Request] /\ h \in Request
  BY <1>1 DEF Base, HandlersOK, RequestOK
<1>3. handler' \in [Session -> Request]
  BY <1>1, <1>2
<1>4. \A r \in Session \ {s} : RequestOK(handler[r])'
  BY <1>1, <1>2, RequestKept DEF Base, HandlersOK
<1>5. RequestOK(handler[s])'
  <2>1. handler'[s] = h
    BY <1>1, <1>2
  <2> QED
    BY <1>1, <2>1
<1> QED
  BY <1>3, <1>4, <1>5 DEF HandlersOK

LEMMA IdleOK == RequestOK(Idle)
BY DEF RequestOK, Request, Steps, Idle, WithoutAccount

(* What a read finds is what the request then relies on.                   *)
LEMMA ReadsMove ==
  ASSUME AccountsAssumption, Base, NEW s \in Session, Reads(s)
  PROVE  \E h : RequestOK(h) /\ handler' = [handler EXCEPT ![s] = h]
<1> DEFINE Moves == \E h : RequestOK(h) /\ handler' = [handler EXCEPT ![s] = h]
<1> USE DEF Goes, Done
<1>0. /\ account \in AccountRow
      /\ DOMAIN tokens = 1..Len(tokens) /\ Len(tokens) \in Nat
      /\ DOMAIN codes = 1..Len(codes) /\ Len(codes) \in Nat
  BY DEF Base, AccountOK, TokensOK, CountsOK
<1>1. ASSUME NEW p \in Passwords, Login(s, p) PROVE Moves
  <2>1. account.exists /\ account.failed \in Nat
    BY <1>0, <1>1 DEF Login, AccountRow
  <2>2. /\ RequestOK([at |-> "count", ref |-> 0, n |-> account.failed])
        /\ RequestOK([at |-> "welcome", ref |-> 0, n |-> 0])
    BY <2>1 DEF RequestOK, Request, Steps
  <2> QED
    BY <1>1, <2>2 DEF Login
<1>2. ASSUME NEW t \in DOMAIN tokens, Refresh(s, t) \/ Logout(s, t) PROVE Moves
  <2>1. RequestOK([at |-> "end_family", ref |-> t, n |-> 0])
    BY <1>0 DEF RequestOK, Request, Steps, WithoutAccount
  <2>2. Usable => RequestOK([at |-> "issue", ref |-> t, n |-> 0])
    BY <1>0 DEF RequestOK, Request, Steps, Usable
  <2> QED
    BY <1>2, <2>1, <2>2 DEF Refresh, Logout
<1>3. ASSUME NEW subject \in Subject, GoogleSignIn(s, subject) PROVE Moves
  <2>1. Usable => RequestOK([at |-> "welcome", ref |-> 0, n |-> 0])
    BY DEF RequestOK, Request, Steps, Usable
  <2>2. RequestOK([at |-> "by_email", ref |-> subject, n |-> 0])
    BY DEF RequestOK, Request, Steps, WithoutAccount, AccountsAssumption
  <2> QED
    BY <1>3, <2>1, <2>2 DEF GoogleSignIn
<1>4. CASE ByEmail(s)
  <2>1. handler[s] \in Request /\ handler[s].ref \in Subject /\ handler[s].ref \in Nat
    BY <1>4 DEF ByEmail, At, Base, HandlersOK, RequestOK, Request
  <2>2. account.exists => RequestOK([at |-> "link", ref |-> handler[s].ref, n |-> 0])
    BY <2>1 DEF RequestOK, Request, Steps
  <2>3. RequestOK([at |-> "create", ref |-> handler[s].ref, n |-> 0])
    BY <2>1 DEF RequestOK, Request, Steps, WithoutAccount
  <2> QED
    BY <1>4, <2>2, <2>3, IdleOK DEF ByEmail
<1>5. CASE RequestReset(s) \/ SendEmailCode(s)
  <2>1. account.exists =>
          /\ RequestOK([at |-> "replace_reset", ref |-> 0, n |-> 0])
          /\ RequestOK([at |-> "replace_email", ref |-> 0, n |-> 0])
    BY DEF RequestOK, Request, Steps
  <2> QED
    BY <1>5, <2>1 DEF RequestReset, SendEmailCode, Usable
<1>6. codes # <<>> => account.exists
  BY DEF Base, AccountOK
<1>7. CASE ResetPassword(s)
  <2>1. PICK i \in DOMAIN codes : MayReset(i) /\ Goes(s, "reset", i, 0)
    BY <1>7 DEF ResetPassword
  <2>2. account.exists
    BY <1>0, <1>6, <2>1
  <2>3. RequestOK([at |-> "reset", ref |-> i, n |-> 0])
    BY <1>0, <2>1, <2>2 DEF RequestOK, Request, Steps, MayReset
  <2> QED
    BY <2>1, <2>3
<1>8. ASSUME NEW kind, NEW right \in BOOLEAN, Guess(s, kind, right) PROVE Moves
  <2>1. PICK i \in DOMAIN codes :
               Goes(s, IF right THEN "right" ELSE "wrong", i, codes[i].attempts)
    BY <1>8 DEF Guess
  <2>2. account.exists /\ codes[i].attempts \in Nat
    <3>1. codes \in Seq(CodeRow) /\ codes[i] \in CodeRow
      BY <1>0, <2>1 DEF Base, CountsOK
    <3> QED
      BY <1>0, <1>6, <2>1, <3>1 DEF CodeRow
  <2>3. /\ RequestOK([at |-> "right", ref |-> i, n |-> codes[i].attempts])
        /\ RequestOK([at |-> "wrong", ref |-> i, n |-> codes[i].attempts])
    BY <1>0, <2>1, <2>2 DEF RequestOK, Request, Steps
  <2> QED
    BY <2>1, <2>3
<1>9. ASSUME NEW kind \in Kinds, ReplaceCodes(s, kind) PROVE Moves
  <2>1. account.exists
    BY <1>9 DEF ReplaceCodes, At, Base, HandlersOK, RequestOK, WithoutAccount
  <2>2. /\ RequestOK([at |-> "insert_reset", ref |-> 0, n |-> Len(codes)])
        /\ RequestOK([at |-> "insert_email", ref |-> 0, n |-> Len(codes)])
    BY <1>0, <2>1 DEF RequestOK, Request, Steps
  <2> QED
    BY <1>9, <2>2, IdleOK DEF ReplaceCodes
<1> QED
  BY <1>1, <1>2, <1>3, <1>4, <1>5, <1>7, <1>8, <1>9 DEF Reads

LEMMA HandlersStep ==
  ASSUME AccountsAssumption, Base, [Next]_vars
  PROVE  HandlersOK'
<1> USE DEF Goes, Done
<1>1. Grows
  BY GrowsStep
<1>2. ASSUME NEW s \in Session, \E h : RequestOK(h) /\ handler' = [handler EXCEPT ![s] = h]
      PROVE  HandlersOK'
  BY <1>1, <1>2, RequestKept, Moved
<1>3. ASSUME UNCHANGED handler PROVE HandlersOK'
  BY <1>1, <1>3, RequestKept DEF Base, HandlersOK
<1>4. ASSUME NEW s \in Session, Reads(s) PROVE HandlersOK'
  BY <1>2, <1>4, ReadsMove
<1>5. ASSUME NEW s \in Session, WritesAccount(s) PROVE HandlersOK'
  <2>1. CASE Register(s) \/ CreateFromGoogle(s)
    <3>1. account'.exists \/ handler' = [handler EXCEPT ![s] = Idle]
      BY <2>1 DEF Register, CreateFromGoogle, NoAccount
    <3>2. ASSUME account'.exists, NEW h \in {[at |-> "issue", ref |-> 0, n |-> 0],
                                             [at |-> "welcome", ref |-> 0, n |-> 0]}
          PROVE  RequestOK(h)'
      <4>1. Len(tokens') \in Nat
        BY <1>1 DEF Grows, TokensGrow, TokensOK
      <4> QED
        BY <3>2, <4>1 DEF RequestOK, Request, Steps
    <3> QED
      BY <1>1, <1>2, <2>1, <3>1, <3>2, IdleOK, Moved DEF Register, CreateFromGoogle
  <2>2. CASE CountFailure(s)
    BY <1>2, <2>2, IdleOK DEF CountFailure
  <2>3. CASE Welcome(s)
    <3>1. account.exists
      BY <2>3 DEF Welcome, At, Base, HandlersOK, RequestOK, WithoutAccount
    <3>2. RequestOK([at |-> "issue", ref |-> 0, n |-> 0])
      BY <3>1 DEF RequestOK, Request, Steps, Base, TokensOK
    <3> QED
      BY <1>2, <2>3, <3>2 DEF Welcome
  <2>4. CASE ReinstateUser(s)
    BY <1>3, <2>4 DEF ReinstateUser
  <2> QED
    BY <1>5, <2>1, <2>2, <2>3, <2>4 DEF WritesAccount
<1>6. ASSUME NEW s \in Session, WritesTokens(s) PROVE HandlersOK'
  <2>1. CASE Issue(s)
    <3> DEFINE old == handler[s].ref
               new == Len(tokens) + 1
    <3>1. old \in 0..Len(tokens) /\ Len(tokens) \in Nat /\ account.exists
      BY <2>1 DEF Issue, At, Base, TokensOK, HandlersOK, RequestOK, WithoutAccount
    <3>2. CASE old = 0
      BY <1>2, <2>1, <3>2, IdleOK DEF Issue
    <3>3. CASE old # 0
      <4>1. handler' = [handler EXCEPT ![s] = [at |-> "retire", ref |-> old, n |-> new]]
        BY <2>1, <3>3 DEF Issue
      <4>2. /\ Len(tokens') = new
            /\ tokens'[old].family = tokens[old].family
            /\ tokens'[new].family = tokens[old].family
        <5>1. /\ Len(tokens') = new /\ tokens'[old] = tokens[old]
              /\ tokens'[new] = [family |-> tokens[old].family, revoked |-> FALSE, next |-> 0]
          BY <2>1, <3>1, <3>3, IssueGrows
        <5> QED
          BY <5>1
      <4>3. \A h : h = [at |-> "retire", ref |-> old, n |-> new] => RequestOK(h)'
        <5> TAKE h
        <5> HAVE h = [at |-> "retire", ref |-> old, n |-> new]
        <5>1. h.at = "retire" /\ h.ref = old /\ h.n = new
          OBVIOUS
        <5>2. h \in Request
          BY <3>1 DEF Request, Steps
        <5>3. account'.exists
          BY <1>1, <3>1 DEF Grows
        <5> QED
          BY <3>1, <3>3, <4>2, <5>1, <5>2, <5>3 DEF RequestOK
      <4> QED
        BY <1>1, <4>1, <4>3, Moved
    <3> QED
      BY <3>2, <3>3
  <2>2. CASE Retire(s) \/ EndFamily(s)
    BY <1>2, <2>2, IdleOK DEF Retire, EndFamily
  <2>3. CASE Link(s)
    <3>1. account.exists
      BY <2>3 DEF Link, At, Base, HandlersOK, RequestOK, WithoutAccount
    <3>2. RequestOK([at |-> "welcome", ref |-> 0, n |-> 0])
      BY <3>1 DEF RequestOK, Request, Steps
    <3> QED
      BY <1>2, <2>3, <3>2, IdleOK DEF Link
  <2>4. CASE SuspendUser(s)
    BY <1>3, <2>4 DEF SuspendUser
  <2> QED
    BY <1>6, <2>1, <2>2, <2>3, <2>4 DEF WritesTokens
<1>7. ASSUME NEW s \in Session, WritesCodes(s) \/ CommitReset(s) PROVE HandlersOK'
  BY <1>2, <1>7, IdleOK DEF WritesCodes, InsertCode, WrongCode, RightResetCode, RightEmailCode,
                            CommitReset
<1>8. CASE Passes
  BY <1>3, <1>8 DEF Passes, LockPasses, CooldownPasses
<1>9. CASE Restart
  <2>1. handler' = [s \in Session |-> Idle]
    BY <1>9 DEF Restart
  <2>2. RequestOK(Idle)'
    BY IdleOK, RequestKept, <1>1
  <2>3. Idle \in Request
    BY IdleOK DEF RequestOK
  <2> QED
    BY <2>1, <2>2, <2>3 DEF HandlersOK
<1>10. CASE UNCHANGED handler
  BY <1>3, <1>10
<1> QED
  BY <1>4, <1>5, <1>6, <1>7, <1>8, <1>9, <1>10, StepKinds

LEMMA AccountStep ==
  ASSUME AccountsAssumption, Base, [Next]_vars
  PROVE  AccountOK'
<1>0. account \in AccountRow /\ strikes \in Nat
  BY DEF Base, AccountOK, CountsOK
<1>1. ASSUME UNCHANGED <<account, links, strikes, codes>> PROVE AccountOK'
  BY <1>1 DEF Base, AccountOK
<1>2. ASSUME account'.exists, account' \in AccountRow PROVE AccountOK'
  BY <1>2 DEF AccountOK
<1>3. ASSUME NEW s \in Session, WritesAccount(s) PROVE AccountOK'
  <2>1. CASE Register(s)
    BY <1>2, <2>1 DEF Register, NoAccount, AccountRow, Passwords
  <2>2. CASE CountFailure(s)
    <3>1. account.exists /\ handler[s].n + 1 \in Nat
      BY <2>2 DEF CountFailure, At, Base, HandlersOK, RequestOK, Request, WithoutAccount
    <3> QED
      BY <1>0, <1>2, <2>2, <3>1 DEF CountFailure, AccountRow
  <2>3. CASE Welcome(s)
    <3>1. account.exists
      BY <2>3 DEF Welcome, At, Base, HandlersOK, RequestOK, WithoutAccount
    <3> QED
      BY <1>0, <1>2, <2>3, <3>1 DEF Welcome, CleanCount, AccountRow
  <2>4. CASE CreateFromGoogle(s)
    <3>1. CASE account.exists
      BY <1>1, <1>3, <2>4, <3>1 DEF WritesAccount, CreateFromGoogle
    <3>2. CASE ~account.exists
      <4> DEFINE new == [NoAccount EXCEPT !.exists = TRUE, !.verified = TRUE]
      <4>1. new \in AccountRow
        BY DEF NoAccount, AccountRow, Passwords
      <4>2. new.exists
        BY DEF NoAccount
      <4>3. account' = new
        BY <2>4, <3>2 DEF CreateFromGoogle
      <4> QED
        BY <1>2, <4>1, <4>2, <4>3
    <3> QED
      BY <3>1, <3>2
  <2>5. CASE ReinstateUser(s)
    BY <1>0, <1>2, <2>5 DEF ReinstateUser, CleanCount, AccountRow
  <2> QED
    BY <1>3, <2>1, <2>2, <2>3, <2>4, <2>5 DEF WritesAccount
<1>4. ASSUME NEW s \in Session, WritesTokens(s) PROVE AccountOK'
  <2>1. CASE Issue(s) \/ Retire(s) \/ EndFamily(s)
    BY <1>1, <1>4, <2>1 DEF WritesTokens, Issue, Retire, EndFamily
  <2>2. CASE Link(s)
    <3>1. account.exists
      BY <2>2 DEF Link, At, Base, HandlersOK, RequestOK, WithoutAccount
    <3> QED
      BY <1>0, <1>2, <2>2, <3>1 DEF Link, AccountRow
  <2>3. CASE SuspendUser(s)
    BY <1>0, <1>2, <2>3 DEF SuspendUser, AccountRow
  <2> QED
    BY <1>4, <2>1, <2>2, <2>3 DEF WritesTokens
<1>5. ASSUME NEW s \in Session, WritesCodes(s) \/ CommitReset(s) PROVE AccountOK'
  <2>1. account.exists
    BY <1>5 DEF WritesCodes, InsertCode, WrongCode, RightResetCode, RightEmailCode, CommitReset,
                At, Base, HandlersOK, RequestOK, WithoutAccount
  <2>2. CASE UNCHANGED account
    BY <1>0, <1>2, <2>1, <2>2
  <2>3. CASE RightEmailCode(s)
    BY <1>0, <1>2, <2>1, <2>3 DEF RightEmailCode, AccountRow
  <2>4. CASE CommitReset(s)
    BY <1>0, <1>2, <2>1, <2>4 DEF CommitReset, CleanCount, AccountRow, Passwords
  <2> QED
    BY <1>5, <2>2, <2>3, <2>4 DEF WritesCodes, InsertCode, WrongCode, RightResetCode, CodesOnly
<1>6. CASE Passes
  <2>1. CASE LockPasses
    <3>1. account.exists
      BY <2>1 DEF LockPasses, NoAccount, Base, AccountOK
    <3> QED
      BY <1>0, <1>2, <2>1, <3>1 DEF LockPasses, AccountRow
  <2>2. ASSUME NEW i \in DOMAIN codes, CooldownPasses(i) PROVE AccountOK'
    <3>1. account.exists
      BY <2>2 DEF Base, AccountOK, CountsOK
    <3> QED
      BY <1>0, <1>2, <2>2, <3>1 DEF CooldownPasses, CodesOnly
  <2> QED
    BY <1>6, <2>1, <2>2 DEF Passes
<1>7. CASE Restart
  BY <1>1, <1>7 DEF Restart
<1>8. CASE UNCHANGED Tables
  BY <1>1, <1>8 DEF Tables
<1> QED
  BY <1>3, <1>4, <1>5, <1>6, <1>7, <1>8, StepKinds

LEMMA CountsStep ==
  ASSUME AccountsAssumption, Base, [Next]_vars
  PROVE  CountsOK'
<1>1. codes' \in Seq(CodeRow)
  BY GrowsStep DEF Grows, CodesGrow
<1>2. UNCHANGED scenario
  BY DEF Next, Restart, vars
<1>3. restarts' \in 0..scenario.restarts
  <2>1. CASE Restart
    <3>1. scenario.restarts \in Nat
      BY DEF Base, CountsOK, ScenarioType
    <3> QED
      BY <2>1, <3>1 DEF Restart, Base, CountsOK
  <2>2. CASE ~Restart
    BY <2>2 DEF Next, vars, Base, CountsOK
  <2> QED
    BY <2>1, <2>2
<1>4. links' \subseteq Subject /\ strikes' \in Nat
  <2>1. ASSUME UNCHANGED links, strikes' \in {strikes, strikes + 1, 0}
        PROVE  links' \subseteq Subject /\ strikes' \in Nat
    BY <2>1 DEF Base, CountsOK
  <2>2. ASSUME NEW s \in Session, WritesAccount(s)
        PROVE  links' \subseteq Subject /\ strikes' \in Nat
    <3>1. CASE CreateFromGoogle(s)
      <4>1. handler[s].ref \in Subject
        BY <3>1 DEF CreateFromGoogle, At, Base, HandlersOK, RequestOK
      <4> QED
        BY <3>1, <4>1 DEF CreateFromGoogle, Base, CountsOK
    <3> QED
      BY <2>1, <2>2, <3>1 DEF WritesAccount, Register, CountFailure, Welcome, ReinstateUser
  <2>3. ASSUME NEW s \in Session, WritesTokens(s)
        PROVE  links' \subseteq Subject /\ strikes' \in Nat
    <3>1. CASE Link(s)
      <4>1. handler[s].ref \in Subject
        BY <3>1 DEF Link, At, Base, HandlersOK, RequestOK
      <4> QED
        BY <3>1, <4>1 DEF Link, Base, CountsOK
    <3> QED
      BY <2>1, <2>3, <3>1 DEF WritesTokens, Issue, Retire, EndFamily, SuspendUser
  <2>4. ASSUME NEW s \in Session, WritesCodes(s) \/ CommitReset(s)
        PROVE  links' \subseteq Subject /\ strikes' \in Nat
    BY <2>1, <2>4 DEF WritesCodes, InsertCode, WrongCode, RightResetCode, RightEmailCode,
                      CommitReset, CodesOnly
  <2>5. CASE Passes
    BY <2>1, <2>5 DEF Passes, LockPasses, CooldownPasses, CodesOnly
  <2>6. CASE Restart \/ UNCHANGED Tables
    BY <2>1, <2>6 DEF Restart, Tables
  <2> QED
    BY <2>2, <2>3, <2>4, <2>5, <2>6, StepKinds
<1> QED
  BY <1>1, <1>2, <1>3, <1>4 DEF Base, CountsOK

LEMMA BaseInit ==
  ASSUME AccountsAssumption, Init
  PROVE  Base
<1>1. scenario \in ScenarioType
  BY DEF Init, AccountsAssumption
<1>2. AccountOK
  <2>1. NoAccount \in AccountRow
    BY DEF NoAccount, AccountRow, Passwords
  <2>2. /\ [NoAccount EXCEPT !.exists = TRUE, !.password = "old"] \in AccountRow
        /\ [NoAccount EXCEPT !.exists = TRUE, !.password = "old"].exists
    BY DEF NoAccount, AccountRow, Passwords
  <2> QED
    BY <2>1, <2>2 DEF Init, AccountOK
<1>3. TokensOK
  <2>1. CASE tokens = <<>>
    BY <2>1 DEF TokensOK
  <2>2. CASE tokens = <<[family |-> 1, revoked |-> FALSE, next |-> 0]>>
    <3>1. [family |-> 1, revoked |-> FALSE, next |-> 0] \in Token
      BY DEF Token
    <3>2. tokens \in Seq(Token) /\ Len(tokens) = 1
      BY <2>2, <3>1
    <3> QED
      BY <2>2, <3>2 DEF TokensOK
  <2> QED
    BY <2>1, <2>2 DEF Init
<1>4. HandlersOK
  BY IdleOK DEF Init, HandlersOK, RequestOK
<1>5. CountsOK
  <2>1. scenario.restarts \in Nat
    BY <1>1 DEF ScenarioType
  <2> QED
    BY <1>1, <2>1 DEF Init, CountsOK
<1> QED
  BY <1>2, <1>3, <1>4, <1>5 DEF Base

LEMMA BaseStep ==
  ASSUME AccountsAssumption, Base, [Next]_vars
  PROVE  Base'
BY GrowsStep, AccountStep, HandlersStep, CountsStep DEF Grows, TokensGrow, Base

LEMMA BaseAlways == Spec => []Base
<1>1. Init => Base
  BY BaseInit, AccountsAssumption
<1>2. Base /\ [Next]_vars => Base'
  BY BaseStep, AccountsAssumption
<1> QED
  BY <1>1, <1>2, PTL DEF Spec

(* Whatever requests overlap and wherever the process stops, every row and *)
(* every request under way is well formed: a replaced token points at a    *)
(* later one of its family.                                                *)
THEOREM AccountsTypeCorrect == Spec => []AccountsTypeOK
<1>1. Base => AccountsTypeOK
  <2> SUFFICES ASSUME Base PROVE AccountsTypeOK
    OBVIOUS
  <2>1. tokens \in Seq(Token) /\ codes \in Seq(CodeRow)
    BY DEF Base, TokensOK, CountsOK
  <2>2. ASSUME NEW t \in DOMAIN tokens
        PROVE  /\ tokens[t] \in [family : 1..t, revoked : BOOLEAN,
                                  next : {0} \cup ((t + 1)..Len(tokens))]
               /\ tokens[t].next # 0 => tokens[tokens[t].next].family = tokens[t].family
    <3>1. tokens[t] \in Token /\ t \in 1..Len(tokens)
      BY <2>1
    <3>2. /\ tokens[t].family \in 1..t
          /\ tokens[t].next \in {0} \cup ((t + 1)..Len(tokens))
          /\ tokens[t].next # 0 => tokens[tokens[t].next].family = tokens[t].family
      BY <3>1 DEF Base, TokensOK
    <3> HIDE DEF Base
    <3> QED
      BY <3>1, <3>2 DEF Token
  <2>3. \A i \in DOMAIN codes : codes[i] \in CodeRow
    BY <2>1
  <2> QED
    BY <2>2, <2>3 DEF Base, AccountOK, HandlersOK, CountsOK, AccountRow, Request, CodeRow,
                      Refs, AccountsTypeOK
<1> QED
  BY <1>1, BaseAlways, PTL

-----------------------------------------------------------------------------
(* An address is marked verified exactly when it was proved *)

Proves(row) == row.kind = "email" /\ row.status = "spent"

Proved == \E i \in 1..Len(codes) : Proves(codes[i])

(* A step that spends no e-mail code proves nothing and forgets nothing.   *)
LEMMA ProvedKept ==
  ASSUME Base, CodesGrow,
         \A i \in 1..Len(codes) : Proves(codes'[i]) <=> Proves(codes[i]),
         \A i \in (Len(codes) + 1)..Len(codes') : ~Proves(codes'[i])
  PROVE  Proved' <=> Proved
<1>1. Len(codes) \in Nat /\ Len(codes') \in Nat /\ Len(codes) <= Len(codes')
  BY DEF Base, CountsOK, CodesGrow
<1>2. \A i \in 1..Len(codes') : i \in 1..Len(codes) \/ i \in (Len(codes) + 1)..Len(codes')
  BY <1>1
<1> QED
  BY <1>1, <1>2 DEF Proved

LEMMA ProvedByCodes ==
  ASSUME AccountsAssumption, Base,
         \/ \E s \in Session : \/ \E kind \in Kinds : InsertCode(s, kind)
                               \/ WrongCode(s) \/ RightResetCode(s) \/ CommitReset(s)
         \/ \E i \in DOMAIN codes : CooldownPasses(i)
  PROVE  Proved' <=> Proved
<1>1. codes \in Seq(CodeRow) /\ Len(codes) \in Nat
      /\ \A i \in 1..Len(codes) : codes[i] \in CodeRow
  BY DEF Base, CountsOK
<1>2. ASSUME NEW s \in Session, NEW kind \in Kinds, InsertCode(s, kind)
      PROVE  Proved' <=> Proved
  <2>1. \A i \in 1..Len(codes) : Proves(codes'[i]) <=> Proves(codes[i])
    BY <1>1, <1>2, InsertWrites DEF CodeRow, Proves, Open
  <2>2. \A i \in (Len(codes) + 1)..Len(codes') : ~Proves(codes'[i])
    <3>1. ~Proves(NewCode(kind))
      BY DEF NewCode, Proves
    <3>2. Len(codes') = Len(codes) + 1 /\ codes'[Len(codes) + 1] = NewCode(kind)
      BY <1>2, InsertWrites
    <3> QED
      BY <1>1, <3>1, <3>2
  <2> QED
    BY <1>2, <2>1, <2>2, InsertWrites, ProvedKept
<1>3. ASSUME CodesGrow, Len(codes') = Len(codes),
             \A i \in 1..Len(codes) : codes'[i] = codes[i] \/ (Proves(codes'[i]) <=> Proves(codes[i]))
      PROVE  Proved' <=> Proved
  BY <1>1, <1>3, ProvedKept
<1>4. ASSUME NEW s \in Session, WrongCode(s)
      PROVE  Proved' <=> Proved
  <2>1. handler[s].n \in Nat
    BY DEF Base, HandlersOK, Request
  <2>2. \A row \in CodeRow : Proves(Guessed(row, handler[s].n)) <=> Proves(row)
    BY <2>1, GuessedRow DEF Proves
  <2> QED
    BY <1>1, <1>3, <1>4, <2>2, WrongWrites
<1>5. ASSUME NEW s \in Session, RightResetCode(s)
      PROVE  Proved' <=> Proved
  <2>1. \A row \in CodeRow : Proves(Verified(row)) <=> Proves(row)
    BY DEF Proves, Verified, CodeRow
  <2> QED
    BY <1>1, <1>3, <1>5, <2>1, VerifiedWrites
<1>6. ASSUME NEW s \in Session, CommitReset(s)
      PROVE  Proved' <=> Proved
  <2>1. codes[handler[s].ref].kind = "reset" /\ handler[s].ref \in 1..Len(codes)
    BY <1>6 DEF CommitReset, At, Base, HandlersOK, RequestOK
  <2>2. \A row \in CodeRow : [row EXCEPT !.status = "spent"].kind = row.kind
    BY DEF CodeRow
  <2>3. \A i \in 1..Len(codes) :
          codes'[i] = codes[i] \/ (~Proves(codes'[i]) /\ ~Proves(codes[i]))
    <3> TAKE i \in 1..Len(codes)
    <3>1. codes'[i] = IF i = handler[s].ref THEN [codes[i] EXCEPT !.status = "spent"] ELSE codes[i]
      BY <1>6, SpentWrites
    <3>2. codes[i] \in CodeRow
      BY <1>1
    <3> QED
      BY <2>1, <2>2, <3>1, <3>2 DEF Proves
  <2> QED
    BY <1>3, <1>6, <2>3, SpentWrites
<1>7. ASSUME NEW i \in DOMAIN codes, CooldownPasses(i)
      PROVE  Proved' <=> Proved
  <2>1. \A row \in CodeRow : Proves([row EXCEPT !.recent = FALSE]) <=> Proves(row)
    BY DEF Proves, CodeRow
  <2>2. /\ CodesGrow /\ Len(codes') = Len(codes)
        /\ \A j \in 1..Len(codes) :
             codes'[j] = IF j = i THEN [codes[j] EXCEPT !.recent = FALSE] ELSE codes[j]
    BY <1>7, CooldownWrites
  <2>3. \A j \in 1..Len(codes) : codes'[j] = codes[j] \/ (Proves(codes'[j]) <=> Proves(codes[j]))
    <3> TAKE j \in 1..Len(codes)
    <3>1. codes[j] \in CodeRow
      BY <1>1
    <3>2. j = i => codes'[j] = [codes[j] EXCEPT !.recent = FALSE]
      BY <2>2
    <3>3. j # i => codes'[j] = codes[j]
      BY <2>2
    <3> QED
      BY <2>1, <3>1, <3>2, <3>3
  <2> QED
    BY <1>3, <2>2, <2>3
<1> QED
  BY <1>2, <1>4, <1>5, <1>6, <1>7

AddressOK == account.verified <=> links # {} \/ Proved

LEMMA AddressStep ==
  ASSUME AccountsAssumption, Base, AddressOK, [Next]_vars
  PROVE  AddressOK'
<1>0. account \in AccountRow
  BY DEF Base, AccountOK
<1>1. UNCHANGED codes => (Proved' <=> Proved)
  BY DEF Proved
<1>2. ASSUME account'.verified = account.verified, UNCHANGED links, Proved' <=> Proved
      PROVE  AddressOK'
  BY <1>2 DEF AddressOK
<1>3. ASSUME NEW s \in Session, WritesAccount(s) PROVE AddressOK'
  <2>1. CASE Register(s)
    <3>1. links' = {} /\ codes' = <<>>
      BY <1>3, <2>1 DEF WritesAccount, Register, Base, AccountOK
    <3>2. account'.verified = FALSE
      BY <2>1 DEF Register, NoAccount
    <3> QED
      BY <3>1, <3>2 DEF AddressOK, Proved
  <2>2. CASE CreateFromGoogle(s) /\ ~account.exists
    <3>1. links' # {}
      BY <2>2 DEF CreateFromGoogle
    <3>2. account'.verified
      BY <2>2 DEF CreateFromGoogle, NoAccount
    <3> QED
      BY <3>1, <3>2 DEF AddressOK
  <2>3. CASE CountFailure(s) \/ Welcome(s) \/ ReinstateUser(s) \/ (CreateFromGoogle(s) /\ account.exists)
    <3>1. account'.verified = account.verified /\ UNCHANGED links
      BY <1>0, <2>3 DEF CountFailure, Welcome, ReinstateUser, CreateFromGoogle, CleanCount, AccountRow
    <3> QED
      BY <1>1, <1>2, <1>3, <3>1 DEF WritesAccount
  <2> QED
    BY <1>3, <2>1, <2>2, <2>3 DEF WritesAccount
<1>4. ASSUME NEW s \in Session, WritesTokens(s) PROVE AddressOK'
  <2>1. CASE Link(s) /\ handler[s].ref \notin links
    <3>1. links' # {}
      BY <2>1 DEF Link
    <3>2. account'.verified
      BY <1>0, <2>1 DEF Link, AccountRow
    <3> QED
      BY <3>1, <3>2 DEF AddressOK
  <2>2. CASE ~(Link(s) /\ handler[s].ref \notin links)
    <3>1. account'.verified = account.verified /\ UNCHANGED links
      BY <1>0, <1>4, <2>2 DEF WritesTokens, Issue, Retire, EndFamily, Link, SuspendUser, AccountRow
    <3> QED
      BY <1>1, <1>2, <1>4, <3>1 DEF WritesTokens
  <2> QED
    BY <2>1, <2>2
<1>5. ASSUME NEW s \in Session, WritesCodes(s) \/ CommitReset(s) PROVE AddressOK'
  <2>1. CASE RightEmailCode(s)
    <3>1. account'.verified
      BY <1>0, <2>1 DEF RightEmailCode, AccountRow
    <3>2. Proved'
      <4> DEFINE i == handler[s].ref
      <4>1. i \in 1..Len(codes) /\ codes[i].kind = "email"
        BY <2>1 DEF RightEmailCode, At, Base, HandlersOK, RequestOK
      <4>2. codes \in Seq(CodeRow) /\ codes[i] \in CodeRow
        BY <4>1 DEF Base, CountsOK
      <4>3. codes'[i] = [codes[i] EXCEPT !.status = "spent"] /\ Len(codes') = Len(codes)
        BY <2>1, <4>1, SpentWrites
      <4>4. Proves(codes'[i])
        BY <4>1, <4>2, <4>3 DEF Proves, CodeRow
      <4> QED
        BY <4>1, <4>3, <4>4 DEF Proved
    <3> QED
      BY <3>1, <3>2 DEF AddressOK
  <2>2. CASE CommitReset(s) \/ (WritesCodes(s) /\ ~RightEmailCode(s))
    <3>1. account'.verified = account.verified /\ UNCHANGED links
      BY <1>0, <2>2 DEF WritesCodes, InsertCode, WrongCode, RightResetCode, CommitReset, CodesOnly,
                        CleanCount, AccountRow
    <3>2. Proved' <=> Proved
      BY <2>2, ProvedByCodes DEF WritesCodes
    <3> QED
      BY <1>2, <3>1, <3>2
  <2> QED
    BY <1>5, <2>1, <2>2
<1>6. CASE Passes
  <2>1. account'.verified = account.verified /\ UNCHANGED links
    BY <1>0, <1>6 DEF Passes, LockPasses, CooldownPasses, CodesOnly, AccountRow
  <2>2. Proved' <=> Proved
    BY <1>1, <1>6, ProvedByCodes DEF Passes
  <2> QED
    BY <1>2, <2>1, <2>2
<1>7. CASE Restart \/ UNCHANGED Tables
  BY <1>1, <1>2, <1>7 DEF Restart, Tables
<1> QED
  BY <1>3, <1>4, <1>5, <1>6, <1>7, StepKinds

(* Under any overlap of codes, Google links and registrations, and         *)
(* wherever a request is cut off, the mark on the address and the proof    *)
(* that earned it appear together, and neither without the other.          *)
THEOREM VerifiedMeansProved == Spec => []AddressIsProved
<1>1. Init => AddressOK
  <2> SUFFICES ASSUME Init PROVE AddressOK
    OBVIOUS
  <2>1. account.verified = FALSE
    BY DEF Init, NoAccount
  <2> QED
    BY <2>1 DEF Init, AddressOK, Proved
<1>2. Base /\ AddressOK /\ [Next]_vars => AddressOK'
  BY AddressStep, AccountsAssumption
<1>3. Base /\ AddressOK => AddressIsProved
  BY DEF Base, CountsOK, AddressOK, Proved, Proves, AddressIsProved
<1> QED
  BY <1>1, <1>2, <1>3, BaseAlways, PTL DEF Spec

-----------------------------------------------------------------------------
(* A suspended account has no session *)

(* Tokens that were all dead stay dead unless one is issued.               *)
LEMMA DeadStayDead ==
  ASSUME Base, TokensGrow, Len(tokens') = Len(tokens)
  PROVE  \A t \in 1..Len(tokens) : Live(t)' => Live(t)
<1> TAKE t \in 1..Len(tokens)
<1>1. /\ tokens[t].revoked => tokens'[t].revoked
      /\ tokens[t].next # 0 => tokens'[t].next # 0
  BY DEF TokensGrow
<1> QED
  BY <1>1 DEF Live

LEMMA SignedOutStep ==
  ASSUME AccountsAssumption, Base, SignedOut, [Next]_vars
  PROVE  SignedOut'
<1> DEFINE Alive == {"welcome", "issue", "link"}
<1>0. account \in AccountRow /\ handler \in [Session -> Request]
  BY DEF Base, AccountOK, HandlersOK
<1>1. UNCHANGED scenario
  BY DEF Next, Restart, vars
<1>2. SUFFICES ASSUME scenario.serial, account'.status = "SUSPENDED"
               PROVE  /\ \A t \in 1..Len(tokens') : ~Live(t)'
                      /\ \A s \in Session : handler'[s].at \notin Alive
  BY <1>1 DEF SignedOut
<1>3. ASSUME account.status = "SUSPENDED"
      PROVE  /\ \A t \in 1..Len(tokens) : ~Live(t)
             /\ \A s \in Session : handler[s].at \notin Alive
  BY <1>2, <1>3 DEF SignedOut
<1>4. UNCHANGED tokens => \A t \in 1..Len(tokens) : Live(t)' = Live(t)
  BY DEF Live
<1>5. ASSUME NEW s \in Session, NEW h, handler' = [handler EXCEPT ![s] = h], h.at \notin Alive,
             account.status = "SUSPENDED"
      PROVE  \A r \in Session : handler'[r].at \notin Alive
  <2> TAKE r \in Session
  <2>1. handler'[r] = IF r = s THEN h ELSE handler[r]
    BY <1>0, <1>5
  <2> QED
    BY <1>3, <1>5, <2>1
<1>6. Idle.at \notin Alive
  BY DEF Idle
<1>7. ASSUME TokensGrow, Len(tokens') = Len(tokens), account.status = "SUSPENDED"
      PROVE  \A t \in 1..Len(tokens') : ~Live(t)'
  BY <1>3, <1>7, DeadStayDead
<1>8. ASSUME NEW s \in Session, Reads(s), UNCHANGED Tables
      PROVE  SignedOut'
  <2>1. account.status = "SUSPENDED"
    BY <1>2, <1>8 DEF Tables
  <2>2. \E h : handler' = [handler EXCEPT ![s] = h] /\ h.at \notin Alive
    <3>1. ASSUME NEW step, NEW ref, NEW n, Goes(s, step, ref, n), step \notin Alive
          PROVE  \E h : handler' = [handler EXCEPT ![s] = h] /\ h.at \notin Alive
      <4>1. [at |-> step, ref |-> ref, n |-> n].at \notin Alive
        BY <3>1
      <4> QED
        BY <3>1, <4>1 DEF Goes
    <3>2. ~Usable
      BY <2>1 DEF Usable
    <3>3. CASE Done(s)
      BY <1>6, <3>3 DEF Done
    <3>4. CASE \/ \E p \in Passwords : Login(s, p)
               \/ \E t \in DOMAIN tokens : Refresh(s, t) \/ Logout(s, t)
               \/ \E subject \in Subject : GoogleSignIn(s, subject)
      BY <2>1, <3>1, <3>2, <3>4 DEF Login, Refresh, Logout, GoogleSignIn
    <3>5. CASE ByEmail(s) \/ RequestReset(s) \/ SendEmailCode(s)
      BY <3>1, <3>2, <3>3, <3>5 DEF ByEmail, RequestReset, SendEmailCode
    <3>6. CASE ResetPassword(s) \/ (\E kind \in Kinds, right \in BOOLEAN : Guess(s, kind, right))
      BY <3>1, <3>6 DEF ResetPassword, Guess
    <3>7. CASE \E kind \in Kinds : ReplaceCodes(s, kind)
      BY <3>1, <3>3, <3>7 DEF ReplaceCodes
    <3> QED
      BY <1>8, <3>4, <3>5, <3>6, <3>7 DEF Reads, Kinds
  <2> QED
    BY <1>1, <1>3, <1>4, <1>5, <1>8, <2>1, <2>2 DEF SignedOut, Tables
<1>9. ASSUME NEW s \in Session, WritesAccount(s)
      PROVE  SignedOut'
  <2>1. account.status = "SUSPENDED" /\ handler' = [handler EXCEPT ![s] = Idle]
    <3>1. CASE Register(s)
      BY <1>2, <3>1 DEF Register, NoAccount
    <3>2. CASE CountFailure(s)
      BY <1>0, <1>2, <3>2 DEF CountFailure, Done, AccountRow
    <3>3. CASE Welcome(s)
      <4>1. account.status = "SUSPENDED"
        BY <1>0, <1>2, <3>3 DEF Welcome, CleanCount, AccountRow
      <4> QED
        BY <1>3, <3>3, <4>1 DEF Welcome, At
    <3>4. CASE CreateFromGoogle(s)
      <4>1. ~account.exists => account'.status = "ACTIVE"
        BY <3>4 DEF CreateFromGoogle, NoAccount
      <4> QED
        BY <1>2, <3>4, <4>1 DEF CreateFromGoogle, Done
    <3>5. CASE ReinstateUser(s)
      <4>1. account'.status = "ACTIVE"
        BY <1>0, <3>5 DEF ReinstateUser, CleanCount, AccountRow
      <4> QED
        BY <1>2, <4>1
    <3> QED
      BY <1>9, <3>1, <3>2, <3>3, <3>4, <3>5 DEF WritesAccount
  <2> QED
    BY <1>3, <1>4, <1>5, <1>6, <1>9, <2>1 DEF WritesAccount, SignedOut
<1>10. ASSUME NEW s \in Session, WritesTokens(s)
       PROVE  SignedOut'
  <2>1. CASE Calls(s, "suspend") /\ SuspendUser(s)
    <3>1. \A r \in Session : handler'[r].at \notin Alive
      BY <1>2, <2>1 DEF Calls, At, SuspendUser
    <3>2. \A t \in 1..Len(tokens') : ~Live(t)'
      BY <2>1, RevokeGrows DEF SuspendUser, RevokeAll, Base, Live
    <3> QED
      BY <3>1, <3>2 DEF SignedOut
  <2>2. CASE Retire(s) \/ EndFamily(s)
    <3>1. account.status = "SUSPENDED" /\ handler' = [handler EXCEPT ![s] = Idle]
      BY <1>2, <2>2 DEF Retire, EndFamily, Done
    <3>2. TokensGrow /\ Len(tokens') = Len(tokens)
      BY <2>2, RetireGrows, RevokeGrows DEF EndFamily, RevokeFamily, Base
    <3> QED
      BY <1>5, <1>6, <1>7, <3>1, <3>2 DEF SignedOut
  <2>3. CASE Issue(s)
    BY <1>2, <1>3, <2>3 DEF Issue, At
  <2>4. CASE Link(s)
    <3>1. account.status = "SUSPENDED"
      BY <1>0, <1>2, <2>4 DEF Link, AccountRow
    <3> QED
      BY <1>3, <2>4, <3>1 DEF Link, At
  <2> QED
    BY <1>10, <2>1, <2>2, <2>3, <2>4 DEF WritesTokens
<1>11. ASSUME NEW s \in Session, WritesCodes(s) \/ CommitReset(s)
       PROVE  SignedOut'
  <2>1. account.status = "SUSPENDED"
    BY <1>0, <1>2, <1>11 DEF WritesCodes, InsertCode, WrongCode, RightResetCode, RightEmailCode,
       CommitReset, CodesOnly, CleanCount, AccountRow
  <2>2. handler' = [handler EXCEPT ![s] = Idle]
    BY <1>11 DEF WritesCodes, InsertCode, WrongCode, RightResetCode, RightEmailCode,
       CommitReset, Done
  <2>3. TokensGrow /\ Len(tokens') = Len(tokens)
    BY <1>11, GrowsStep, RevokeGrows DEF WritesCodes, CommitReset, RevokeAll, Grows, Base
  <2> QED
    BY <1>5, <1>6, <1>7, <2>1, <2>2, <2>3 DEF SignedOut
<1>12. CASE Passes
  <2>1. account.status = "SUSPENDED"
    BY <1>0, <1>2, <1>12 DEF Passes, LockPasses, CooldownPasses, CodesOnly, AccountRow
  <2>2. UNCHANGED <<tokens, handler>>
    BY <1>12 DEF Passes, LockPasses, CooldownPasses, CodesOnly
  <2> QED
    BY <1>3, <1>4, <2>1, <2>2 DEF SignedOut
<1>13. CASE Restart
  <2>1. UNCHANGED <<account, tokens>> /\ \A s \in Session : handler'[s] = Idle
    BY <1>13 DEF Restart
  <2> QED
    BY <1>2, <1>3, <1>4, <1>6, <2>1 DEF SignedOut
<1>14. CASE UNCHANGED <<Tables, handler>>
  BY <1>2, <1>3, <1>4, <1>14 DEF Tables, SignedOut
<1> QED
  BY <1>1, <1>2, <1>8, <1>9, <1>10, <1>11, <1>12, <1>13, <1>14, StepKinds DEF SignedOut

(* While requests do not overlap, suspending an account leaves it without  *)
(* a session, and no route gives it one until it is reinstated - also if   *)
(* the process stops in the middle of any of them.                         *)
THEOREM SuspensionSignsOut == Spec => []SuspendedHasNoSession
<1>1. Init => SignedOut
  BY DEF Init, SignedOut, NoAccount
<1>2. Base /\ SignedOut /\ [Next]_vars => SignedOut'
  BY SignedOutStep, AccountsAssumption
<1>3. Base /\ SignedOut => SuspendedHasNoSession
  BY DEF Base, TokensOK, SignedOut, SuspendedHasNoSession
<1> QED
  BY <1>1, <1>2, <1>3, BaseAlways, PTL DEF Spec

-----------------------------------------------------------------------------
(* Who rotates a token *)

LEMMA OneMoves ==
  ASSUME Base, NEW s \in Session, NEW h, handler' = [handler EXCEPT ![s] = h]
  PROVE  handler'[s] = h /\ \A r \in Session \ {s} : handler'[r] = handler[r]
BY DEF Base, HandlersOK

(* A session that rotates a token after a step did so before, or has just  *)
(* been let through because the token is live.                             *)
LEMMA RotatesStep ==
  ASSUME AccountsAssumption, Base, [Next]_vars, NEW r \in Session, Rotates(r)'
  PROVE  \/ /\ Rotates(r) /\ handler'[r].ref = handler[r].ref
            /\ handler'[r] = handler[r] \/ Issue(r)
         \/ /\ Calls(r, "refresh") /\ UNCHANGED Tables
            /\ handler'[r].at = "issue"
            /\ handler'[r].ref \in 1..Len(tokens) /\ Live(handler'[r].ref)
            /\ \A q \in Session \ {r} : handler'[q] = handler[q]
<1> DEFINE Goal ==
             \/ /\ Rotates(r) /\ handler'[r].ref = handler[r].ref
                /\ handler'[r] = handler[r] \/ Issue(r)
             \/ /\ Calls(r, "refresh") /\ UNCHANGED Tables
                /\ handler'[r].at = "issue"
                /\ handler'[r].ref \in 1..Len(tokens) /\ Live(handler'[r].ref)
                /\ \A q \in Session \ {r} : handler'[q] = handler[q]
<1>1. handler'[r] = handler[r] => Goal
  BY DEF Rotates
<1> HIDE DEF Goal
<1>2. ASSUME NEW s \in Session, NEW h, handler' = [handler EXCEPT ![s] = h],
             h.at \notin {"issue", "retire"} \/ h.ref = 0
      PROVE  Goal
  <2>1. s # r
    BY <1>2, OneMoves DEF Rotates
  <2> QED
    BY <1>1, <1>2, <2>1, OneMoves
<1>3. ASSUME NEW s \in Session, NEW step, NEW ref, NEW n, Goes(s, step, ref, n),
             step \notin {"issue", "retire"} \/ ref = 0
      PROVE  Goal
  <2> DEFINE h == [at |-> step, ref |-> ref, n |-> n]
  <2>1. h.at = step /\ h.ref = ref
    OBVIOUS
  <2>2. handler' = [handler EXCEPT ![s] = h]
    BY <1>3 DEF Goes
  <2> HIDE DEF h
  <2> QED
    BY <1>2, <1>3, <2>1, <2>2
<1>4. ASSUME NEW s \in Session, Done(s) PROVE Goal
  BY <1>2, <1>4 DEF Done, Idle
<1>5. ASSUME NEW s \in Session, Reads(s), UNCHANGED Tables PROVE Goal
  <2>1. ASSUME NEW t \in DOMAIN tokens, Calls(s, "refresh"), Refresh(s, t) PROVE Goal
    <3>1. CASE ~Live(t)
      BY <1>3, <2>1, <3>1 DEF Refresh
    <3>2. CASE Live(t) /\ s = r
      <4> DEFINE h == [at |-> "issue", ref |-> t, n |-> 0]
      <4>1. handler' = [handler EXCEPT ![s] = h]
        BY <2>1, <3>2 DEF Refresh, Goes
      <4>2. h.at = "issue" /\ h.ref = t
        OBVIOUS
      <4> HIDE DEF h
      <4>3. handler'[s] = h /\ \A q \in Session \ {s} : handler'[q] = handler[q]
        BY <4>1, OneMoves
      <4>4. t \in 1..Len(tokens)
        BY DEF Base, TokensOK
      <4>5. Live(handler'[r].ref)
        BY <3>2, <4>2, <4>3
      <4> QED
        BY <1>5, <2>1, <3>2, <4>2, <4>3, <4>4, <4>5 DEF Goal
    <3>3. CASE Live(t) /\ s # r
      <4>1. handler'[r] = handler[r]
        BY <2>1, <3>3, OneMoves DEF Refresh, Goes
      <4> QED
        BY <1>1, <4>1
    <3> QED
      BY <3>1, <3>2, <3>3
  <2>2. ASSUME \/ \E p \in Passwords : Login(s, p)
               \/ \E t \in DOMAIN tokens : Logout(s, t)
               \/ \E subject \in Subject : GoogleSignIn(s, subject)
        PROVE  Goal
    BY <1>3, <2>2 DEF Login, Logout, GoogleSignIn
  <2>3. ASSUME ByEmail(s) \/ RequestReset(s) \/ SendEmailCode(s) PROVE Goal
    BY <1>3, <1>4, <2>3 DEF ByEmail, RequestReset, SendEmailCode
  <2>4. ASSUME ResetPassword(s) \/ (\E kind \in Kinds, right \in BOOLEAN : Guess(s, kind, right))
        PROVE  Goal
    BY <1>3, <2>4 DEF ResetPassword, Guess
  <2>5. ASSUME \E kind \in Kinds : ReplaceCodes(s, kind) PROVE Goal
    BY <1>3, <1>4, <2>5 DEF ReplaceCodes
  <2> QED
    BY <1>5, <2>1, <2>2, <2>3, <2>4, <2>5 DEF Reads, Kinds
<1>6. ASSUME NEW s \in Session, WritesAccount(s) PROVE Goal
  BY <1>1, <1>3, <1>4, <1>6 DEF WritesAccount, Register, CountFailure, Welcome,
     CreateFromGoogle, ReinstateUser
<1>7. ASSUME NEW s \in Session, WritesTokens(s) PROVE Goal
  <2>1. CASE Issue(s)
    <3>1. CASE handler[s].ref = 0
      BY <1>4, <2>1, <3>1 DEF Issue
    <3>2. CASE handler[s].ref # 0 /\ s # r
      BY <1>1, <2>1, <3>2, OneMoves DEF Issue, Goes
    <3>3. CASE handler[s].ref # 0 /\ s = r
      <4>1. handler'[r] = [at |-> "retire", ref |-> handler[r].ref, n |-> Len(tokens) + 1]
        BY <2>1, <3>3, OneMoves DEF Issue, Goes
      <4>2. Rotates(r)
        BY <2>1, <3>3 DEF Issue, At, Rotates
      <4> QED
        BY <2>1, <3>3, <4>1, <4>2 DEF Goal
    <3> QED
      BY <3>1, <3>2, <3>3
  <2>2. CASE ~Issue(s)
    BY <1>1, <1>3, <1>4, <1>7, <2>2 DEF WritesTokens, Retire, EndFamily, Link, SuspendUser
  <2> QED
    BY <2>1, <2>2
<1>8. ASSUME NEW s \in Session, WritesCodes(s) \/ CommitReset(s) PROVE Goal
  BY <1>4, <1>8 DEF WritesCodes, InsertCode, WrongCode, RightResetCode, RightEmailCode, CommitReset
<1>9. ASSUME Passes PROVE Goal
  BY <1>1, <1>9 DEF Passes, LockPasses, CooldownPasses
<1>10. ~Restart
  <2>1. Restart => handler'[r] = Idle
    BY DEF Restart
  <2> QED
    BY <2>1 DEF Idle, Rotates
<1>11. ASSUME UNCHANGED handler PROVE Goal
  BY <1>1, <1>11
<1>12. Goal
  BY <1>5, <1>6, <1>7, <1>8, <1>9, <1>10, <1>11, StepKinds
<1> QED
  BY <1>12 DEF Goal

(* A token that is live after a step was live before, or is the one just   *)
(* issued - with a family of its own, or in the family of the token that   *)
(* is being rotated.                                                       *)
LEMMA LiveStep ==
  ASSUME AccountsAssumption, Base, [Next]_vars, NEW t \in 1..Len(tokens'), Live(t)'
  PROVE  \/ t \in 1..Len(tokens) /\ Live(t) /\ tokens'[t].family = tokens[t].family
         \/ /\ t = Len(tokens) + 1 /\ Len(tokens') = t
            /\ \E s \in Session :
                 /\ Issue(s)
                 /\ \/ handler[s].ref = 0 /\ tokens'[t].family = t
                    \/ /\ Rotates(s) /\ tokens'[t].family = tokens[handler[s].ref].family
                       /\ handler'[s].at = "retire" /\ handler'[s].n = t
<1>1. Grows
  BY GrowsStep
<1>2. CASE t \in 1..Len(tokens)
  <2>1. /\ tokens[t].revoked => tokens'[t].revoked
        /\ tokens[t].next # 0 => tokens'[t].next # 0
        /\ tokens'[t].family = tokens[t].family
    BY <1>1, <1>2 DEF Grows, TokensGrow
  <2> QED
    BY <1>2, <2>1 DEF Live
<1>3. CASE t \notin 1..Len(tokens)
  <2>1. Len(tokens) \in Nat /\ Len(tokens') \in Nat
    BY <1>1 DEF Base, TokensOK, Grows, TokensGrow
  <2>2. Len(tokens') # Len(tokens)
    BY <1>3, <2>1
  <2>3. PICK s \in Session : Issue(s)
    <3>1. ASSUME NEW s \in Session, WritesTokens(s) PROVE Issue(s)
      BY <2>2, <3>1, RetireGrows, RevokeGrows
         DEF WritesTokens, EndFamily, RevokeFamily, Link, SuspendUser, RevokeAll, Base
    <3>2. ASSUME NEW s \in Session, WritesAccount(s) \/ WritesCodes(s) \/ CommitReset(s) PROVE FALSE
      BY <2>2, <3>2, RevokeGrows DEF WritesAccount, WritesCodes, CommitReset, RevokeAll, Base
    <3>3. ~Passes /\ ~Restart /\ ~UNCHANGED Tables
      BY <2>2 DEF Passes, LockPasses, CooldownPasses, CodesOnly, Restart, Tables
    <3> QED
      BY <3>1, <3>2, <3>3, StepKinds DEF Tables
  <2>4. Len(tokens') = Len(tokens) + 1
    BY <2>3, IssueGrows
  <2>5. t = Len(tokens) + 1
    BY <1>3, <2>1, <2>4
  <2>6. tokens'[t] = [family |-> IF handler[s].ref = 0 THEN Len(tokens) + 1
                                 ELSE tokens[handler[s].ref].family,
                      revoked |-> FALSE, next |-> 0]
    BY <2>3, <2>5, IssueGrows
  <2>7. tokens'[t].family = IF handler[s].ref = 0 THEN t ELSE tokens[handler[s].ref].family
    BY <2>5, <2>6
  <2>8. CASE handler[s].ref = 0
    BY <2>3, <2>4, <2>5, <2>7, <2>8
  <2>9. CASE handler[s].ref # 0
    <3>1. Rotates(s)
      BY <2>3, <2>9 DEF Issue, At, Rotates
    <3>2. handler'[s] = [at |-> "retire", ref |-> handler[s].ref, n |-> Len(tokens) + 1]
      BY <2>3, <2>9, OneMoves DEF Issue, Goes
    <3>3. handler'[s].at = "retire" /\ handler'[s].n = t
      BY <2>5, <3>2
    <3> QED
      BY <2>3, <2>4, <2>5, <2>7, <2>9, <3>1, <3>3
  <2> QED
    BY <2>8, <2>9
<1> QED
  BY <1>2, <1>3

-----------------------------------------------------------------------------
(* A family that has ended stays ended *)

LEMMA EndedStep ==
  ASSUME AccountsAssumption, Base, [Next]_vars, NEW f \in DOMAIN tokens, Ended(f)
  PROVE  Ended(f)'
<1>1. Grows /\ HandlersOK'
  BY GrowsStep, HandlersStep
<1>2. /\ f \in 1..Len(tokens) /\ Len(tokens) \in Nat
      /\ DOMAIN tokens = 1..Len(tokens) /\ DOMAIN tokens' = 1..Len(tokens')
  BY <1>1 DEF Base, TokensOK, Grows, TokensGrow
<1>3. \A t \in 1..Len(tokens) : tokens[t].family = f => ~Live(t)
  BY <1>2 DEF Ended, LiveIn
<1>4. \A s \in Session : Rotates(s) => tokens[handler[s].ref].family # f
  BY DEF Ended, Rotating, Rotates
<1>5. LiveIn(f)' = {}
  <2>1. SUFFICES ASSUME NEW t \in 1..Len(tokens'), tokens'[t].family = f, Live(t)'
                 PROVE  FALSE
    BY <1>2 DEF LiveIn
  <2>2. CASE t \in 1..Len(tokens) /\ Live(t) /\ tokens'[t].family = tokens[t].family
    BY <1>3, <2>1, <2>2
  <2>3. CASE t = Len(tokens) + 1 /\ tokens'[t].family = t
    BY <1>2, <2>1, <2>3
  <2>4. CASE \E s \in Session : Rotates(s) /\ tokens'[t].family = tokens[handler[s].ref].family
    BY <1>4, <2>1, <2>4
  <2> QED
    BY <2>1, <2>2, <2>3, <2>4, LiveStep
<1>6. Rotating(f)' = {}
  <2>1. SUFFICES ASSUME NEW r \in Session, Rotates(r)', tokens'[handler'[r].ref].family = f
                 PROVE  FALSE
    BY DEF Rotating, Rotates
  <2>2. \A t \in 1..Len(tokens) : tokens'[t].family = tokens[t].family
    BY <1>1 DEF Grows, TokensGrow
  <2>3. CASE Rotates(r) /\ handler'[r].ref = handler[r].ref
    <3>1. handler[r].ref \in 1..Len(tokens)
      BY <1>2, <2>3 DEF Rotates, Base, HandlersOK, RequestOK
    <3> QED
      BY <1>4, <2>1, <2>2, <2>3, <3>1
  <2>4. CASE handler'[r].ref \in 1..Len(tokens) /\ Live(handler'[r].ref)
    BY <1>3, <2>1, <2>2, <2>4
  <2> QED
    BY <2>1, <2>3, <2>4, RotatesStep
<1> QED
  BY <1>5, <1>6 DEF Ended

(* A family that logout, reuse, suspension or a new password has ended is  *)
(* never live again, under any overlap of refreshes.                       *)
THEOREM DeadFamiliesStayDead == Spec => DeadFamilyStaysDead
<1>1. Base /\ [Next]_vars => [\A f \in DOMAIN tokens : Ended(f) => Ended(f)']_vars
  BY EndedStep, AccountsAssumption
<1> QED
  BY <1>1, BaseAlways, PTL DEF Spec, DeadFamilyStaysDead

-----------------------------------------------------------------------------
(* What it means that requests of a kind do not overlap *)

LEMMA AloneMeans ==
  ASSUME AccountsAssumption, NEW routes, Alone(routes), ~scenario.serial,
         NEW r \in Session, scenario.routes[r] \cap routes # {},
         NEW s \in Session, scenario.routes[s] \cap routes # {}
  PROVE  r = s
<1> DEFINE S == {q \in Session : scenario.routes[q] \cap routes # {}}
<1>1. IsFiniteSet(S) /\ Cardinality(S) < 2
  BY FS_Subset DEF Alone, AccountsAssumption
<1>2. SUFFICES ASSUME r # s PROVE FALSE
  OBVIOUS
<1>3. /\ IsFiniteSet({r}) /\ Cardinality({r}) = 1
      /\ Cardinality({r} \cup {s}) = Cardinality({r}) + 1
  BY <1>2, FS_Singleton, FS_AddElement
<1>4. {r} \cup {s} \in SUBSET S
  OBVIOUS
<1>5. Cardinality({r} \cup {s}) <= Cardinality(S)
  BY <1>1, <1>4, FS_Subset
<1>6. Cardinality(S) \in Nat
  BY <1>1, FS_CardinalityType
<1> QED
  BY <1>1, <1>3, <1>5, <1>6

LEMMA AloneKept ==
  ASSUME [Next]_vars, NEW routes
  PROVE  UNCHANGED scenario /\ Alone(routes)' = Alone(routes)
<1>1. UNCHANGED scenario
  BY DEF Next, Restart, vars
<1> QED
  BY <1>1 DEF Alone

-----------------------------------------------------------------------------
(* Rotation leaves one live token in a family *)

(* Only one request rotates.                                               *)
LEMMA OneRotates ==
  ASSUME AccountsAssumption, Base, ChainsOK, [Next]_vars, Alone({"refresh"}),
         NEW r \in Session, NEW s \in Session, Rotates(r)', Rotates(s)'
  PROVE  r = s
<1> DEFINE New(q) == /\ Calls(q, "refresh")
                     /\ \A p \in Session \ {q} : handler'[p] = handler[p]
<1>1. /\ Rotates(r) \/ New(r)
      /\ Rotates(s) \/ New(s)
  BY RotatesStep
<1>2. ASSUME NEW p \in Session, NEW q \in Session, Rotates(p)', New(q), p # q
      PROVE  /\ ~At(p, "idle")
             /\ "refresh" \in scenario.routes[p]
  <2>1. Rotates(p)
    BY <1>2 DEF Rotates
  <2> QED
    BY <2>1 DEF Rotates, At, ChainsOK
<1>3. ASSUME NEW p \in Session, NEW q \in Session, Rotates(p)', New(q)
      PROVE  p = q
  <2>1. SUFFICES ASSUME p # q PROVE FALSE
    OBVIOUS
  <2>2. ~At(p, "idle") /\ "refresh" \in scenario.routes[p]
    BY <1>2, <1>3, <2>1
  <2>3. Calls(q, "refresh")
    BY <1>3
  <2>4. ~scenario.serial /\ "refresh" \in scenario.routes[q]
    BY <2>2, <2>3 DEF Calls
  <2>5. /\ scenario.routes[p] \cap {"refresh"} # {}
        /\ scenario.routes[q] \cap {"refresh"} # {}
    BY <2>2, <2>4
  <2> QED
    BY <2>1, <2>4, <2>5, AloneMeans
<1>4. CASE Rotates(r) /\ Rotates(s)
  BY <1>4 DEF ChainsOK
<1> HIDE DEF New
<1> QED
  BY <1>1, <1>3, <1>4

(* How a token that was live comes to be dead.                             *)
LEMMA DiesStep ==
  ASSUME AccountsAssumption, Base, [Next]_vars,
         NEW t \in 1..Len(tokens), Live(t), ~Live(t)', NEW f, f = tokens[t].family
  PROVE  \/ \E s \in Session : Retire(s) /\ handler[s].ref = t
         \/ LiveIn(f)' = {}
<1>1. ASSUME NEW chosen, Revoke(chosen), \A u \in 1..Len(tokens) : tokens[u].family = f => chosen[u]
      PROVE  LiveIn(f)' = {}
  <2>1. /\ TokensGrow /\ Len(tokens') = Len(tokens)
        /\ \A u \in 1..Len(tokens) : chosen[u] => tokens'[u].revoked
    BY <1>1, RevokeGrows DEF Base
  <2>2. DOMAIN tokens' = 1..Len(tokens)
    BY <2>1 DEF TokensGrow, TokensOK
  <2>3. \A u \in 1..Len(tokens) : tokens'[u].family = f => ~Live(u)'
    BY <1>1, <2>1 DEF TokensGrow, Live
  <2> QED
    BY <2>2, <2>3 DEF LiveIn
<1>2. ASSUME RevokeAll PROVE LiveIn(f)' = {}
  <2>1. \A u \in 1..Len(tokens) : [v \in DOMAIN tokens |-> TRUE][u]
    BY DEF Base, TokensOK
  <2> QED
    BY <1>1, <1>2, <2>1 DEF RevokeAll
<1>3. UNCHANGED tokens => FALSE
  BY DEF Live
<1>4. ASSUME NEW s \in Session, WritesTokens(s)
      PROVE  (Retire(s) /\ handler[s].ref = t) \/ LiveIn(f)' = {}
  <2>1. CASE Issue(s)
    <3>1. tokens'[t] = tokens[t]
      BY <2>1, IssueGrows
    <3> QED
      BY <3>1 DEF Live
  <2>2. CASE Retire(s)
    <3>1. handler[s].ref # t => tokens'[t] = tokens[t]
      BY <2>2, RetireGrows
    <3> QED
      BY <2>2, <3>1 DEF Live
  <2>3. CASE EndFamily(s)
    <3> DEFINE end == tokens[handler[s].ref].family
               chosen == [v \in DOMAIN tokens |-> tokens[v].family = end]
    <3>1. Revoke(chosen)
      BY <2>3 DEF EndFamily, RevokeFamily
    <3>2. DOMAIN tokens = 1..Len(tokens)
      BY DEF Base, TokensOK
    <3>3. CASE f = end
      BY <1>1, <3>1, <3>2, <3>3
    <3>4. CASE f # end
      <4>1. ~chosen[t]
        BY <3>2, <3>4
      <4>2. tokens'[t] = IF chosen[t] THEN [tokens[t] EXCEPT !.revoked = TRUE] ELSE tokens[t]
        BY <3>1, <3>2 DEF Revoke
      <4>3. tokens'[t] = tokens[t]
        BY <4>1, <4>2
      <4> QED
        BY <4>3 DEF Live
    <3> QED
      BY <3>3, <3>4
  <2>4. CASE Link(s) \/ SuspendUser(s)
    BY <1>2, <1>3, <2>4 DEF Link, SuspendUser
  <2> QED
    BY <1>4, <2>1, <2>2, <2>3, <2>4 DEF WritesTokens
<1>5. ASSUME NEW s \in Session, CommitReset(s) PROVE LiveIn(f)' = {}
  BY <1>2, <1>5 DEF CommitReset
<1>6. ASSUME NEW s \in Session, WritesAccount(s) \/ WritesCodes(s) PROVE FALSE
  BY <1>3, <1>6 DEF WritesAccount, WritesCodes
<1>7. ~Passes /\ ~Restart /\ ~UNCHANGED Tables
  BY <1>3 DEF Passes, LockPasses, CooldownPasses, CodesOnly, Restart, Tables
<1> QED
  BY <1>4, <1>5, <1>6, <1>7, StepKinds DEF Tables

(* The request that rotates still holds the chain.                         *)
LEMMA HoldsStep ==
  ASSUME AccountsAssumption, Base, ChainsOK, [Next]_vars, Alone({"refresh"}),
         NEW s \in Session, Rotates(s)'
  PROVE  HoldsChain(s)'
<1> SUFFICES ASSUME NEW ref, ref = handler'[s].ref, NEW f, f = tokens'[ref].family
               PROVE  HoldsChain(s)'
  OBVIOUS
<1>1. Grows
  BY GrowsStep
<1>2. /\ DOMAIN tokens = 1..Len(tokens) /\ DOMAIN tokens' = 1..Len(tokens')
      /\ Len(tokens) \in Nat
      /\ \A t \in 1..Len(tokens) : t \in 1..Len(tokens') /\ tokens'[t].family = tokens[t].family
  BY <1>1 DEF Base, TokensOK, Grows, TokensGrow
<1>3. SUFFICES ASSUME ref \notin LiveIn(f)'
               PROVE  LiveIn(f)' \subseteq IF At(s, "issue")' THEN {} ELSE {handler'[s].n}
  BY DEF HoldsChain
<1>4. ref \in 1..Len(tokens) => ~Live(ref)'
  BY <1>2, <1>3 DEF LiveIn
<1>5. /\ Rotates(s) /\ ref = handler[s].ref
      /\ handler'[s] = handler[s] \/ Issue(s)
  <2>1. CASE ref \in 1..Len(tokens) /\ Live(ref) /\ UNCHANGED Tables
    BY <1>4, <2>1 DEF Tables, Live
  <2> QED
    BY <2>1, RotatesStep
<1>6. ref \in 1..Len(tokens) /\ f = tokens[ref].family /\ f \in 1..Len(tokens)
  <2>1. ref \in 1..Len(tokens)
    BY <1>5, <1>2 DEF Rotates, Base, HandlersOK, RequestOK
  <2>2. f = tokens[ref].family /\ tokens[ref].family \in 1..ref
    BY <1>2, <2>1 DEF Base, TokensOK
  <2> QED
    BY <1>2, <2>1, <2>2
<1>7. ASSUME NEW t \in LiveIn(f)'
      PROVE  t \in LiveIn(f) \/ (Issue(s) /\ handler'[s].at = "retire" /\ handler'[s].n = t)
  <2>1. t \in 1..Len(tokens') /\ tokens'[t].family = f /\ Live(t)'
    BY <1>2, <1>7 DEF LiveIn
  <2>2. CASE t \in 1..Len(tokens) /\ Live(t)
    BY <1>2, <2>1, <2>2 DEF LiveIn
  <2>3. CASE t = Len(tokens) + 1 /\ tokens'[t].family = t
    BY <1>2, <1>6, <2>1, <2>3
  <2>4. ASSUME NEW q \in Session, Issue(q), Rotates(q), handler'[q].at = "retire", handler'[q].n = t
        PROVE  Issue(s) /\ handler'[s].at = "retire" /\ handler'[s].n = t
    <3>1. q = s
      BY <1>5, <2>4 DEF ChainsOK
    <3> QED
      BY <2>4, <3>1
  <2> QED
    BY <2>1, <2>2, <2>3, <2>4, LiveStep
<1>8. CASE Issue(s)
  <2>1. handler[s].at = "issue" /\ tokens'[ref] = tokens[ref]
    BY <1>6, <1>8, IssueGrows DEF Issue, At
  <2>2. ref \notin LiveIn(f)
    BY <1>4, <1>6, <2>1 DEF LiveIn, Live
  <2>3. LiveIn(f) = {}
    BY <1>5, <1>6, <2>1, <2>2 DEF ChainsOK, HoldsChain, At
  <2>4. handler'[s].at = "retire"
    <3>1. handler' = [handler EXCEPT ![s] = [at |-> "retire", ref |-> handler[s].ref, n |-> Len(tokens) + 1]]
      BY <1>5, <1>8 DEF Issue, Goes, Rotates
    <3>2. handler'[s] = [at |-> "retire", ref |-> handler[s].ref, n |-> Len(tokens) + 1]
      BY <3>1, OneMoves
    <3> QED
      BY <3>2
  <2> QED
    BY <1>7, <2>3, <2>4 DEF At
<1>9. CASE ~Issue(s)
  <2>1. handler'[s] = handler[s] /\ LiveIn(f)' \subseteq LiveIn(f)
    BY <1>5, <1>7, <1>9
  <2>2. CASE ref \notin LiveIn(f)
    <3>1. HoldsChain(s)
      BY <1>5 DEF ChainsOK
    <3> QED
      BY <1>5, <1>6, <2>1, <2>2, <3>1 DEF HoldsChain, At
  <2>3. CASE ref \in LiveIn(f)
    <3>1. Live(ref) /\ ~Live(ref)'
      BY <1>4, <1>6, <2>3 DEF LiveIn
    <3>2. CASE LiveIn(f)' = {}
      BY <3>2
    <3>3. ASSUME NEW q \in Session, Retire(q), handler[q].ref = ref PROVE FALSE
      <4>1. Rotates(q)
        BY <1>6, <3>3 DEF Retire, At, Rotates
      <4>2. q = s
        BY <1>5, <4>1 DEF ChainsOK
      <4>3. handler'[s] = Idle
        BY <3>3, <4>2, OneMoves DEF Retire, Done
      <4> QED
        BY <4>3 DEF Rotates, Idle
    <3> QED
      BY <1>6, <3>1, <3>2, <3>3, DiesStep
  <2> QED
    BY <2>2, <2>3
<1> QED
  BY <1>8, <1>9

(* One request takes a step at a time, unless the process stops.           *)
Takes(s) ==
  \/ Reads(s) /\ UNCHANGED Tables
  \/ WritesAccount(s) \/ WritesTokens(s) \/ WritesCodes(s) \/ CommitReset(s)

LEMMA WhoMoves ==
  ASSUME AccountsAssumption, Base, [Next]_vars
  PROVE  \/ Restart
         \/ UNCHANGED handler
         \/ \E s \in Session : Takes(s) /\ \A r \in Session \ {s} : handler'[r] = handler[r]
<1>1. ASSUME NEW s \in Session, UNCHANGED handler \/ \E h : handler' = [handler EXCEPT ![s] = h]
      PROVE  \A r \in Session \ {s} : handler'[r] = handler[r]
  BY <1>1, OneMoves
<1>2. ASSUME NEW s \in Session, Reads(s) PROVE \E h : handler' = [handler EXCEPT ![s] = h]
  BY <1>2, ReadsMove
<1>3. ASSUME NEW s \in Session, WritesAccount(s)
      PROVE  UNCHANGED handler \/ \E h : handler' = [handler EXCEPT ![s] = h]
  BY <1>3 DEF WritesAccount, Register, CountFailure, Welcome, CreateFromGoogle, ReinstateUser,
              Goes, Done
<1>4. ASSUME NEW s \in Session, WritesTokens(s)
      PROVE  UNCHANGED handler \/ \E h : handler' = [handler EXCEPT ![s] = h]
  BY <1>4 DEF WritesTokens, Issue, Retire, EndFamily, Link, SuspendUser, Goes, Done
<1>5. ASSUME NEW s \in Session, WritesCodes(s) \/ CommitReset(s)
      PROVE  \E h : handler' = [handler EXCEPT ![s] = h]
  BY <1>5 DEF WritesCodes, InsertCode, WrongCode, RightResetCode, RightEmailCode, CommitReset, Done
<1>6. Passes => UNCHANGED handler
  BY DEF Passes, LockPasses, CooldownPasses
<1> QED
  BY <1>1, <1>2, <1>3, <1>4, <1>5, <1>6, StepKinds DEF Takes

(* A request that has a token to retire is there until it does.            *)
LEMMA RetiringStays ==
  ASSUME AccountsAssumption, Base, [Next]_vars, NEW s \in Session, At(s, "retire")
  PROVE  handler'[s] = handler[s] \/ Retire(s) \/ Restart
<1>1. ASSUME Takes(s) PROVE Retire(s) \/ UNCHANGED handler
  <2>1. ~Reads(s)
    BY DEF Reads, Login, Refresh, Logout, GoogleSignIn, ByEmail, RequestReset, SendEmailCode,
           ResetPassword, Guess, ReplaceCodes, Begin, At
  <2>2. ~WritesAccount(s)
    BY DEF WritesAccount, Register, CountFailure, Welcome, CreateFromGoogle, ReinstateUser, Begin, At
  <2>3. ~WritesCodes(s) /\ ~CommitReset(s)
    BY DEF WritesCodes, InsertCode, WrongCode, RightResetCode, RightEmailCode, CommitReset, At
  <2>4. WritesTokens(s) => Retire(s)
    BY DEF WritesTokens, Issue, EndFamily, Link, SuspendUser, Begin, At
  <2> QED
    BY <1>1, <2>1, <2>2, <2>3, <2>4 DEF Takes
<1> QED
  BY <1>1, WhoMoves

(* The live tokens of a family that nobody is about to retire.             *)
Standing(f) == LiveIn(f) \ Retiring

LEMMA RetiringIsOne ==
  ASSUME AccountsAssumption, Base, ChainsOK, Alone({"refresh"})
  PROVE  /\ \A t, u \in Retiring : t = u
         /\ IsFiniteSet(Retiring) /\ Cardinality(Retiring) <= 1
<1>1. \A t, u \in Retiring : t = u
  BY DEF Retiring, ChainsOK
<1>2. CASE Retiring = {}
  BY <1>1, <1>2, FS_EmptySet
<1>3. ASSUME NEW t \in Retiring PROVE IsFiniteSet(Retiring) /\ Cardinality(Retiring) <= 1
  <2>1. Retiring = {t}
    BY <1>1, <1>3
  <2> QED
    BY <2>1, FS_Singleton
<1> QED
  BY <1>1, <1>2, <1>3

LEMMA LiveFinite ==
  ASSUME Base, NEW f
  PROVE  /\ IsFiniteSet(LiveIn(f)) /\ IsFiniteSet(Standing(f))
         /\ Cardinality(Standing(f)) \in Nat
<1>1. IsFiniteSet(1..Len(tokens))
  BY FS_Interval DEF Base, TokensOK
<1>2. LiveIn(f) \in SUBSET (1..Len(tokens)) /\ Standing(f) \in SUBSET (1..Len(tokens))
  BY DEF LiveIn, Standing, Base, TokensOK
<1> QED
  BY <1>1, <1>2, FS_Subset, FS_CardinalityType

(* The cardinalities that are compared.                                    *)
LEMMA Fewer ==
  ASSUME NEW S, IsFiniteSet(S), NEW T, T \subseteq S
  PROVE  /\ IsFiniteSet(T) /\ Cardinality(T) <= Cardinality(S)
         /\ Cardinality(T) \in Nat /\ Cardinality(S) \in Nat
<1>1. T \in SUBSET S
  OBVIOUS
<1>2. IsFiniteSet(T) /\ Cardinality(T) <= Cardinality(S)
  BY <1>1, FS_Subset
<1> QED
  BY <1>2, FS_CardinalityType

LEMMA OneMore ==
  ASSUME NEW S, IsFiniteSet(S), NEW x
  PROVE  /\ IsFiniteSet(S \cup {x}) /\ Cardinality(S \cup {x}) <= Cardinality(S) + 1
         /\ Cardinality(S \cup {x}) \in Nat /\ Cardinality(S) \in Nat
         /\ x \in S => Cardinality(S \ {x}) = Cardinality(S) - 1
<1>1. Cardinality(S) \in Nat
  BY FS_CardinalityType
<1>2. /\ IsFiniteSet(S \cup {x})
      /\ Cardinality(S \cup {x}) = IF x \in S THEN Cardinality(S) ELSE Cardinality(S) + 1
  BY FS_AddElement
<1>3. x \in S => Cardinality(S \ {x}) = Cardinality(S) - 1
  BY FS_RemoveElement
<1> QED
  BY <1>1, <1>2, <1>3

LEMMA RestartsCounted ==
  ASSUME Base
  PROVE  restarts \in Nat
<1>1. scenario.restarts \in Nat /\ restarts \in 0..scenario.restarts
  BY DEF Base, CountsOK, ScenarioType
<1> QED
  BY <1>1

(* Rotation replaces: what is issued takes the place of what is about to   *)
(* be retired.                                                             *)
LEMMA StandingIssued ==
  ASSUME AccountsAssumption, Base, ChainsOK, [Next]_vars, Alone({"refresh"}),
         NEW q \in Session, Issue(q), Rotates(q),
         NEW f \in DOMAIN tokens, f = tokens[handler[q].ref].family
  PROVE  Cardinality(Standing(f)') <= 1 + restarts
<1> DEFINE ref == handler[q].ref
           new == Len(tokens) + 1
<1>1. /\ IsFiniteSet(LiveIn(f)) /\ IsFiniteSet({new})
      /\ Cardinality({new}) = 1 /\ Cardinality(LiveIn(f)) \in Nat
      /\ restarts \in Nat
  BY LiveFinite, FS_Singleton, FS_CardinalityType, RestartsCounted
<1>2. /\ DOMAIN tokens = 1..Len(tokens) /\ Len(tokens) \in Nat
      /\ DOMAIN tokens' = 1..Len(tokens')
  BY GrowsStep DEF Base, TokensOK, Grows, TokensGrow
<1>3. ref \in 1..Len(tokens)
  BY <1>2 DEF Rotates, Base, HandlersOK, RequestOK
<1>4. ref \in Retiring'
  <2>1. handler' = [handler EXCEPT ![q] = [at |-> "retire", ref |-> ref, n |-> new]]
    BY DEF Issue, Goes, Rotates
  <2>2. handler'[q] = [at |-> "retire", ref |-> ref, n |-> new]
    BY <2>1, OneMoves
  <2>3. handler'[q].at = "retire" /\ handler'[q].ref = ref /\ ref # 0
    BY <2>2 DEF Rotates
  <2>4. ref \in DOMAIN tokens'
    <3>1. Len(tokens') = Len(tokens) + 1
      BY IssueGrows
    <3> QED
      BY <1>2, <1>3, <3>1
  <2> QED
    BY <2>3, <2>4 DEF Retiring, Rotates, At
<1>5. LiveIn(f)' \subseteq LiveIn(f) \cup {new}
  BY <1>2, LiveStep DEF LiveIn
<1>6. Standing(f)' \subseteq (LiveIn(f) \ {ref}) \cup {new}
  BY <1>4, <1>5 DEF Standing
<1>7. IsFiniteSet(LiveIn(f) \ {ref}) /\ IsFiniteSet((LiveIn(f) \ {ref}) \cup {new})
  <2>1. IsFiniteSet(LiveIn(f) \ {ref})
    BY <1>1, FS_RemoveElement
  <2> QED
    BY <2>1, OneMore
<1>8. Cardinality((LiveIn(f) \ {ref}) \cup {new}) <= Cardinality(LiveIn(f) \ {ref}) + 1
  BY <1>7, OneMore
<1>9. Cardinality(Standing(f)') <= Cardinality(LiveIn(f) \ {ref}) + 1
  <2>1. /\ Cardinality(Standing(f)') <= Cardinality((LiveIn(f) \ {ref}) \cup {new})
        /\ Cardinality(Standing(f)') \in Nat
        /\ Cardinality((LiveIn(f) \ {ref}) \cup {new}) \in Nat
        /\ Cardinality(LiveIn(f) \ {ref}) \in Nat
    BY <1>6, <1>7, Fewer, FS_CardinalityType
  <2> QED
    BY <1>8, <2>1
<1>10. CASE ref \in LiveIn(f)
  <2>1. Cardinality(LiveIn(f) \ {ref}) = Cardinality(LiveIn(f)) - 1
    BY <1>1, <1>10, OneMore
  <2>2. LiveIn(f) = Standing(f)
    <3>1. \A s \in Session : At(s, "retire") /\ Rotates(s) => FALSE
      BY DEF ChainsOK, Issue, At
    <3> QED
      BY <3>1 DEF Standing, Retiring
  <2>3. Cardinality(LiveIn(f)) <= 1 + restarts
    BY <2>2 DEF ChainsOK, Standing
  <2>4. Cardinality(Standing(f)') \in Nat
    BY <1>6, <1>7, Fewer
  <2> QED
    BY <1>1, <1>9, <2>1, <2>3, <2>4
<1>11. CASE ref \notin LiveIn(f)
  <2>1. HoldsChain(q)
    BY DEF ChainsOK
  <2>2. LiveIn(f) = {}
    BY <1>11, <2>1 DEF HoldsChain, Issue
  <2>3. LiveIn(f) \ {ref} = {}
    BY <2>2
  <2>4. Cardinality(LiveIn(f) \ {ref}) = 0
    BY <2>3, FS_EmptySet
  <2>5. Cardinality(Standing(f)') \in Nat
    BY <1>6, <1>7, Fewer
  <2> QED
    BY <1>1, <1>9, <2>4, <2>5
<1> QED
  BY <1>10, <1>11

(* A crash leaves the one token behind that was about to be retired.       *)
LEMMA StandingLeft ==
  ASSUME AccountsAssumption, Base, ChainsOK, [Next]_vars, Alone({"refresh"}), Restart,
         NEW f \in DOMAIN tokens
  PROVE  Cardinality(Standing(f)') <= 1 + restarts'
<1>1. Standing(f)' \subseteq Standing(f) \cup Retiring
  <2>1. LiveIn(f)' = LiveIn(f)
    BY DEF Restart, LiveIn, Live
  <2> QED
    BY <2>1 DEF Standing
<1>2. /\ IsFiniteSet(Standing(f)) /\ IsFiniteSet(Retiring)
      /\ Cardinality(Standing(f)) \in Nat /\ Cardinality(Retiring) \in Nat
      /\ Cardinality(Retiring) <= 1
  BY LiveFinite, RetiringIsOne, FS_CardinalityType
<1>3. /\ IsFiniteSet(Standing(f) \cup Retiring)
      /\ Cardinality(Standing(f) \cup Retiring) <= Cardinality(Standing(f)) + Cardinality(Retiring)
  <2>1. IsFiniteSet(Standing(f) \cap Retiring)
    BY <1>2, FS_Subset
  <2>2. Cardinality(Standing(f) \cap Retiring) \in Nat
    BY <2>1, FS_CardinalityType
  <2>3. /\ IsFiniteSet(Standing(f) \cup Retiring)
        /\ Cardinality(Standing(f) \cup Retiring) =
             Cardinality(Standing(f)) + Cardinality(Retiring) - Cardinality(Standing(f) \cap Retiring)
    BY <1>2, FS_Union
  <2> QED
    BY <1>2, <2>2, <2>3
<1>4. /\ Cardinality(Standing(f)') <= Cardinality(Standing(f) \cup Retiring)
      /\ Cardinality(Standing(f)') \in Nat /\ Cardinality(Standing(f) \cup Retiring) \in Nat
  BY <1>1, <1>3, Fewer
<1>5. Cardinality(Standing(f)) <= 1 + restarts /\ restarts \in Nat /\ restarts' = restarts + 1
  BY RestartsCounted DEF ChainsOK, Standing, Restart
<1> QED
  BY <1>2, <1>3, <1>4, <1>5

LEMMA ChainsStep ==
  ASSUME AccountsAssumption, Base, ChainsOK, [Next]_vars
  PROVE  ChainsOK'
<1>1. UNCHANGED scenario /\ Alone({"refresh"})' = Alone({"refresh"})
  BY AloneKept
<1>2. ASSUME NEW s \in Session, Rotates(s)' PROVE ("refresh" \in scenario.routes[s])'
  BY <1>1, <1>2, RotatesStep DEF ChainsOK, Calls
<1>3. ASSUME Alone({"refresh"}), NEW f \in DOMAIN tokens'
      PROVE  Cardinality(Standing(f)') <= 1 + restarts'
  <2>1. /\ DOMAIN tokens = 1..Len(tokens) /\ DOMAIN tokens' = 1..Len(tokens')
        /\ Len(tokens) \in Nat /\ Len(tokens') \in Nat /\ restarts' \in Nat
        /\ \A t \in 1..Len(tokens') : tokens'[t].family \in 1..t
    <3>1. TokensOK /\ TokensOK'
      BY GrowsStep DEF Base, Grows, TokensGrow
    <3>2. /\ DOMAIN tokens = 1..Len(tokens) /\ DOMAIN tokens' = 1..Len(tokens')
          /\ Len(tokens) \in Nat /\ Len(tokens') \in Nat
      BY <3>1 DEF TokensOK
    <3>3. \A t \in 1..Len(tokens') : tokens'[t].family \in 1..t
      BY <3>1 DEF TokensOK
    <3>4. scenario'.restarts \in Nat /\ restarts' \in 0..scenario'.restarts
      BY CountsStep DEF CountsOK, ScenarioType
    <3> QED
      BY <3>2, <3>3, <3>4
  <2>2. CASE f \notin DOMAIN tokens
    <3>1. LiveIn(f)' \subseteq {f}
      <4>1. ASSUME NEW t \in LiveIn(f)' PROVE t = f
        <5>1. t \in 1..Len(tokens') /\ tokens'[t].family = f /\ Live(t)'
          BY <2>1, <4>1 DEF LiveIn
        <5>2. t \notin 1..Len(tokens)
          <6> SUFFICES ASSUME t \in 1..Len(tokens) PROVE FALSE
            OBVIOUS
          <6>1. tokens'[t].family \in 1..Len(tokens)
            BY <2>1, <5>1
          <6> QED
            BY <2>1, <2>2, <5>1, <6>1
        <5>3. t = Len(tokens) + 1 /\ Len(tokens') = t
          BY <5>1, <5>2, LiveStep
        <5> QED
          BY <1>3, <2>1, <2>2, <5>3
      <4> QED
        BY <4>1
    <3>2. Standing(f)' \subseteq {f}
      BY <3>1 DEF Standing
    <3>3. Cardinality(Standing(f)') \in Nat /\ Cardinality(Standing(f)') <= 1
      <4>1. IsFiniteSet({f}) /\ Cardinality({f}) = 1
        BY FS_Singleton
      <4>2. /\ Cardinality(Standing(f)') \in Nat
            /\ Cardinality(Standing(f)') <= Cardinality({f})
        BY <3>2, <4>1, Fewer
      <4> QED
        BY <4>1, <4>2
    <3> QED
      BY <2>1, <3>3
  <2>3. CASE f \in DOMAIN tokens /\ Restart
    BY <1>3, <2>3, StandingLeft
  <2>4. CASE f \in DOMAIN tokens /\ ~Restart
    <3>1. restarts' = restarts
      BY <2>4 DEF Next, vars
    <3>2. CASE \E q \in Session : Issue(q) /\ Rotates(q) /\ f = tokens[handler[q].ref].family
      BY <1>3, <2>4, <3>1, <3>2, StandingIssued
    <3>3. CASE ~\E q \in Session : Issue(q) /\ Rotates(q) /\ f = tokens[handler[q].ref].family
      <4>1. LiveIn(f)' \subseteq LiveIn(f)
        <5>1. ASSUME NEW t \in LiveIn(f)' PROVE t \in LiveIn(f)
          <6>1. t \in 1..Len(tokens') /\ tokens'[t].family = f /\ Live(t)'
            BY <2>1, <5>1 DEF LiveIn
          <6>2. t = Len(tokens) + 1 => f # t
            BY <2>1, <2>4
          <6> QED
            BY <2>1, <3>3, <6>1, <6>2, LiveStep DEF LiveIn
        <5> QED
          BY <5>1
      <4>2. ASSUME NEW t \in Standing(f)' PROVE t \notin Retiring
        <5>1. t \in LiveIn(f) /\ t \in LiveIn(f)' /\ t \notin Retiring'
          BY <4>1, <4>2 DEF Standing
        <5>2. SUFFICES ASSUME NEW s \in Session, At(s, "retire"), Rotates(s), handler[s].ref = t
                       PROVE  FALSE
          BY DEF Retiring
        <5>3. handler'[s] # handler[s]
          BY <5>1, <5>2 DEF Retiring, Rotates, At, LiveIn
        <5>4. Retire(s)
          BY <2>4, <5>2, <5>3, RetiringStays
        <5>5. tokens'[t].revoked
          BY <5>2, <5>4, RetireGrows
        <5> QED
          BY <5>1, <5>5 DEF LiveIn, Live
      <4>3. Standing(f)' \subseteq Standing(f)
        BY <4>1, <4>2 DEF Standing
      <4>4. /\ Cardinality(Standing(f)') <= Cardinality(Standing(f))
            /\ Cardinality(Standing(f)') \in Nat /\ Cardinality(Standing(f)) \in Nat
        BY <4>3, LiveFinite, Fewer
      <4>5. Cardinality(Standing(f)) <= 1 + restarts /\ restarts \in Nat
        BY <1>3, <2>4, RestartsCounted DEF ChainsOK, Standing
      <4> QED
        BY <3>1, <4>4, <4>5
    <3> QED
      BY <3>2, <3>3
  <2> QED
    BY <2>2, <2>3, <2>4
<1>4. ASSUME Alone({"refresh"}), NEW r \in Session, NEW s \in Session, Rotates(r)', Rotates(s)'
      PROVE  r = s
  BY <1>4, OneRotates
<1>5. ASSUME Alone({"refresh"}), NEW s \in Session, Rotates(s)' PROVE HoldsChain(s)'
  BY <1>5, HoldsStep
<1> QED
  BY <1>1, <1>2, <1>3, <1>4, <1>5 DEF ChainsOK, Standing

(* Rotation leaves one live token in a family, one more for each crash     *)
(* between issuing and retiring, and one more while a refresh is under     *)
(* way - if only one client refreshes, or requests do not overlap.         *)
THEOREM RotationLeavesOne == Spec => []OneChainPerFamily
<1>1. Init => ChainsOK
  <2> SUFFICES ASSUME Init PROVE ChainsOK
    OBVIOUS
  <2>1. \A s \in Session : ~Rotates(s)
    BY DEF Init, Rotates, Idle
  <2>2. DOMAIN tokens \subseteq {1} /\ restarts = 0
    BY DEF Init
  <2>3. ASSUME NEW f PROVE Cardinality(LiveIn(f) \ Retiring) <= 1
    <3>1. LiveIn(f) \ Retiring \subseteq {1}
      BY <2>2 DEF LiveIn
    <3> QED
      <4>1. IsFiniteSet({1}) /\ Cardinality({1}) = 1
        BY FS_Singleton
      <4>2. Cardinality(LiveIn(f) \ Retiring) <= Cardinality({1})
        BY <3>1, <4>1, Fewer
      <4> QED
        BY <4>1, <4>2
  <2> QED
    BY <2>1, <2>2, <2>3 DEF ChainsOK
<1>2. Base /\ ChainsOK /\ [Next]_vars => ChainsOK'
  BY ChainsStep, AccountsAssumption
<1>3. Base /\ ChainsOK => OneChainPerFamily
  <2> SUFFICES ASSUME Base, ChainsOK, Alone({"refresh"}), NEW f \in DOMAIN tokens
               PROVE  Cardinality(LiveIn(f)) <= 1 + restarts + Cardinality(Rotating(f))
    BY DEF OneChainPerFamily
  <2>1. /\ IsFiniteSet(LiveIn(f)) /\ IsFiniteSet(Standing(f)) /\ IsFiniteSet(Rotating(f))
        /\ Cardinality(Standing(f)) \in Nat /\ Cardinality(Rotating(f)) \in Nat
        /\ restarts \in Nat /\ Cardinality(LiveIn(f)) \in Nat
    BY LiveFinite, AccountsAssumption, FS_Subset, FS_CardinalityType
       DEF Rotating, AccountsAssumption, Base, CountsOK, ScenarioType
  <2>2. Cardinality(Standing(f)) <= 1 + restarts
    BY DEF ChainsOK, Standing
  <2>3. CASE LiveIn(f) \cap Retiring = {}
    <3>1. LiveIn(f) = Standing(f)
      BY <2>3 DEF Standing
    <3> QED
      BY <2>1, <2>2, <3>1
  <2>4. ASSUME NEW t \in LiveIn(f) \cap Retiring
        PROVE  Cardinality(LiveIn(f)) <= 1 + restarts + Cardinality(Rotating(f))
    <3>1. Retiring = {t}
      BY <2>4, RetiringIsOne, AccountsAssumption
    <3>2. LiveIn(f) = Standing(f) \cup {t}
      BY <2>4, <3>1 DEF Standing
    <3>3. Cardinality(LiveIn(f)) <= Cardinality(Standing(f)) + 1
      BY <2>1, <3>2, FS_AddElement
    <3>4. PICK s \in Session : Rotates(s) /\ handler[s].ref = t
      BY <2>4 DEF Retiring
    <3>5. s \in Rotating(f)
      BY <2>4, <3>4 DEF Rotating, Rotates, LiveIn
    <3>6. Cardinality(Rotating(f)) # 0
      BY <2>1, <3>5, FS_EmptySet
    <3> QED
      BY <2>1, <2>2, <3>3, <3>6
  <2> QED
    BY <2>3, <2>4
<1> QED
  BY <1>1, <1>2, <1>3, BaseAlways, PTL DEF Spec

-----------------------------------------------------------------------------
(* Where a step leads *)

LEMMA Lands ==
  ASSUME Base, NEW s \in Session, NEW step, NEW ref, NEW n, Goes(s, step, ref, n)
  PROVE  handler'[s].at = step /\ handler'[s].ref = ref /\ handler'[s].n = n
<1>1. handler' = [handler EXCEPT ![s] = [at |-> step, ref |-> ref, n |-> n]]
  BY DEF Goes
<1>2. handler'[s] = [at |-> step, ref |-> ref, n |-> n]
  BY <1>1, OneMoves
<1> QED
  BY <1>2

LEMMA Leaves ==
  ASSUME Base, NEW s \in Session, Done(s)
  PROVE  handler'[s].at = "idle"
<1>1. handler'[s] = Idle
  BY OneMoves DEF Done
<1> QED
  BY <1>1 DEF Idle

(* The steps that no count and no code depends on.                         *)
Plain ==
  {"idle", "welcome", "issue", "retire", "end_family", "by_email", "link", "create", "reset"}

Counts(s) ==
  /\ Calls(s, "login") /\ account.locked # "locked"
  /\ handler'[s].at = "count" /\ handler'[s].n = account.failed

Asks(s, kind) ==
  /\ \E route \in Asking(kind) : Calls(s, route)
  /\ handler'[s].at = ReplaceStep(kind)

Opens(s, kind) ==
  /\ At(s, ReplaceStep(kind))
  /\ handler'[s].at = InsertStep(kind) /\ handler'[s].n = Len(codes)

Guesses(s) ==
  /\ \E route \in {"verify", "confirm"} : Calls(s, route)
  /\ \E kind \in Kinds, i \in DOMAIN codes :
       /\ MayGuess(kind, i)
       /\ handler'[s].at \in {"right", "wrong"}
       /\ handler'[s].ref = i /\ handler'[s].n = codes[i].attempts

(* A request that comes to a step that counts or replaces has only read,   *)
(* and what it read is what it keeps.                                      *)
LEMMA WhereTo ==
  ASSUME AccountsAssumption, Base, NEW s \in Session, Takes(s)
  PROVE  \/ UNCHANGED handler
         \/ handler'[s].at \in Plain
         \/ /\ UNCHANGED <<account, strikes, codes>>
            /\ Counts(s) \/ Guesses(s) \/ \E kind \in Kinds : Asks(s, kind) \/ Opens(s, kind)
<1> DEFINE Goal ==
             \/ UNCHANGED handler
             \/ handler'[s].at \in Plain
             \/ /\ UNCHANGED <<account, strikes, codes>>
                /\ Counts(s) \/ Guesses(s) \/ \E kind \in Kinds : Asks(s, kind) \/ Opens(s, kind)
<1>1. ASSUME Done(s) PROVE Goal
  BY <1>1, Leaves DEF Plain
<1>2. ASSUME NEW step \in Plain, NEW ref, NEW n, Goes(s, step, ref, n) PROVE Goal
  BY <1>2, Lands
<1>3. {"idle", "welcome", "issue", "retire", "end_family", "by_email", "link", "create", "reset"}
        \subseteq Plain
  BY DEF Plain
<1>4. UNCHANGED handler => Goal
  OBVIOUS
<1>5. CASE Reads(s) /\ UNCHANGED Tables
  <2>1. ASSUME NEW p \in Passwords, Calls(s, "login"), Login(s, p) PROVE Goal
    <3>1. CASE Goes(s, "welcome", 0, 0)
      BY <1>2, <1>3, <3>1
    <3>2. CASE Goes(s, "count", 0, account.failed)
      <4>1. handler'[s].at = "count" /\ handler'[s].n = account.failed
        BY <3>2, Lands
      <4>2. UNCHANGED <<account, strikes, codes>>
        BY <1>5 DEF Tables
      <4> QED
        BY <2>1, <4>1, <4>2 DEF Login, Counts
    <3> QED
      BY <2>1, <3>1, <3>2 DEF Login
  <2>2. ASSUME \/ \E t \in DOMAIN tokens : Refresh(s, t) \/ Logout(s, t)
               \/ \E subject \in Subject : GoogleSignIn(s, subject)
               \/ ByEmail(s) \/ ResetPassword(s)
        PROVE  Goal
    BY <1>1, <1>2, <1>3, <2>2 DEF Refresh, Logout, GoogleSignIn, ByEmail, ResetPassword
  <2>3. ASSUME NEW kind \in Kinds, ReplaceCodes(s, kind) PROVE Goal
    <3>1. CASE Done(s)
      BY <1>1, <3>1
    <3>2. CASE Goes(s, InsertStep(kind), 0, Len(codes))
      <4>1. handler'[s].at = InsertStep(kind) /\ handler'[s].n = Len(codes)
        BY <3>2, Lands
      <4> QED
        BY <2>3, <4>1 DEF ReplaceCodes, CodesOnly, Opens, ReplaceStep
    <3> QED
      BY <2>3, <3>1, <3>2 DEF ReplaceCodes, InsertStep
  <2>4. ASSUME Calls(s, "request_reset"), RequestReset(s) PROVE Goal
    <3>1. handler'[s].at = "replace_reset"
      BY <2>4, Lands DEF RequestReset
    <3>2. Asks(s, "reset")
      BY <2>4, <3>1 DEF Asks, Asking, ReplaceStep
    <3> QED
      BY <2>4, <3>2 DEF RequestReset, CodesOnly, Kinds
  <2>5. ASSUME Calls(s, "send"), SendEmailCode(s) PROVE Goal
    <3>1. handler'[s].at = "replace_email"
      BY <2>5, Lands DEF SendEmailCode
    <3>2. Asks(s, "email")
      BY <2>5, <3>1 DEF Asks, Asking, ReplaceStep
    <3> QED
      BY <2>5, <3>2 DEF SendEmailCode, CodesOnly, Kinds
  <2>6. ASSUME NEW kind \in Kinds, NEW right \in BOOLEAN, Guess(s, kind, right),
               \E route \in {"verify", "confirm"} : Calls(s, route)
        PROVE  Goal
    <3>1. PICK i \in DOMAIN codes :
                 /\ MayGuess(kind, i)
                 /\ Goes(s, IF right THEN "right" ELSE "wrong", i, codes[i].attempts)
      BY <2>6 DEF Guess
    <3>2. /\ handler'[s].at = IF right THEN "right" ELSE "wrong"
          /\ handler'[s].ref = i /\ handler'[s].n = codes[i].attempts
      BY <3>1, Lands
    <3>3. Guesses(s)
      BY <2>6, <3>1, <3>2 DEF Guesses
    <3> QED
      BY <2>6, <3>3 DEF Guess, CodesOnly
  <2> QED
    BY <1>5, <2>1, <2>2, <2>3, <2>4, <2>5, <2>6 DEF Reads, Kinds
<1>6. CASE WritesAccount(s)
  BY <1>1, <1>2, <1>3, <1>4, <1>6 DEF WritesAccount, Register, CountFailure, Welcome,
     CreateFromGoogle, ReinstateUser
<1>7. CASE WritesTokens(s)
  BY <1>1, <1>2, <1>3, <1>4, <1>7 DEF WritesTokens, Issue, Retire, EndFamily, Link, SuspendUser
<1>8. CASE WritesCodes(s) \/ CommitReset(s)
  BY <1>1, <1>8 DEF WritesCodes, InsertCode, WrongCode, RightResetCode, RightEmailCode, CommitReset
<1> QED
  BY <1>5, <1>6, <1>7, <1>8 DEF Takes

(* Of a request that is somewhere else than before: it has taken a step,   *)
(* and it alone.                                                           *)
LEMMA Arrives ==
  ASSUME AccountsAssumption, Base, [Next]_vars, NEW s \in Session,
         handler'[s] # handler[s], handler'[s].at \notin Plain
  PROVE  /\ Takes(s) /\ \A r \in Session \ {s} : handler'[r] = handler[r]
         /\ UNCHANGED <<account, strikes, codes>>
         /\ Counts(s) \/ Guesses(s) \/ \E kind \in Kinds : Asks(s, kind) \/ Opens(s, kind)
<1>1. ~Restart
  BY DEF Restart, Idle, Plain
<1>2. Takes(s) /\ \A r \in Session \ {s} : handler'[r] = handler[r]
  BY <1>1, WhoMoves
<1> QED
  BY <1>2, WhereTo

(* If a request that does not overlap its like begins, no other of its     *)
(* kind is under way.                                                      *)
LEMMA OnlyOne ==
  ASSUME AccountsAssumption, NEW routes, Alone(routes),
         NEW q \in Session, NEW route \in routes, Calls(q, route),
         NEW p \in Session, ~At(p, "idle"), scenario.routes[p] \cap routes # {}
  PROVE  p = q
<1>1. ~scenario.serial /\ route \in scenario.routes[q]
  BY DEF Calls
<1>2. scenario.routes[q] \cap routes # {}
  BY <1>1
<1> QED
  BY <1>1, <1>2, AloneMeans

-----------------------------------------------------------------------------
(* One code of a kind is open *)

(* A row is opened by a commit that retires the ones its request has seen; *)
(* nothing else opens one.                                                 *)
LEMMA OpenStep ==
  ASSUME AccountsAssumption, Base, [Next]_vars, NEW kind \in Kinds
  PROVE  \/ Open(kind)' \subseteq Open(kind)
         \/ \E q \in Session :
              /\ InsertCode(q, kind)
              /\ \A i \in Open(kind)' : i = Len(codes) + 1 \/ (i \in Open(kind) /\ i > handler[q].n)
<1>1. DOMAIN codes = 1..Len(codes) /\ Len(codes) \in Nat /\ DOMAIN codes' = 1..Len(codes')
  BY GrowsStep DEF Base, CountsOK, Grows, CodesGrow
<1>2. \A i \in 1..Len(codes) : codes[i] \in CodeRow
  BY DEF Base, CountsOK
<1>3. ASSUME UNCHANGED codes PROVE Open(kind)' \subseteq Open(kind)
  BY <1>3 DEF Open
<1>4. ASSUME Len(codes') = Len(codes),
             \A i \in 1..Len(codes) : codes'[i].kind = codes[i].kind
                                      /\ (codes'[i].status = "open" => codes[i].status = "open")
      PROVE  Open(kind)' \subseteq Open(kind)
  BY <1>1, <1>4 DEF Open
<1>5. ASSUME NEW q \in Session, NEW k \in Kinds, InsertCode(q, k)
      PROVE  \/ Open(kind)' \subseteq Open(kind)
             \/ /\ InsertCode(q, kind)
                /\ \A i \in Open(kind)' :
                     i = Len(codes) + 1 \/ (i \in Open(kind) /\ i > handler[q].n)
  <2>1. /\ Len(codes') = Len(codes) + 1
        /\ \A i \in 1..Len(codes) :
             codes'[i] = IF i <= handler[q].n /\ i \in Open(k)
                         THEN [codes[i] EXCEPT !.status = "retired"] ELSE codes[i]
        /\ codes'[Len(codes) + 1] = NewCode(k)
    BY <1>5, InsertWrites
  <2>2. \A row \in CodeRow : /\ [row EXCEPT !.status = "retired"].kind = row.kind
                             /\ [row EXCEPT !.status = "retired"].status = "retired"
    BY DEF CodeRow
  <2>3. \A i \in 1..Len(codes) :
          /\ codes'[i].kind = codes[i].kind
          /\ codes'[i].status = "open" => codes[i].status = "open" /\ ~(i <= handler[q].n /\ i \in Open(k))
    BY <1>2, <2>1, <2>2
  <2>4. codes'[Len(codes) + 1].kind = k
    BY <2>1 DEF NewCode
  <2>5. CASE k # kind
    <3>1. ASSUME NEW i \in Open(kind)' PROVE i \in Open(kind)
      <4>1. i \in 1..(Len(codes) + 1) /\ codes'[i].kind = kind /\ codes'[i].status = "open"
        BY <1>1, <2>1, <3>1 DEF Open
      <4>2. i \in 1..Len(codes)
        BY <1>1, <2>4, <2>5, <4>1
      <4> QED
        BY <1>1, <2>3, <4>1, <4>2 DEF Open
    <3> QED
      BY <3>1
  <2>6. CASE k = kind
    <3>1. ASSUME NEW i \in Open(kind)'
          PROVE  i = Len(codes) + 1 \/ (i \in Open(kind) /\ i > handler[q].n)
      <4>1. i \in 1..(Len(codes) + 1) /\ codes'[i].kind = kind /\ codes'[i].status = "open"
        BY <1>1, <2>1, <3>1 DEF Open
      <4>2. SUFFICES ASSUME i \in 1..Len(codes) PROVE i \in Open(kind) /\ i > handler[q].n
        BY <1>1, <4>1
      <4>3. i \in Open(kind)
        BY <1>1, <2>3, <4>1, <4>2 DEF Open
      <4>4. handler[q].n \in Nat
        BY DEF Base, HandlersOK, Request
      <4> QED
        BY <1>1, <2>3, <2>6, <4>1, <4>2, <4>3, <4>4
    <3> QED
      BY <1>5, <2>6, <3>1
  <2> QED
    BY <2>5, <2>6
<1>6. ASSUME NEW q \in Session, WrongCode(q) PROVE Open(kind)' \subseteq Open(kind)
  <2>1. handler[q].n \in Nat
    BY DEF Base, HandlersOK, Request
  <2>2. \A row \in CodeRow : /\ Guessed(row, handler[q].n).kind = row.kind
                             /\ Guessed(row, handler[q].n).status = row.status
    BY <2>1, GuessedRow
  <2>3. /\ Len(codes') = Len(codes)
        /\ \A i \in 1..Len(codes) :
             codes'[i] = codes[i] \/ codes'[i] = Guessed(codes[i], handler[q].n)
    BY <1>6, WrongWrites
  <2> QED
    BY <1>2, <1>4, <2>2, <2>3
<1>7. ASSUME NEW q \in Session, RightResetCode(q) PROVE Open(kind)' \subseteq Open(kind)
  <2>1. \A row \in CodeRow : Verified(row).kind = row.kind /\ Verified(row).status = row.status
    BY DEF CodeRow, Verified
  <2> QED
    BY <1>2, <1>4, <1>7, <2>1, VerifiedWrites
<1>8. ASSUME NEW q \in Session, RightEmailCode(q) \/ CommitReset(q)
      PROVE  Open(kind)' \subseteq Open(kind)
  <2>1. \A row \in CodeRow : /\ [row EXCEPT !.status = "spent"].kind = row.kind
                             /\ [row EXCEPT !.status = "spent"].status = "spent"
    BY DEF CodeRow
  <2>2. Len(codes') = Len(codes)
    BY <1>8, SpentWrites
  <2>3. \A i \in 1..Len(codes) :
          codes'[i] = codes[i] \/ codes'[i] = [codes[i] EXCEPT !.status = "spent"]
    BY <1>8, SpentWrites
  <2> QED
    BY <1>2, <1>4, <2>1, <2>2, <2>3
<1>9. ASSUME NEW i \in DOMAIN codes, CooldownPasses(i) PROVE Open(kind)' \subseteq Open(kind)
  <2>1. \A row \in CodeRow : /\ [row EXCEPT !.recent = FALSE].kind = row.kind
                             /\ [row EXCEPT !.recent = FALSE].status = row.status
    BY DEF CodeRow
  <2> QED
    BY <1>2, <1>4, <1>9, <2>1, CooldownWrites
<1>10. ASSUME NEW q \in Session, WritesAccount(q) \/ WritesTokens(q)
       PROVE  Open(kind)' \subseteq Open(kind)
  BY <1>3, <1>10 DEF WritesAccount, WritesTokens
<1>11. UNCHANGED Tables \/ Restart \/ (LockPasses /\ UNCHANGED codes)
         => Open(kind)' \subseteq Open(kind)
  BY <1>3 DEF Tables, Restart
<1>12. ASSUME NEW q \in Session, WritesCodes(q)
       PROVE  \/ Open(kind)' \subseteq Open(kind)
              \/ \E p \in Session :
                   /\ InsertCode(p, kind)
                   /\ \A i \in Open(kind)' :
                        i = Len(codes) + 1 \/ (i \in Open(kind) /\ i > handler[p].n)
  BY <1>5, <1>6, <1>7, <1>8, <1>12 DEF WritesCodes
<1>13. ASSUME Passes PROVE Open(kind)' \subseteq Open(kind)
  BY <1>9, <1>11, <1>13 DEF Passes
<1> DEFINE Goal ==
             \/ Open(kind)' \subseteq Open(kind)
             \/ \E q \in Session :
                  /\ InsertCode(q, kind)
                  /\ \A i \in Open(kind)' :
                       i = Len(codes) + 1 \/ (i \in Open(kind) /\ i > handler[q].n)
<1>14. Open(kind)' \subseteq Open(kind) => Goal
  OBVIOUS
<1>15. ASSUME NEW q \in Session, WritesCodes(q) PROVE Goal
  BY <1>12, <1>15
<1>16. ASSUME NEW q \in Session, WritesAccount(q) \/ WritesTokens(q) \/ CommitReset(q) PROVE Goal
  BY <1>8, <1>10, <1>14, <1>16
<1>17. ASSUME UNCHANGED Tables \/ Passes \/ Restart PROVE Goal
  BY <1>11, <1>13, <1>14, <1>17
<1>18. UNCHANGED <<Tables, handler>> => UNCHANGED Tables
  BY DEF Tables
<1> HIDE DEF Goal
<1>19. Goal
  BY <1>15, <1>16, <1>17, <1>18, StepKinds
<1> QED
  BY <1>19 DEF Goal

LEMMA OneOpenStep ==
  ASSUME AccountsAssumption, Base, [Next]_vars, NEW kind \in Kinds, OneOpen(kind)
  PROVE  OneOpen(kind)'
<1>1. UNCHANGED scenario /\ Alone(Asking(kind))' = Alone(Asking(kind))
  BY AloneKept
<1>2. DOMAIN codes = 1..Len(codes) /\ Len(codes) \in Nat
  BY DEF Base, CountsOK
<1>3. ASSUME NEW s \in Session, Replaces(s, kind)'
      PROVE  \/ handler'[s] = handler[s] /\ Replaces(s, kind)
             \/ /\ UNCHANGED codes /\ \A r \in Session \ {s} : handler'[r] = handler[r]
                /\ \/ Asks(s, kind)
                   \/ Opens(s, kind) /\ Replaces(s, kind)
  <2>1. CASE handler'[s] = handler[s]
    BY <1>3, <2>1 DEF Replaces
  <2>2. CASE handler'[s] # handler[s]
    <3>1. handler'[s].at \notin Plain
      BY <1>3 DEF Replaces, ReplaceStep, InsertStep, Plain
    <3>2. ~Counts(s) /\ ~Guesses(s)
      BY <1>3 DEF Counts, Guesses, Replaces, ReplaceStep, InsertStep
    <3>3. \A k \in Kinds \ {kind} : ~Asks(s, k) /\ ~Opens(s, k)
      BY <1>3 DEF Kinds, Asks, Opens, Replaces, ReplaceStep, InsertStep
    <3>4. Opens(s, kind) => Replaces(s, kind)
      BY DEF Opens, At, Replaces
    <3> QED
      BY <2>2, <3>1, <3>2, <3>3, <3>4, Arrives
  <2> QED
    BY <2>1, <2>2
<1>4. ASSUME NEW s \in Session, Replaces(s, kind)' PROVE (scenario.routes[s] \cap Asking(kind) # {})'
  <2>1. scenario.routes[s] \cap Asking(kind) # {}
    <3>1. CASE Replaces(s, kind)
      BY <3>1 DEF OneOpen
    <3>2. CASE Asks(s, kind)
      BY <3>2 DEF Asks, Calls
    <3> QED
      BY <1>3, <1>4, <3>1, <3>2
  <2> QED
    BY <1>1, <2>1
<1>5. ASSUME Alone(Asking(kind)), NEW r \in Session, NEW s \in Session,
             Replaces(r, kind)', Replaces(s, kind)'
      PROVE  r = s
  <2>1. ASSUME NEW p \in Session, NEW q \in Session, Asks(q, kind), Replaces(p, kind)',
               \A o \in Session \ {q} : handler'[o] = handler[o]
        PROVE  p = q
    <3>1. SUFFICES ASSUME p # q PROVE FALSE
      OBVIOUS
    <3>2. Replaces(p, kind)
      BY <2>1, <3>1 DEF Replaces
    <3>3. ~At(p, "idle") /\ scenario.routes[p] \cap Asking(kind) # {}
      BY <3>2 DEF Replaces, ReplaceStep, InsertStep, At, OneOpen
    <3> QED
      BY <1>5, <2>1, <3>1, <3>3, OnlyOne DEF Asks
  <2>2. CASE Replaces(r, kind) /\ Replaces(s, kind)
    BY <1>5, <2>2 DEF OneOpen
  <2> QED
    BY <1>3, <1>5, <2>1, <2>2
<1>6. ASSUME Alone(Asking(kind)), NEW i \in Open(kind)', NEW j \in Open(kind)'
      PROVE  i = j
  <2>1. CASE Open(kind)' \subseteq Open(kind)
    BY <1>6, <2>1 DEF OneOpen
  <2>2. ASSUME NEW q \in Session, InsertCode(q, kind),
               \A k \in Open(kind)' : k = Len(codes) + 1 \/ (k \in Open(kind) /\ k > handler[q].n)
        PROVE  i = j
    <3>1. \A k \in Open(kind) : k <= handler[q].n
      BY <1>6, <2>2 DEF OneOpen, InsertCode, InsertStep, At
    <3>2. handler[q].n \in Nat /\ Open(kind) \subseteq 1..Len(codes)
      BY <1>2 DEF Base, HandlersOK, Request, Open
    <3>3. \A k \in Open(kind)' : k = Len(codes) + 1
      BY <1>2, <2>2, <3>1, <3>2
    <3> QED
      BY <1>6, <3>3
  <2> QED
    BY <2>1, <2>2, OpenStep
<1>7. ASSUME Alone(Asking(kind)), NEW s \in Session, handler'[s].at = InsertStep(kind),
             NEW i \in Open(kind)'
      PROVE  i <= handler'[s].n
  <2>1. Replaces(s, kind)'
    BY <1>7 DEF Replaces
  <2>2. CASE handler'[s] = handler[s] /\ Replaces(s, kind)
    <3>1. CASE i \in Open(kind)
      BY <1>7, <2>2, <3>1 DEF OneOpen
    <3>2. ASSUME NEW q \in Session, InsertCode(q, kind) PROVE FALSE
      <4>1. Replaces(q, kind) /\ handler'[q].at = "idle"
        BY <3>2, Leaves DEF InsertCode, At, Replaces, InsertStep
      <4>2. q = s
        BY <1>7, <2>2, <4>1 DEF OneOpen
      <4> QED
        BY <1>7, <4>1, <4>2 DEF InsertStep
    <3> QED
      BY <1>7, <3>1, <3>2, OpenStep
  <2>3. CASE UNCHANGED codes /\ Opens(s, kind)
    BY <1>2, <1>7, <2>3 DEF Opens, Open
  <2>4. ~Asks(s, kind)
    BY <1>7 DEF Asks, ReplaceStep, InsertStep
  <2> QED
    BY <1>3, <2>1, <2>2, <2>3, <2>4
<1> QED
  BY <1>1, <1>4, <1>5, <1>6, <1>7 DEF OneOpen

(* Only the newest code can be used: while requests for codes do not       *)
(* overlap there is at most one open, with any overlap of the requests     *)
(* that enter or spend one and wherever the process stops.                 *)
THEOREM OneCodeIsOpen == Spec => []OneUsableCode
<1>1. ASSUME NEW kind \in Kinds PROVE Init => OneOpen(kind)
  <2> SUFFICES ASSUME Init PROVE OneOpen(kind)
    OBVIOUS
  <2>1. \A s \in Session : ~Replaces(s, kind) /\ handler[s].at # InsertStep(kind)
    BY DEF Init, Idle, Replaces, ReplaceStep, InsertStep
  <2>2. Open(kind) = {}
    BY DEF Init, Open
  <2> QED
    BY <2>1, <2>2 DEF OneOpen
<1>2. Init => OneOpen("reset") /\ OneOpen("email")
  BY <1>1 DEF Kinds
<1>3. Base /\ OneOpen("reset") /\ OneOpen("email") /\ [Next]_vars
        => (OneOpen("reset") /\ OneOpen("email"))'
  BY OneOpenStep, AccountsAssumption DEF Kinds
<1>4. Base /\ OneOpen("reset") /\ OneOpen("email") => OneUsableCode
  <2>1. ASSUME NEW kind, \A i, j \in Open(kind) : i = j PROVE Cardinality(Open(kind)) <= 1
    <3>1. CASE Open(kind) = {}
      BY <3>1, FS_EmptySet
    <3>2. ASSUME NEW i \in Open(kind) PROVE Cardinality(Open(kind)) = 1
      <4>1. Open(kind) = {i}
        BY <2>1, <3>2
      <4> QED
        BY <4>1, FS_Singleton
    <3> QED
      BY <3>1, <3>2
  <2> QED
    BY <2>1 DEF OneOpen, OneUsableCode, Asking
<1> QED
  BY <1>2, <1>3, <1>4, BaseAlways, PTL DEF Spec

-----------------------------------------------------------------------------
(* Guesses are counted *)

(* What a step does to the count: nothing, but that a lock may pass; or it *)
(* is clean; or one failure is written.                                    *)
LEMMA CountEffect ==
  ASSUME AccountsAssumption, Base, [Next]_vars
  PROVE  \/ /\ account'.failed = account.failed /\ strikes' = strikes
            /\ account'.locked \in {account.locked, "past"}
         \/ account'.failed = 0 /\ account'.locked = "no" /\ strikes' = 0
         \/ \E s \in Session : CountFailure(s)
<1> DEFINE Kept == /\ account'.failed = account.failed /\ strikes' = strikes
                   /\ account'.locked \in {account.locked, "past"}
           Clean == account'.failed = 0 /\ account'.locked = "no" /\ strikes' = 0
<1>1. account \in AccountRow
  BY DEF Base, AccountOK
<1>2. \A row \in AccountRow :
        /\ CleanCount(row).failed = 0 /\ CleanCount(row).locked = "no"
        /\ [CleanCount(row) EXCEPT !.status = "ACTIVE"].failed = 0
        /\ [CleanCount(row) EXCEPT !.status = "ACTIVE"].locked = "no"
        /\ [CleanCount(row) EXCEPT !.password = "new"].failed = 0
        /\ [CleanCount(row) EXCEPT !.password = "new"].locked = "no"
  BY DEF AccountRow, CleanCount
<1>3. \A row \in AccountRow :
        /\ [row EXCEPT !.verified = TRUE].failed = row.failed
        /\ [row EXCEPT !.verified = TRUE].locked = row.locked
        /\ [row EXCEPT !.status = "SUSPENDED"].failed = row.failed
        /\ [row EXCEPT !.status = "SUSPENDED"].locked = row.locked
        /\ [row EXCEPT !.locked = "past"].failed = row.failed
        /\ [row EXCEPT !.locked = "past"].locked = "past"
  BY DEF AccountRow
<1>4. ASSUME UNCHANGED <<account, strikes>> PROVE Kept
  BY <1>4
<1>5. ASSUME NEW s \in Session, WritesAccount(s) PROVE Kept \/ Clean \/ CountFailure(s)
  <2>1. CASE Register(s) \/ CreateFromGoogle(s)
    <3>1. CASE UNCHANGED account
      BY <1>4, <2>1, <3>1 DEF Register, CreateFromGoogle
    <3>2. CASE ~UNCHANGED account
      <4>1. strikes' = 0
        BY <2>1, <3>2 DEF Register, CreateFromGoogle, Base, AccountOK
      <4>2. account' = [NoAccount EXCEPT !.exists = TRUE, !.password = "old"]
              \/ account' = [NoAccount EXCEPT !.exists = TRUE, !.verified = TRUE]
        BY <2>1, <3>2 DEF Register, CreateFromGoogle
      <4>3. account'.failed = 0 /\ account'.locked = "no"
        BY <4>2 DEF NoAccount
      <4> QED
        BY <4>1, <4>3
    <3> QED
      BY <3>1, <3>2
  <2>2. CASE Welcome(s) \/ ReinstateUser(s)
    BY <1>1, <1>2, <2>2 DEF Welcome, ReinstateUser
  <2> QED
    BY <1>5, <2>1, <2>2 DEF WritesAccount
<1>6. ASSUME NEW s \in Session, WritesTokens(s) PROVE Kept
  <2>1. account' \in {account, [account EXCEPT !.verified = TRUE],
                      [account EXCEPT !.status = "SUSPENDED"]}
    BY <1>6 DEF WritesTokens, Issue, Retire, EndFamily, Link, SuspendUser
  <2>2. strikes' = strikes
    BY <1>6 DEF WritesTokens, Issue, Retire, EndFamily, Link, SuspendUser
  <2> QED
    BY <1>1, <1>3, <2>1, <2>2
<1>7. ASSUME NEW s \in Session, WritesCodes(s) PROVE Kept
  <2>1. account' \in {account, [account EXCEPT !.verified = TRUE]} /\ strikes' = strikes
    BY <1>7 DEF WritesCodes, InsertCode, WrongCode, RightResetCode, RightEmailCode, CodesOnly
  <2> QED
    BY <1>1, <1>3, <2>1
<1>8. ASSUME NEW s \in Session, CommitReset(s) PROVE Clean
  BY <1>1, <1>2, <1>8 DEF CommitReset
<1>9. ASSUME Passes PROVE Kept
  <2>1. account' \in {account, [account EXCEPT !.locked = "past"]} /\ strikes' = strikes
    BY <1>9 DEF Passes, LockPasses, CooldownPasses, CodesOnly
  <2> QED
    BY <1>1, <1>3, <2>1
<1>10. ASSUME Restart \/ UNCHANGED Tables PROVE Kept
  BY <1>4, <1>10 DEF Restart, Tables
<1>11. UNCHANGED <<Tables, handler>> => UNCHANGED Tables
  BY DEF Tables
<1> HIDE DEF Kept, Clean
<1>12. Kept \/ Clean \/ \E s \in Session : CountFailure(s)
  BY <1>5, <1>6, <1>7, <1>8, <1>9, <1>10, <1>11, StepKinds
<1> QED
  BY <1>12 DEF Kept, Clean

LEMMA FailureCounted ==
  ASSUME AccountsAssumption, Base, NEW s \in Session, CountFailure(s)
  PROVE  /\ account'.failed = handler[s].n + 1 /\ strikes' = strikes + 1
         /\ account'.locked = "no" => account'.failed < MaxAttempts
         /\ handler'[s].at = "idle"
<1> DEFINE next == handler[s].n + 1
           lock == IF next >= MaxAttempts THEN "locked" ELSE "no"
<1>1. next \in Nat
  BY DEF Base, HandlersOK, Request
<1>2. account' = [account EXCEPT !.failed = next, !.locked = lock] /\ strikes' = strikes + 1
  BY DEF CountFailure
<1>3. lock = "no" => next < MaxAttempts
  BY <1>1 DEF AccountsAssumption
<1> HIDE DEF lock
<1>4. account'.failed = next /\ account'.locked = lock
  BY <1>2 DEF Base, AccountOK, AccountRow
<1>5. handler'[s].at = "idle"
  BY Leaves DEF CountFailure
<1> QED
  BY <1>2, <1>3, <1>4, <1>5

LEMMA StrikesStep ==
  ASSUME AccountsAssumption, Base, [Next]_vars, StrikesOK
  PROVE  StrikesOK'
<1>0. /\ account.failed \in Nat /\ strikes \in Nat /\ \A s \in Session : handler[s].n \in Nat
      /\ MaxAttempts \in Nat \ {0}
  BY DEF Base, AccountOK, AccountRow, CountsOK, HandlersOK, Request, AccountsAssumption
<1>1. UNCHANGED scenario /\ Alone({"login"})' = Alone({"login"})
  BY AloneKept
<1>2. ASSUME NEW s \in Session, At(s, "count")'
      PROVE  \/ handler'[s] = handler[s] /\ At(s, "count")
             \/ /\ UNCHANGED <<account, strikes>> /\ \A r \in Session \ {s} : handler'[r] = handler[r]
                /\ Counts(s)
  <2>1. CASE handler'[s] = handler[s]
    BY <1>2, <2>1 DEF At
  <2>2. CASE handler'[s] # handler[s]
    <3>1. handler'[s].at \notin Plain
      BY <1>2 DEF At, Plain
    <3>2. ~Guesses(s) /\ \A k \in Kinds : ~Asks(s, k) /\ ~Opens(s, k)
      BY <1>2 DEF At, Guesses, Asks, Opens, ReplaceStep, InsertStep
    <3> QED
      BY <2>2, <3>1, <3>2, Arrives
  <2> QED
    BY <2>1, <2>2
<1>3. (account.locked = "no" => account.failed < MaxAttempts)'
  BY <1>0, CountEffect, FailureCounted DEF StrikesOK
<1>4. ASSUME NEW s \in Session, At(s, "count")' PROVE ("login" \in scenario.routes[s])'
  BY <1>1, <1>2, <1>4 DEF StrikesOK, Counts, Calls
<1>5. ASSUME Alone({"login"}), NEW r \in Session, NEW s \in Session,
             At(r, "count")', At(s, "count")'
      PROVE  r = s
  <2>1. ASSUME NEW p \in Session, NEW q \in Session, Counts(q), At(p, "count")',
               \A o \in Session \ {q} : handler'[o] = handler[o]
        PROVE  p = q
    <3>1. SUFFICES ASSUME p # q PROVE FALSE
      OBVIOUS
    <3>2. At(p, "count")
      BY <2>1, <3>1 DEF At
    <3>3. ~At(p, "idle") /\ scenario.routes[p] \cap {"login"} # {}
      BY <3>2 DEF At, StrikesOK
    <3>4. Calls(q, "login")
      BY <2>1 DEF Counts
    <3> QED
      BY <1>5, <3>1, <3>3, <3>4, OnlyOne
  <2>2. CASE At(r, "count") /\ At(s, "count")
    BY <1>5, <2>2 DEF StrikesOK
  <2> QED
    BY <1>2, <1>5, <2>1, <2>2
<1>6. ASSUME Alone({"login"}) PROVE strikes' <= account'.failed
  <2>1. CASE account'.failed = account.failed /\ strikes' = strikes
    BY <1>6, <2>1 DEF StrikesOK
  <2>2. CASE account'.failed = 0 /\ strikes' = 0
    BY <2>2
  <2>3. ASSUME NEW s \in Session, CountFailure(s) PROVE strikes' <= account'.failed
    <3>1. strikes <= handler[s].n
      BY <1>6, <2>3 DEF StrikesOK, CountFailure
    <3> QED
      BY <1>0, <2>3, <3>1, FailureCounted
  <2> QED
    BY <2>1, <2>2, <2>3, CountEffect
<1>7. ASSUME Alone({"login"}), NEW s \in Session, At(s, "count")'
      PROVE  strikes' <= handler'[s].n
  <2>1. CASE Counts(s) /\ UNCHANGED strikes
    BY <1>7, <2>1 DEF Counts, StrikesOK
  <2>2. CASE handler'[s] = handler[s] /\ At(s, "count")
    <3>1. strikes <= handler[s].n
      BY <1>7, <2>2 DEF StrikesOK
    <3>2. ASSUME NEW q \in Session, CountFailure(q) PROVE FALSE
      <4>1. q = s
        BY <1>7, <2>2, <3>2 DEF CountFailure, StrikesOK
      <4> QED
        BY <1>7, <3>2, <4>1, FailureCounted DEF At
    <3>3. strikes' = strikes \/ strikes' = 0
      BY <3>2, CountEffect
    <3> QED
      BY <1>0, <2>2, <3>1, <3>3
  <2> QED
    BY <1>2, <1>7, <2>1, <2>2
<1> QED
  BY <1>1, <1>3, <1>4, <1>5, <1>6, <1>7 DEF StrikesOK

(* What a step does to the counts of a row of the two tables.              *)
LEMMA RowStep ==
  ASSUME AccountsAssumption, Base, [Next]_vars, NEW i \in 1..Len(codes')
  PROVE  \/ /\ i \in 1..Len(codes)
            /\ codes'[i].tries = codes[i].tries /\ codes'[i].attempts = codes[i].attempts
            /\ codes'[i].verified = codes[i].verified /\ codes'[i].locked = codes[i].locked
         \/ codes'[i].tries = 0 /\ codes'[i].attempts = 0
         \/ \E s \in Session :
              /\ i = handler[s].ref /\ i \in 1..Len(codes)
              /\ \/ WrongCode(s) /\ codes'[i] = Guessed(codes[i], handler[s].n)
                 \/ RightResetCode(s) /\ codes'[i] = Verified(codes[i])
<1> DEFINE Kept == /\ i \in 1..Len(codes)
                   /\ codes'[i].tries = codes[i].tries /\ codes'[i].attempts = codes[i].attempts
                   /\ codes'[i].verified = codes[i].verified /\ codes'[i].locked = codes[i].locked
           New == codes'[i].tries = 0 /\ codes'[i].attempts = 0
           By(s) == /\ i = handler[s].ref /\ i \in 1..Len(codes)
                    /\ \/ WrongCode(s) /\ codes'[i] = Guessed(codes[i], handler[s].n)
                       \/ RightResetCode(s) /\ codes'[i] = Verified(codes[i])
<1>1. Len(codes) \in Nat /\ Len(codes') \in Nat /\ \A j \in 1..Len(codes) : codes[j] \in CodeRow
  BY GrowsStep DEF Base, CountsOK, Grows, CodesGrow
<1>2. \A row \in CodeRow :
        /\ [row EXCEPT !.status = "retired"].tries = row.tries
        /\ [row EXCEPT !.status = "retired"].attempts = row.attempts
        /\ [row EXCEPT !.status = "spent"].tries = row.tries
        /\ [row EXCEPT !.status = "spent"].attempts = row.attempts
        /\ [row EXCEPT !.recent = FALSE].tries = row.tries
        /\ [row EXCEPT !.recent = FALSE].attempts = row.attempts
  BY DEF CodeRow
<1>3. \A row \in CodeRow :
        /\ [row EXCEPT !.status = "retired"].verified = row.verified
        /\ [row EXCEPT !.status = "spent"].verified = row.verified
        /\ [row EXCEPT !.recent = FALSE].verified = row.verified
  BY DEF CodeRow
<1>4. \A row \in CodeRow :
        /\ [row EXCEPT !.status = "retired"].locked = row.locked
        /\ [row EXCEPT !.status = "spent"].locked = row.locked
        /\ [row EXCEPT !.recent = FALSE].locked = row.locked
  BY DEF CodeRow
<1>5. ASSUME i \in 1..Len(codes),
             codes'[i] \in {codes[i], [codes[i] EXCEPT !.status = "retired"],
                            [codes[i] EXCEPT !.status = "spent"],
                            [codes[i] EXCEPT !.recent = FALSE]}
      PROVE  Kept
  BY <1>1, <1>2, <1>3, <1>4, <1>5
<1>6. ASSUME UNCHANGED codes PROVE Kept
  BY <1>6
<1>7. ASSUME NEW s \in Session, NEW kind \in Kinds, InsertCode(s, kind) PROVE Kept \/ New
  <2>1. CASE i \in 1..Len(codes)
    BY <1>5, <1>7, <2>1, InsertWrites
  <2>2. CASE i \notin 1..Len(codes)
    <3>1. codes'[i] = NewCode(kind)
      BY <1>1, <1>7, <2>2, InsertWrites
    <3> QED
      BY <3>1 DEF NewCode
  <2> QED
    BY <2>1, <2>2
<1>8. ASSUME NEW s \in Session, WrongCode(s) PROVE Kept \/ By(s)
  <2>1. i \in 1..Len(codes)
    BY <1>8, WrongWrites
  <2>2. codes'[i] = IF i = handler[s].ref THEN Guessed(codes[i], handler[s].n) ELSE codes[i]
    BY <1>8, <2>1, WrongWrites
  <2> QED
    BY <1>8, <2>1, <2>2
<1>9. ASSUME NEW s \in Session, RightResetCode(s) PROVE Kept \/ By(s)
  <2>1. i \in 1..Len(codes)
    BY <1>9, VerifiedWrites
  <2>2. codes'[i] = IF i = handler[s].ref THEN Verified(codes[i]) ELSE codes[i]
    BY <1>9, <2>1, VerifiedWrites
  <2> QED
    BY <1>9, <2>1, <2>2
<1>10. ASSUME NEW s \in Session, RightEmailCode(s) \/ CommitReset(s) PROVE Kept
  <2>1. i \in 1..Len(codes)
    BY <1>10, SpentWrites
  <2> QED
    BY <1>5, <1>10, <2>1, SpentWrites
<1>11. ASSUME NEW j \in DOMAIN codes, CooldownPasses(j) PROVE Kept
  <2>1. i \in 1..Len(codes)
    BY <1>11, CooldownWrites
  <2> QED
    BY <1>5, <1>11, <2>1, CooldownWrites
<1>12. ASSUME NEW s \in Session, WritesAccount(s) \/ WritesTokens(s) PROVE Kept
  BY <1>6, <1>12 DEF WritesAccount, WritesTokens
<1>13. ASSUME UNCHANGED Tables \/ Restart \/ (LockPasses /\ UNCHANGED codes) PROVE Kept
  BY <1>6, <1>13 DEF Tables, Restart
<1>14. UNCHANGED <<Tables, handler>> => UNCHANGED Tables
  BY DEF Tables
<1> HIDE DEF Kept, New, By
<1>15. ASSUME NEW s \in Session, WritesCodes(s) PROVE Kept \/ New \/ By(s)
  BY <1>7, <1>8, <1>9, <1>10, <1>15 DEF WritesCodes
<1>16. Passes => Kept
  BY <1>11, <1>13 DEF Passes
<1>17. Kept \/ New \/ \E s \in Session : By(s)
  BY <1>10, <1>12, <1>13, <1>14, <1>15, <1>16, StepKinds
<1> QED
  BY <1>17 DEF Kept, New, By

(* The counts of a row that was guessed wrong or right.                    *)
LEMMA GuessedCounts ==
  ASSUME AccountsAssumption, Base, NEW s \in Session, NEW i \in 1..Len(codes)
  PROVE  /\ Guessed(codes[i], handler[s].n).attempts = handler[s].n + 1
         /\ Guessed(codes[i], handler[s].n).tries = codes[i].tries + 1
         /\ ~Guessed(codes[i], handler[s].n).locked => handler[s].n + 1 < MaxGuesses
         /\ Verified(codes[i]).verified
         /\ Verified(codes[i]).attempts = 0
         /\ Verified(codes[i]).tries = codes[i].tries
         /\ handler[s].n \in Nat /\ codes[i].tries \in Nat /\ codes[i].attempts \in Nat
<1>1. codes[i] \in CodeRow /\ handler[s].n \in Nat
  BY DEF Base, CountsOK, HandlersOK, Request
<1>2. \A row \in CodeRow : Verified(row).attempts = 0 /\ Verified(row).tries = row.tries
  BY DEF CodeRow, Verified
<1>3. \A row \in CodeRow : Verified(row).verified
  BY DEF CodeRow, Verified
<1>4. codes[i].tries \in Nat /\ codes[i].attempts \in Nat
  BY <1>1 DEF CodeRow
<1>5. /\ Guessed(codes[i], handler[s].n).attempts = handler[s].n + 1
      /\ Guessed(codes[i], handler[s].n).tries = codes[i].tries + 1
  BY <1>1, GuessedRow
<1>6. ~Guessed(codes[i], handler[s].n).locked => handler[s].n + 1 < MaxGuesses
  BY <1>1, GuessedRow
<1>7. Verified(codes[i]).verified
  BY <1>1, <1>3
<1>8. Verified(codes[i]).attempts = 0 /\ Verified(codes[i]).tries = codes[i].tries
  BY <1>1, <1>2
<1> QED
  BY <1>1, <1>4, <1>5, <1>6, <1>7, <1>8

LEMMA TriesStep ==
  ASSUME AccountsAssumption, Base, [Next]_vars, TriesOK
  PROVE  TriesOK'
<1> DEFINE Guessing == {"verify", "confirm"}
<1>0. MaxGuesses \in Nat \ {0}
  BY DEF AccountsAssumption
<1>1. UNCHANGED scenario /\ Alone(Guessing)' = Alone(Guessing)
  BY AloneKept
<1>2. ASSUME NEW s \in Session, handler'[s].at \in {"wrong", "right"}
      PROVE  \/ handler'[s] = handler[s] /\ handler[s].at \in {"wrong", "right"}
             \/ /\ UNCHANGED codes /\ \A r \in Session \ {s} : handler'[r] = handler[r]
                /\ Guesses(s)
  <2>1. CASE handler'[s] = handler[s]
    BY <1>2, <2>1
  <2>2. CASE handler'[s] # handler[s]
    <3>1. handler'[s].at \notin Plain
      BY <1>2 DEF Plain
    <3>2. ~Counts(s) /\ \A k \in Kinds : ~Asks(s, k) /\ ~Opens(s, k)
      BY <1>2 DEF Counts, Asks, Opens, ReplaceStep, InsertStep
    <3> QED
      BY <2>2, <3>1, <3>2, Arrives
  <2> QED
    BY <2>1, <2>2
<1>3. ASSUME NEW s \in Session, handler'[s].at \in {"wrong", "right"}
      PROVE  scenario.routes[s] \cap Guessing # {}
  BY <1>2, <1>3 DEF TriesOK, Guesses, Calls
<1>4. ASSUME Alone(Guessing), NEW r \in Session, NEW s \in Session,
             handler'[r].at \in {"wrong", "right"}, handler'[s].at \in {"wrong", "right"}
      PROVE  r = s
  <2>1. ASSUME NEW p \in Session, NEW q \in Session, Guesses(q),
               handler'[p].at \in {"wrong", "right"},
               \A o \in Session \ {q} : handler'[o] = handler[o]
        PROVE  p = q
    <3>1. SUFFICES ASSUME p # q PROVE FALSE
      OBVIOUS
    <3>2. handler[p].at \in {"wrong", "right"}
      BY <2>1, <3>1
    <3>3. ~At(p, "idle") /\ scenario.routes[p] \cap Guessing # {}
      BY <3>2 DEF At, TriesOK
    <3>4. PICK route \in Guessing : Calls(q, route)
      BY <2>1 DEF Guesses
    <3> QED
      BY <1>4, <3>1, <3>3, <3>4, OnlyOne
  <2>2. CASE handler[r].at \in {"wrong", "right"} /\ handler[s].at \in {"wrong", "right"}
    BY <1>4, <2>2 DEF TriesOK
  <2> QED
    BY <1>2, <1>4, <2>1, <2>2
<1>5. ASSUME Alone(Guessing), NEW i \in 1..Len(codes')
      PROVE  /\ codes'[i].tries <= MaxGuesses
             /\ ~codes'[i].verified => codes'[i].tries <= codes'[i].attempts
             /\ ~codes'[i].locked => codes'[i].attempts < MaxGuesses
  <2>1. ASSUME i \in 1..Len(codes)
        PROVE  /\ codes[i].tries <= MaxGuesses
               /\ ~codes[i].verified => codes[i].tries <= codes[i].attempts
               /\ ~codes[i].locked => codes[i].attempts < MaxGuesses
    BY <1>5, <2>1 DEF TriesOK
  <2>2. CASE codes'[i].tries = 0 /\ codes'[i].attempts = 0
    BY <1>0, <2>2
  <2>3. ASSUME NEW s \in Session, i = handler[s].ref, i \in 1..Len(codes), WrongCode(s),
               codes'[i] = Guessed(codes[i], handler[s].n)
        PROVE  /\ codes'[i].tries <= MaxGuesses
               /\ codes'[i].tries <= codes'[i].attempts
               /\ ~codes'[i].locked => codes'[i].attempts < MaxGuesses
    <3>1. codes[i].tries <= handler[s].n /\ handler[s].n < MaxGuesses
      BY <1>5, <2>3 DEF TriesOK, WrongCode
    <3>2. /\ codes'[i].attempts = handler[s].n + 1 /\ codes'[i].tries = codes[i].tries + 1
          /\ handler[s].n \in Nat /\ codes[i].tries \in Nat
      BY <2>3, GuessedCounts
    <3>3. ~codes'[i].locked => handler[s].n + 1 < MaxGuesses
      BY <2>3, GuessedCounts
    <3> QED
      BY <1>0, <3>1, <3>2, <3>3
  <2>4. ASSUME NEW s \in Session, i = handler[s].ref, i \in 1..Len(codes),
               codes'[i] = Verified(codes[i])
        PROVE  /\ codes'[i].tries <= MaxGuesses
               /\ codes'[i].verified
               /\ codes'[i].attempts < MaxGuesses
    BY <1>0, <2>1, <2>4, GuessedCounts
  <2>5. CASE /\ i \in 1..Len(codes)
             /\ codes'[i].tries = codes[i].tries /\ codes'[i].attempts = codes[i].attempts
             /\ codes'[i].verified = codes[i].verified /\ codes'[i].locked = codes[i].locked
    BY <2>1, <2>5
  <2> QED
    BY <2>2, <2>3, <2>4, <2>5, RowStep
<1>6. ASSUME Alone(Guessing), NEW s \in Session, handler'[s].at = "wrong"
      PROVE  codes'[handler'[s].ref].tries <= handler'[s].n /\ handler'[s].n < MaxGuesses
  <2>1. CASE handler'[s] = handler[s]
    <3>1. handler[s].at = "wrong" /\ handler[s].ref \in 1..Len(codes)
      BY <1>6, <2>1 DEF Base, HandlersOK, RequestOK
    <3>2. codes[handler[s].ref].tries <= handler[s].n /\ handler[s].n < MaxGuesses
      BY <1>6, <3>1 DEF TriesOK, At
    <3>3. ASSUME NEW q \in Session, WrongCode(q) \/ RightResetCode(q) PROVE FALSE
      <4>1. q = s
        BY <1>6, <3>1, <3>3 DEF WrongCode, RightResetCode, At, TriesOK
      <4>2. handler'[q].at = "idle"
        BY <3>3, Leaves DEF WrongCode, RightResetCode
      <4> QED
        BY <1>6, <4>1, <4>2
    <3>4. handler[s].ref \in 1..Len(codes')
      BY <3>1, GrowsStep DEF Base, CountsOK, Grows, CodesGrow
    <3>5. \/ codes'[handler[s].ref].tries = codes[handler[s].ref].tries
          \/ codes'[handler[s].ref].tries = 0
      BY <3>3, <3>4, RowStep
    <3>6. handler[s].n \in Nat
      BY DEF Base, HandlersOK, Request
    <3> QED
      BY <2>1, <3>2, <3>5, <3>6
  <2>2. CASE UNCHANGED codes /\ Guesses(s)
    <3>1. PICK kind \in Kinds, i \in DOMAIN codes :
                 MayGuess(kind, i) /\ handler'[s].ref = i /\ handler'[s].n = codes[i].attempts
      BY <2>2 DEF Guesses
    <3>2. i \in 1..Len(codes) /\ ~codes[i].locked /\ ~codes[i].verified
      BY <3>1 DEF MayGuess, Base, CountsOK
    <3>3. codes[i].tries <= codes[i].attempts /\ codes[i].attempts < MaxGuesses
      BY <1>6, <3>2 DEF TriesOK
    <3> QED
      BY <2>2, <3>1, <3>3
  <2> QED
    BY <1>2, <1>6, <2>1, <2>2
<1>7. ASSUME NEW s \in Session, handler'[s].at \in {"wrong", "right"}
      PROVE  (scenario.routes[s] \cap Guessing # {})'
  BY <1>1, <1>3, <1>7
<1> QED
  BY <1>1, <1>4, <1>5, <1>6, <1>7 DEF TriesOK, At

(* While guesses do not overlap none goes uncounted: an account that is    *)
(* not locked has had fewer wrong passwords than the limit since its count *)
(* was clean, and a code takes at most its limit of wrong guesses - with   *)
(* any overlap of the other requests and wherever the process stops.       *)
THEOREM NoGuessIsLost == Spec => []GuessesAreCounted
<1>1. Init => StrikesOK /\ TriesOK
  <2> SUFFICES ASSUME Init PROVE StrikesOK /\ TriesOK
    OBVIOUS
  <2>1. \A s \in Session : handler[s].at = "idle"
    BY DEF Init, Idle
  <2>2. account.failed = 0 /\ strikes = 0 /\ codes = <<>>
    BY DEF Init, NoAccount
  <2>3. MaxAttempts \in Nat \ {0}
    BY AccountsAssumption DEF AccountsAssumption
  <2>4. 1..Len(codes) = {}
    BY <2>2
  <2> QED
    BY <2>1, <2>2, <2>3, <2>4 DEF StrikesOK, TriesOK, At
<1>2. Base /\ StrikesOK /\ TriesOK /\ [Next]_vars => (StrikesOK /\ TriesOK)'
  BY StrikesStep, TriesStep, AccountsAssumption
<1>3. Base /\ StrikesOK /\ TriesOK => GuessesAreCounted
  <2> SUFFICES ASSUME Base, StrikesOK, TriesOK PROVE GuessesAreCounted
    OBVIOUS
  <2>1. /\ account.failed \in Nat /\ strikes \in Nat /\ MaxAttempts \in Nat
        /\ DOMAIN codes = 1..Len(codes)
    BY AccountsAssumption DEF Base, AccountOK, AccountRow, CountsOK, AccountsAssumption
  <2>2. Alone({"login"}) /\ account.locked = "no" => strikes < MaxAttempts
    BY <2>1 DEF StrikesOK
  <2>3. Alone({"verify", "confirm"}) => \A i \in DOMAIN codes : codes[i].tries <= MaxGuesses
    BY <2>1 DEF TriesOK
  <2> QED
    BY <2>2, <2>3 DEF GuessesAreCounted
<1> QED
  BY <1>1, <1>2, <1>3, BaseAlways, PTL DEF Spec
=============================================================================
