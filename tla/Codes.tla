-------------------------------- MODULE Codes --------------------------------
(***************************************************************************)
(* One-time codes: PasswordResetService and EmailVerificationService over  *)
(* password_reset_tokens and email_verification_tokens.                    *)
(*                                                                         *)
(* The two tables are one sequence of rows told apart by kind.  usedAt is  *)
(* status: a row that was used is "spent" if its code or token did what it *)
(* is for and "retired" if a newer code replaced it.  Codes past their     *)
(* time are refused without a write, and so is everything about a locked   *)
(* code.  Assumed of the configuration, whose values are independent: a    *)
(* lockout lasts at least as long as a code lives (15 minutes against 10   *)
(* for a reset and 15 for an address, by default), so that a locked code   *)
(* has expired when its lock ends.  Neither clock is modelled then.        *)
(***************************************************************************)
EXTENDS Sessions

CONSTANTS
  MaxGuesses    \* RESET_MAX_ATTEMPTS and EMAIL_MAX_ATTEMPTS

VARIABLES
  codes         \* both tables, in the order the rows were created

Kinds == {"reset", "email"}

NewCode(kind) ==
  [kind |-> kind, status |-> "open", attempts |-> 0, locked |-> FALSE,
   verified |-> FALSE, recent |-> TRUE, tries |-> 0]

Open(kind) == {i \in DOMAIN codes : codes[i].kind = kind /\ codes[i].status = "open"}

(* findFirst where usedAt is null, newest first.                           *)
Newest(kind, i) == i \in Open(kind) /\ \A j \in Open(kind) : j <= i

CodesOnly == UNCHANGED <<account, links, tokens, strikes>>

-----------------------------------------------------------------------------
(* Asking for a code                                                       *)

(* forgot-password: any caller, for an address that is registered.         *)
RequestReset(s) ==
  /\ Begin(s)
  /\ account.exists
  /\ Goes(s, "replace_reset", 0, 0)
  /\ CodesOnly /\ UNCHANGED codes

(* send: the caller's own address, while it is not verified.               *)
SendEmailCode(s) ==
  /\ Begin(s)
  /\ Usable /\ ~account.verified
  /\ Goes(s, "replace_email", 0, 0)
  /\ CodesOnly /\ UNCHANGED codes

(* In the transaction: what the cooldown looks at and the rows updateMany  *)
(* retires are those committed by now.                                     *)
ReplaceCodes(s, kind) ==
  /\ At(s, IF kind = "reset" THEN "replace_reset" ELSE "replace_email")
  /\ IF kind = "email" /\ \E i \in Open(kind) : Newest(kind, i) /\ codes[i].recent
     THEN Done(s)
     ELSE Goes(s, IF kind = "reset" THEN "insert_reset" ELSE "insert_email", 0, Len(codes))
  /\ CodesOnly /\ UNCHANGED codes

(* Faulty: earlier codes stay as they are.                                 *)
FaultyInsertCode(s, kind) ==
  /\ At(s, IF kind = "reset" THEN "insert_reset" ELSE "insert_email")
  /\ codes' = Append(codes, NewCode(kind))
  /\ Done(s)
  /\ CodesOnly

(* The commit: those rows are retired and the new one appears.             *)
InsertCode(s, kind) ==
  /\ At(s, IF kind = "reset" THEN "insert_reset" ELSE "insert_email")
  /\ codes' = Append([i \in DOMAIN codes |->
                        IF i <= handler[s].n /\ i \in Open(kind)
                        THEN [codes[i] EXCEPT !.status = "retired"] ELSE codes[i]],
                     NewCode(kind))
  /\ Done(s)
  /\ CodesOnly

(* EMAIL_RESEND_COOLDOWN_SECONDS have passed.                              *)
CooldownPasses(i) ==
  /\ codes[i].kind = "email" /\ codes[i].recent
  /\ codes' = [codes EXCEPT ![i].recent = FALSE]
  /\ CodesOnly /\ UNCHANGED handler

-----------------------------------------------------------------------------
(* Entering one                                                            *)

(* verify and confirm look at the newest code, and refuse a locked one, a  *)
(* verified one and - confirm - an address that is verified already.       *)
MayGuess(kind, i) ==
  /\ Newest(kind, i)
  /\ ~codes[i].locked /\ ~codes[i].verified
  /\ kind = "email" => Usable /\ ~account.verified

Guess(s, kind, right) ==
  /\ Begin(s)
  /\ \E i \in DOMAIN codes :
       /\ MayGuess(kind, i)
       /\ Goes(s, IF right THEN "right" ELSE "wrong", i, codes[i].attempts)
  /\ CodesOnly /\ UNCHANGED codes

(* Faulty: the limit itself is still let through.                          *)
FaultyWrongCode(s) ==
  /\ At(s, "wrong")
  /\ LET next == handler[s].n + 1
     IN  codes' = [codes EXCEPT ![handler[s].ref].attempts = next,
                               ![handler[s].ref].tries = @ + 1,
                               ![handler[s].ref].locked = next > MaxGuesses]
  /\ Done(s)
  /\ CodesOnly

(* An absolute count again.  verify writes the lock either way, confirm    *)
(* only to set it.                                                         *)
WrongCode(s) ==
  /\ At(s, "wrong")
  /\ LET row  == codes[handler[s].ref]
         next == handler[s].n + 1
     IN  codes' = [codes EXCEPT ![handler[s].ref] =
                     [row EXCEPT !.attempts = next,
                                 !.tries = @ + 1,
                                 !.locked = next >= MaxGuesses \/ (row.kind = "email" /\ @)]]
  /\ Done(s)
  /\ CodesOnly

(* verify hands out the token that changes the password.                   *)
RightResetCode(s) ==
  /\ At(s, "right") /\ codes[handler[s].ref].kind = "reset"
  /\ codes' = [codes EXCEPT ![handler[s].ref].verified = TRUE,
                            ![handler[s].ref].attempts = 0,
                            ![handler[s].ref].locked = FALSE]
  /\ Done(s)
  /\ CodesOnly

(* Faulty: the code is spent and the address is not marked.                *)
FaultyRightEmailCode(s) ==
  /\ At(s, "right") /\ codes[handler[s].ref].kind = "email"
  /\ codes' = [codes EXCEPT ![handler[s].ref].status = "spent"]
  /\ Done(s)
  /\ CodesOnly

(* confirm spends the code and marks the address in one transaction.       *)
RightEmailCode(s) ==
  /\ At(s, "right") /\ codes[handler[s].ref].kind = "email"
  /\ codes' = [codes EXCEPT ![handler[s].ref].status = "spent"]
  /\ account' = [account EXCEPT !.verified = TRUE]
  /\ Done(s)
  /\ UNCHANGED <<links, tokens, strikes>>

-----------------------------------------------------------------------------
(* Setting the new password                                                *)

(* The token must come from a verified code that is not used, and the      *)
(* password must differ from the one read.                                 *)
MayReset(i) ==
  /\ codes[i].kind = "reset"
  /\ codes[i].verified /\ codes[i].status = "open"

ResetPassword(s) ==
  /\ Begin(s)
  /\ account.password # "new"
  /\ \E i \in DOMAIN codes : MayReset(i) /\ Goes(s, "reset", i, 0)
  /\ CodesOnly /\ UNCHANGED codes

(* One batch: the token is spent, the password set, the lockout cleared    *)
(* and every session ended.                                                *)
CommitReset(s) ==
  /\ At(s, "reset")
  /\ codes' = [codes EXCEPT ![handler[s].ref].status = "spent"]
  /\ account' = [CleanCount(account) EXCEPT !.password = "new"]
  /\ strikes' = 0
  /\ RevokeAll
  /\ Done(s)
  /\ UNCHANGED links
=============================================================================
