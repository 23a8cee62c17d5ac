------------------------------ MODULE Sessions ------------------------------
(***************************************************************************)
(* Signing in: AuthService, GoogleAuthService and the suspension of users  *)
(* in AdminService, over one address's row in users, its Google links and  *)
(* its refresh tokens.  Accounts on different addresses share none of it.  *)
(*                                                                         *)
(* These handlers run their statements outside any transaction, so what a  *)
(* handler decides on is what it read, and each of its writes is an action *)
(* of its own.  handler[s].at is the statement session s makes next; ref   *)
(* and n are what it has kept of its reads.  A refresh token that has      *)
(* passed its thirty days is refused without a write, and not modelled.    *)
(***************************************************************************)
EXTENDS Naturals, Sequences, FiniteSets

CONSTANTS
  Session,      \* requests that may be under way at once
  Subject,      \* Google accounts that carry the address, as naturals
  MaxAttempts   \* LOGIN_MAX_ATTEMPTS

VARIABLES
  account,      \* the row of users
  links,        \* subjects in oauth_accounts that point at it
  tokens,       \* refresh_tokens, in the order they were created
  handler,      \* the request each session is in
  strikes       \* wrong passwords since the account last had a clean count

sessionVars == <<account, links, tokens, handler, strikes>>

Passwords == {"none", "old", "new"}

Idle == [at |-> "idle", ref |-> 0, n |-> 0]

At(s, step) == handler[s].at = step
Goes(s, step, ref, n) == handler' = [handler EXCEPT ![s] = [at |-> step, ref |-> ref, n |-> n]]
Done(s) == handler' = [handler EXCEPT ![s] = Idle]

(* Every session route starts here, in a session with nothing under way.   *)
Begin(s) == At(s, "idle")

(* What refresh accepts: neither revoked nor replaced.                     *)
Live(t) == ~tokens[t].revoked /\ tokens[t].next = 0

Usable == account.exists /\ account.status = "ACTIVE"

NoAccount ==
  [exists |-> FALSE, status |-> "ACTIVE", password |-> "none", verified |-> FALSE,
   failed |-> 0, locked |-> "no"]

(* updateMany where revokedAt is null: of a family, or of the whole user.  *)
Revoke(chosen) ==
  tokens' = [t \in DOMAIN tokens |->
               IF chosen[t] THEN [tokens[t] EXCEPT !.revoked = TRUE] ELSE tokens[t]]

RevokeFamily(f) == Revoke([t \in DOMAIN tokens |-> tokens[t].family = f])
RevokeAll       == Revoke([t \in DOMAIN tokens |-> TRUE])

CleanCount(row) == [row EXCEPT !.failed = 0, !.locked = "no"]

-----------------------------------------------------------------------------
(* Registration and sign-in with a password                                *)

(* users.email is unique: of two registrations one fails.                  *)
Register(s) ==
  /\ Begin(s)
  /\ ~account.exists
  /\ account' = [NoAccount EXCEPT !.exists = TRUE, !.password = "old"]
  /\ Goes(s, "issue", 0, 0)
  /\ UNCHANGED <<links, tokens, strikes>>

(* Faulty: the status is not looked at.                                    *)
FaultyLogin(s, password) ==
  /\ Begin(s)
  /\ account.exists /\ account.locked # "locked"
  /\ \/ password # account.password /\ Goes(s, "count", 0, account.failed)
     \/ password = account.password /\ Goes(s, "welcome", 0, 0)
  /\ UNCHANGED <<account, links, tokens, strikes>>

(* The row is read once; a locked account is refused before its password   *)
(* is looked at, a suspended one after.                                    *)
Login(s, password) ==
  /\ Begin(s)
  /\ account.exists /\ account.locked # "locked"
  /\ \/ password # account.password /\ Goes(s, "count", 0, account.failed)
     \/ password = account.password /\ account.status = "ACTIVE" /\ Goes(s, "welcome", 0, 0)
  /\ UNCHANGED <<account, links, tokens, strikes>>

(* registerFailedAttempt: an absolute count, from the count that was read. *)
CountFailure(s) ==
  /\ At(s, "count")
  /\ LET next == handler[s].n + 1
     IN  account' = [account EXCEPT !.failed = next,
                                    !.locked = IF next >= MaxAttempts THEN "locked" ELSE "no"]
  /\ strikes' = strikes + 1
  /\ Done(s)
  /\ UNCHANGED <<links, tokens>>

(* LOGIN_LOCKOUT_MINUTES have passed; the count stays.                     *)
LockPasses ==
  /\ account.locked = "locked"
  /\ account' = [account EXCEPT !.locked = "past"]
  /\ UNCHANGED <<links, tokens, handler, strikes>>

(* The count is cleared: after a right password, or in finish().           *)
Welcome(s) ==
  /\ At(s, "welcome")
  /\ account' = CleanCount(account)
  /\ strikes' = 0
  /\ Goes(s, "issue", 0, 0)
  /\ UNCHANGED <<links, tokens>>

(* Faulty: every token starts a family.                                    *)
FaultyIssue(s) ==
  /\ At(s, "issue")
  /\ LET new == Len(tokens) + 1
     IN  /\ tokens' = Append(tokens, [family |-> new, revoked |-> FALSE, next |-> 0])
         /\ IF handler[s].ref = 0 THEN Done(s) ELSE Goes(s, "retire", handler[s].ref, new)
  /\ UNCHANGED <<account, links, strikes>>

(* issueTokens: a token of a new family, or the successor of token ref.    *)
Issue(s) ==
  /\ At(s, "issue")
  /\ LET new == Len(tokens) + 1
         old == handler[s].ref
     IN  /\ tokens' = Append(tokens, [family |-> IF old = 0 THEN new ELSE tokens[old].family,
                                      revoked |-> FALSE, next |-> 0])
         /\ IF old = 0 THEN Done(s) ELSE Goes(s, "retire", old, new)
  /\ UNCHANGED <<account, links, strikes>>

-----------------------------------------------------------------------------
(* Refresh and logout                                                      *)

(* Faulty: only a token that was replaced counts as used.                  *)
FaultyRefresh(s, t) ==
  /\ Begin(s)
  /\ \/ tokens[t].next # 0 /\ Goes(s, "end_family", t, 0)
     \/ tokens[t].next = 0 /\ Usable /\ Goes(s, "issue", t, 0)
  /\ UNCHANGED <<account, links, tokens, strikes>>

(* A token that has been used before ends its family.                      *)
Refresh(s, t) ==
  /\ Begin(s)
  /\ \/ ~Live(t) /\ Goes(s, "end_family", t, 0)
     \/ Live(t) /\ Usable /\ Goes(s, "issue", t, 0)
  /\ UNCHANGED <<account, links, tokens, strikes>>

(* Faulty: the old token is left as it was.                                *)
FaultyRetire(s) ==
  /\ At(s, "retire")
  /\ Done(s)
  /\ UNCHANGED <<account, links, tokens, strikes>>

(* The old token is marked only once the new one exists.                   *)
Retire(s) ==
  /\ At(s, "retire")
  /\ tokens' = [tokens EXCEPT ![handler[s].ref].revoked = TRUE,
                              ![handler[s].ref].next = handler[s].n]
  /\ Done(s)
  /\ UNCHANGED <<account, links, strikes>>

(* The caller carries an access token, which validateAccessToken accepts   *)
(* while the account is active.                                            *)
Logout(s, t) ==
  /\ Begin(s)
  /\ Usable
  /\ Goes(s, "end_family", t, 0)
  /\ UNCHANGED <<account, links, tokens, strikes>>

EndFamily(s) ==
  /\ At(s, "end_family")
  /\ RevokeFamily(tokens[handler[s].ref].family)
  /\ Done(s)
  /\ UNCHANGED <<account, links, strikes>>

-----------------------------------------------------------------------------
(* Sign-in with Google                                                     *)

(* A subject that is linked is a returning user; otherwise the address is  *)
(* looked up next.                                                         *)
GoogleSignIn(s, subject) ==
  /\ Begin(s)
  /\ \/ subject \in links /\ Usable /\ Goes(s, "welcome", 0, 0)
     \/ subject \notin links /\ Goes(s, "by_email", subject, 0)
  /\ UNCHANGED <<account, links, tokens, strikes>>

ByEmail(s) ==
  /\ At(s, "by_email")
  /\ IF account.exists
     THEN IF Usable THEN Goes(s, "link", handler[s].ref, 0) ELSE Done(s)
     ELSE Goes(s, "create", handler[s].ref, 0)
  /\ UNCHANGED <<account, links, tokens, strikes>>

(* One transaction: link, mark verified, end every other session.  A       *)
(* subject that has been linked meanwhile fails on the unique index.       *)
Link(s) ==
  /\ At(s, "link")
  /\ IF handler[s].ref \in links
     THEN Done(s) /\ UNCHANGED <<account, links, tokens>>
     ELSE /\ links' = links \cup {handler[s].ref}
          /\ account' = [account EXCEPT !.verified = TRUE]
          /\ RevokeAll
          /\ Goes(s, "welcome", 0, 0)
  /\ UNCHANGED strikes

(* Somebody new, unless the address has been taken since it was looked up. *)
CreateFromGoogle(s) ==
  /\ At(s, "create")
  /\ IF account.exists
     THEN Done(s) /\ UNCHANGED <<account, links>>
     ELSE /\ account' = [NoAccount EXCEPT !.exists = TRUE, !.verified = TRUE]
          /\ links' = links \cup {handler[s].ref}
          /\ Goes(s, "welcome", 0, 0)
  /\ UNCHANGED <<tokens, strikes>>

-----------------------------------------------------------------------------
(* An administrator                                                        *)

(* One transaction: the status and every session that exists.              *)
SuspendUser(s) ==
  /\ Begin(s)
  /\ account.exists
  /\ account' = [account EXCEPT !.status = "SUSPENDED"]
  /\ RevokeAll
  /\ UNCHANGED <<links, handler, strikes>>

ReinstateUser(s) ==
  /\ Begin(s)
  /\ account.exists
  /\ account' = [CleanCount(account) EXCEPT !.status = "ACTIVE"]
  /\ strikes' = 0
  /\ UNCHANGED <<links, tokens, handler>>
=============================================================================
