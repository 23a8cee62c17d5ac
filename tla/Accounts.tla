------------------------------ MODULE Accounts ------------------------------
(***************************************************************************)
(* Sign-in and one-time codes together: everything that reads or writes    *)
(* the row of one address, its refresh tokens and its codes.               *)
(*                                                                         *)
(* An instance is a set of scenarios, one of which is chosen at the start: *)
(* which requests each session may make and how many, whether they wait    *)
(* for each other, and how often the process may restart in the middle of  *)
(* them.                                                                   *)
(***************************************************************************)
EXTENDS Codes

CONSTANTS
  Scenarios     \* what may happen in this instance

VARIABLES
  scenario,     \* the scenario chosen
  calls,        \* bound: requests each session may still make
  restarts      \* restarts so far

vars == <<sessionVars, codes, scenario, calls, restarts>>

Routes ==
  {"register", "login", "refresh", "logout", "google", "suspend", "reinstate",
   "request_reset", "verify", "reset", "send", "confirm"}

ScenarioType ==
  [member   : BOOLEAN,                       \* the address has an account and a session
   routes   : [Session -> SUBSET Routes],
   calls    : [Session -> Nat],
   serial   : BOOLEAN,                       \* requests do not overlap
   restarts : Nat]

ASSUME AccountsAssumption ==
  /\ IsFiniteSet(Session)
  /\ Subject \subseteq Nat \ {0}
  /\ MaxAttempts \in Nat \ {0} /\ MaxGuesses \in Nat \ {0}
  /\ Scenarios \subseteq ScenarioType

Init ==
  /\ scenario \in Scenarios
  /\ account = IF scenario.member THEN [NoAccount EXCEPT !.exists = TRUE, !.password = "old"]
                                  ELSE NoAccount
  /\ tokens = IF scenario.member THEN <<[family |-> 1, revoked |-> FALSE, next |-> 0]>> ELSE <<>>
  /\ links = {} /\ codes = <<>> /\ strikes = 0
  /\ handler = [s \in Session |-> Idle]
  /\ calls = scenario.calls
  /\ restarts = 0

-----------------------------------------------------------------------------

(* A session may make one more request of this kind now.                   *)
Calls(s, route) ==
  /\ route \in scenario.routes[s]
  /\ calls[s] > 0
  /\ scenario.serial => \A r \in Session : At(r, "idle")
  /\ calls' = [calls EXCEPT ![s] = @ - 1]

Account(s) ==
  \/ Calls(s, "register") /\ Register(s)
  \/ Calls(s, "login") /\ \E p \in Passwords \ {"none"} : Login(s, p)
  \/ Calls(s, "refresh") /\ \E t \in DOMAIN tokens : Refresh(s, t)
  \/ Calls(s, "logout") /\ \E t \in DOMAIN tokens : Logout(s, t)
  \/ Calls(s, "google") /\ \E subject \in Subject : GoogleSignIn(s, subject)
  \/ Calls(s, "suspend") /\ SuspendUser(s)
  \/ Calls(s, "reinstate") /\ ReinstateUser(s)

Code(s) ==
  \/ Calls(s, "request_reset") /\ RequestReset(s)
  \/ Calls(s, "verify") /\ \E right \in BOOLEAN : Guess(s, "reset", right)
  \/ Calls(s, "reset") /\ ResetPassword(s)
  \/ Calls(s, "send") /\ SendEmailCode(s)
  \/ Calls(s, "confirm") /\ \E right \in BOOLEAN : Guess(s, "email", right)

SignInStep(s) ==
  \/ CountFailure(s) \/ Welcome(s) \/ Issue(s) \/ Retire(s) \/ EndFamily(s)
  \/ ByEmail(s) \/ Link(s) \/ CreateFromGoogle(s)

CodeStep(s) ==
  \/ \E kind \in Kinds : ReplaceCodes(s, kind) \/ InsertCode(s, kind)
  \/ WrongCode(s) \/ RightResetCode(s) \/ RightEmailCode(s)
  \/ CommitReset(s)

(* The process stops, and whatever was under way stops where it was.       *)
Restart ==
  /\ restarts < scenario.restarts
  /\ \E s \in Session : ~At(s, "idle")
  /\ handler' = [s \in Session |-> Idle]
  /\ restarts' = restarts + 1
  /\ UNCHANGED <<account, links, tokens, strikes, codes, scenario, calls>>

Next ==
  \/ /\ \E s \in Session : \/ Account(s) /\ UNCHANGED codes
                           \/ Code(s)
     /\ UNCHANGED <<scenario, restarts>>
  \/ /\ \/ \E s \in Session : SignInStep(s) /\ UNCHANGED codes
        \/ \E s \in Session : CodeStep(s)
        \/ LockPasses /\ UNCHANGED codes
        \/ \E i \in DOMAIN codes : CooldownPasses(i)
     /\ UNCHANGED <<scenario, calls, restarts>>
  \/ Restart

Spec == Init /\ [][Next]_vars

-----------------------------------------------------------------------------
(* Properties                                                              *)

Steps ==
  {"idle", "count", "welcome", "issue", "retire", "end_family", "by_email", "link",
   "create", "replace_reset", "replace_email", "insert_reset", "insert_email",
   "wrong", "right", "reset"}

Refs == Nat

(* Every row and every request under way has its type; the next of a token *)
(* is a later token of the same family.                                    *)
AccountsTypeOK ==
  /\ account \in [exists : BOOLEAN, status : {"ACTIVE", "SUSPENDED"}, password : Passwords,
                  verified : BOOLEAN, failed : Nat, locked : {"no", "locked", "past"}]
  /\ ~account.exists => account = NoAccount
  /\ links \subseteq Subject
  /\ \A t \in DOMAIN tokens :
       /\ tokens[t] \in [family : 1..t, revoked : BOOLEAN, next : {0} \cup ((t + 1)..Len(tokens))]
       /\ tokens[t].next # 0 => tokens[tokens[t].next].family = tokens[t].family
  /\ handler \in [Session -> [at : Steps, ref : Refs, n : Nat]]
  /\ \A i \in DOMAIN codes :
       codes[i] \in [kind : Kinds, status : {"open", "retired", "spent"}, attempts : Nat,
                     locked : BOOLEAN, verified : BOOLEAN, recent : BOOLEAN, tries : Nat]
  /\ strikes \in Nat /\ restarts \in 0..scenario.restarts

(* Only one session of the scenario makes any of these requests, or no two *)
(* requests overlap.                                                       *)
Alone(routes) ==
  scenario.serial \/ Cardinality({s \in Session : scenario.routes[s] \cap routes # {}}) < 2

LiveIn(f) == {t \in DOMAIN tokens : tokens[t].family = f /\ Live(t)}

(* A refresh of this family has been let through and is not finished.      *)
Rotating(f) ==
  {s \in Session : /\ handler[s].at \in {"issue", "retire"} /\ handler[s].ref # 0
                   /\ tokens[handler[s].ref].family = f}

Ended(f) == LiveIn(f) = {} /\ Rotating(f) = {}

(* A family that has ended - by logout, by reuse, by suspension, by a new  *)
(* password - stays ended, whatever token of it is presented and whatever  *)
(* overlaps: only a refresh let through before can still add to it, and    *)
(* none is let through after.                                              *)
DeadFamilyStaysDead ==
  [][\A f \in DOMAIN tokens :
       Ended(f) => Ended(f)']_vars

(* Rotation leaves one live token in a family.  What can leave another     *)
(* behind is a crash between issuing the new token and retiring the old    *)
(* one, one for each crash, and two refreshes that overlap.                *)
OneChainPerFamily ==
  Alone({"refresh"})
    => \A f \in DOMAIN tokens :
         Cardinality(LiveIn(f)) <= 1 + restarts + Cardinality(Rotating(f))

(* A suspended account has no session, and none of the ways to get one     *)
(* gives it one: password, Google, refresh, or the new password a reset    *)
(* sets in the meantime.                                                   *)
SuspendedHasNoSession ==
  scenario.serial /\ account.status = "SUSPENDED"
    => \A t \in DOMAIN tokens : ~Live(t)

(* An address is marked verified exactly when it was proved, by a code     *)
(* that was spent or by a Google account that is linked, whatever overlaps *)
(* and wherever a request is cut off.                                      *)
AddressIsProved ==
  account.verified <=>
    \/ links # {}
    \/ \E i \in DOMAIN codes : codes[i].kind = "email" /\ codes[i].status = "spent"

(* Only the newest code can be used: while requests for codes do not       *)
(* overlap there is at most one that is open, with any overlap of the      *)
(* requests that enter or spend one.                                       *)
OneUsableCode ==
  /\ Alone({"request_reset"}) => Cardinality(Open("reset")) <= 1
  /\ Alone({"send"}) => Cardinality(Open("email")) <= 1

(* The budget of guesses: an account that is not locked has had fewer      *)
(* wrong passwords than the limit since its count was last clean, and a    *)
(* code takes at most its limit of wrong guesses - as long as guesses do   *)
(* not overlap, for an overlap is counted once, and a lockout lasts as     *)
(* long as a code, as module Codes assumes.                                *)
GuessesAreCounted ==
  /\ Alone({"login"}) /\ account.locked = "no" => strikes < MaxAttempts
  /\ Alone({"verify", "confirm"}) =>
       \A i \in DOMAIN codes : codes[i].tries <= MaxGuesses
=============================================================================
