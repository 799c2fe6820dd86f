------------------------------- MODULE SignIn -------------------------------
(***************************************************************************)
(* Signing in to one account, and ending its sessions: auth/auth.service.ts *)
(* (password, lockout, second factor, password change, step-up),           *)
(* auth/session-revocation.ts, auth/strategies/jwt.strategy.ts,            *)
(* mfa/mfa.service.ts (authenticator codes) and the resets of              *)
(* users/users.service.ts.                                                 *)
(*                                                                         *)
(* A worker is one request in flight.  What happens between two awaits is  *)
(* one step: a database statement, or a hash, with the code that follows.  *)
(* The lockout counters live in the memory of the one API process.         *)
(*                                                                         *)
(* `now' is in ticks, TPS of them to the second, because tokens are        *)
(* stamped in whole seconds.  Authenticator codes change with `step', and  *)
(* the fifteen minutes of a lockout pass on their own.                     *)
(***************************************************************************)
EXTENDS Integers, FiniteSets

CONSTANTS
  Workers,        \* requests that may be in flight together
  TPS,            \* ticks per second
  MaxNow,         \* bound on the time, in ticks
  MaxStep,        \* bound on the time steps of authenticator codes
  MaxPasswords,   \* bound on the passwords; the person may give any of them
  MaxSecrets,     \* bound on the authenticator secrets made
  MaxLogin,       \* maxLoginAttempts of the lockout policy
  MaxTotp,        \* TOTP_MAX_FAILURES
  MaxRequests,    \* bound on the requests made
  AtOnce          \* revocations of the account's sessions that may overlap

ASSUME SignInAssumption ==
  /\ {TPS, MaxLogin, MaxTotp, MaxPasswords, MaxSecrets, MaxStep} \subseteq Nat \ {0}
  /\ {MaxNow, MaxRequests, AtOnce} \subseteq Nat
  /\ IsFiniteSet(Workers)

VARIABLES
  now, step,   \* the clock, and the time step of authenticator codes
  user,        \* the User row
  totp,        \* the TOTP row of UserMfaMethod
  fails,       \* loginFailures
  tries,       \* totpAttempts
  partial,     \* a partial token was handed out (nothing is lost when it expires)
  issued,      \* sessions handed out: their stamp and when that was
  ended,       \* history: sessions that were out when they were revoked
  spent,       \* history: codes that were accepted, to verify or to enrol
  replayed,    \* history: codes that verified although they were spent
  late,        \* history: confirmations in flight while another one enrolled
  guesses,     \* history: wrong passwords checked since the lockout last changed
  requests,    \* how many requests were made
  pc, loc      \* where each worker is, and its locals

codes   == <<spent, replayed, late>>
history == <<ended, codes, guesses>>
vars    == <<now, step, user, totp, fails, tries, partial, issued, history, requests, pc, loc>>

Never   == -1
Seconds == 0..((MaxNow + TPS - 1) \div TPS)

\* pw: which password it is; after: sessionsValidAfter.
User == [status : {"ACTIVE", "SUSPENDED"}, pw : 1..MaxPasswords, after : Seconds \cup {Never}]
Totp == [secret : 0..MaxSecrets, active : BOOLEAN, last : 0..MaxStep]

\* lockedUntil: ahead, in the last lockoutMinutes, or before.
Fails   == [count : Nat, until : {"ahead", "recent", "past"}]
NoFails == [count |-> 0, until |-> "past"]

\* blocked: blockedUntil is ahead.
Tries   == [count : Nat, blocked : BOOLEAN]
NoTries == [count |-> 0, blocked |-> FALSE]

Session == [iat : Seconds, at : 0..MaxNow]

\* A code is what the authenticator with some secret shows at some step.
Codes == (1..MaxSecrets) \X (1..MaxStep)

Tasks == {"none", "login", "verified", "mfa", "stepUp", "disable", "password", "logout",
          "resetPassword", "resetMfa", "enrol"}
PCs   == {"idle", "verify", "failure", "settings", "totp", "use", "lock", "mint", "deactivate",
          "instant", "write", "setup", "activate"}

\* user, totp, tries: as read; pw, code: as given; after, seen: a revocation.
Locals == [task : Tasks, user : User, totp : Totp, tries : Tries, pw : 0..MaxPasswords,
           code : Codes \cup {<<0, 0>>}, after : Seconds \cup {Never}, seen : SUBSET Session]
NoUser == [status |-> "SUSPENDED", pw |-> 1, after |-> Never]
NoTotp == [secret |-> 0, active |-> FALSE, last |-> 0]
NoLoc  == [task |-> "none", user |-> NoUser, totp |-> NoTotp, tries |-> NoTries, pw |-> 0,
           code |-> <<0, 0>>, after |-> Never, seen |-> {}]

\* An account with a password and somebody signed in, who has an authenticator
\* that waits to be confirmed.
Init ==
  /\ now = 0 /\ step = 1
  /\ user = [status |-> "ACTIVE", pw |-> 1, after |-> Never]
  /\ totp = [NoTotp EXCEPT !.secret = 1]
  /\ fails = NoFails /\ tries = NoTries
  /\ partial = FALSE /\ issued = {[iat |-> 0, at |-> 0]} /\ ended = {}
  /\ spent = {} /\ replayed = {} /\ late = {} /\ guesses = 0 /\ requests = 0
  /\ pc = [w \in Workers |-> "idle"]
  /\ loc = [w \in Workers |-> NoLoc]

-----------------------------------------------------------------------------
(* session-revocation.ts: JWT time is in whole seconds.                    *)

\* Mutant: rounded down, to the second the tokens of this second carry.
revocationInstant_Down(t) == t \div TPS

revocationInstant(t) == (t + TPS - 1) \div TPS

isRevoked(iat, after) == after # Never /\ iat < after

\* Mutant: the stamp is not in seconds.
issueAt_Ticks(after, t) == t

issueAt(after, t) == IF after > t \div TPS THEN after ELSE t \div TPS

\* JwtStrategy.validate().
Accepted(s) == user.status = "ACTIVE" /\ ~isRevoked(s.iat, user.after)

SignedIn == \E s \in issued : Accepted(s)

-----------------------------------------------------------------------------
Goto(w, p, l) == /\ pc' = [pc EXCEPT ![w] = p]
                 /\ loc' = [loc EXCEPT ![w] = l]
Return(w)     == Goto(w, "idle", NoLoc)
Step(w, p)    == Goto(w, p, loc[w])

clock == <<now, step>>
rows  == <<user, totp>>
memory == <<fails, tries>>

Start(w, p, l) ==
  /\ pc[w] = "idle"
  /\ requests < MaxRequests /\ requests' = requests + 1
  /\ Goto(w, p, l)
  /\ UNCHANGED <<clock, rows, memory, partial, issued, history>>

\* lockedFor().
Locked == fails.until = "ahead"

\* One more password fits the bound.
NewPassword ==
  user.pw + Cardinality({v \in Workers : loc[v].task \in {"password", "resetPassword"} /\ pc[v] # "mint"})
    < MaxPasswords

\* One more secret fits the bound.
NewSecret == totp.secret + Cardinality({v \in Workers : pc[v] = "setup"}) < MaxSecrets

-----------------------------------------------------------------------------
(* Passwords.                                                              *)

login(w, pw) ==
  /\ user.status = "ACTIVE" /\ ~Locked
  /\ Start(w, "verify", [NoLoc EXCEPT !.task = "login", !.user = user, !.totp = totp, !.pw = pw])

\* verifyStepUp() of somebody signed in, with the password.
stepUp(w, pw) ==
  /\ SignedIn /\ ~Locked
  /\ Start(w, "verify", [NoLoc EXCEPT !.task = "stepUp", !.user = user, !.pw = pw])

changePassword(w, pw) ==
  /\ SignedIn /\ NewPassword
  /\ Start(w, "verify", [NoLoc EXCEPT !.task = "password", !.user = user, !.pw = pw])

\* The hash is compared with the row as it was read.  A right password of a
\* sign-in or step-up clears the lockout; one that is changed is hashed.
verify(w) ==
  LET l     == loc[w]
      right == l.pw = l.user.pw
      counted == l.task \in {"login", "stepUp"}
  IN
  /\ pc[w] = "verify"
  /\ CASE right /\ l.task = "login"    -> Step(w, "settings")
       [] right /\ l.task = "password" -> Step(w, "instant")
       [] ~right /\ counted            -> Step(w, "failure")
       [] OTHER                        -> Return(w)
  /\ fails' = IF right /\ counted THEN NoFails ELSE fails
  /\ guesses' = IF ~counted THEN guesses ELSE IF right THEN 0 ELSE guesses + 1
  /\ UNCHANGED <<clock, rows, tries, partial, issued, ended, codes, requests>>

\* Mutant: one more failure is let through.
recordLoginFailure_OffByOne(w) ==
  LET count == 1 + IF fails.until = "past" THEN 0 ELSE fails.count IN
  /\ pc[w] = "failure"
  /\ fails' = [count |-> count, until |-> IF count > MaxLogin THEN "ahead" ELSE "recent"]
  /\ Return(w)
  /\ UNCHANGED <<clock, rows, tries, partial, issued, history, requests>>

\* After the policy was read; counts that are old do not count.
recordLoginFailure(w) ==
  LET count == 1 + IF fails.until = "past" THEN 0 ELSE fails.count IN
  /\ pc[w] = "failure"
  /\ fails' = [count |-> count, until |-> IF count >= MaxLogin THEN "ahead" ELSE "recent"]
  /\ Return(w)
  /\ UNCHANGED <<clock, rows, tries, partial, issued, history, requests>>

\* signInVerifiedUser(): a passkey (which needs no code) or single sign-on.
signInVerifiedUser(w, mfaSatisfied) ==
  /\ user.status = "ACTIVE" /\ ~Locked
  /\ Start(w, "settings", [NoLoc EXCEPT !.task = "verified", !.user = user,
                                        !.totp = IF mfaSatisfied THEN NoTotp ELSE totp])

\* issueFullToken(), stamped with the revocation that was read.
Issue(after) == issued' = issued \cup {[iat |-> issueAt(after, now), at |-> now]}

\* startSession(): the authenticator as read decides whether a code is asked
\* for.  No tenant of the model requires one of accounts without.
startSession(w) ==
  /\ pc[w] = "settings"
  /\ IF loc[w].totp.active THEN partial' = TRUE /\ UNCHANGED issued
     ELSE Issue(loc[w].user.after) /\ UNCHANGED partial
  /\ Return(w)
  /\ UNCHANGED <<clock, rows, memory, history, requests>>

-----------------------------------------------------------------------------
(* Authenticator codes.                                                    *)

Blocked == tries.count >= MaxTotp /\ tries.blocked

\* verifyMfaAndLogin() of a partial token, whatever became of the account.
verifyMfaAndLogin(w, c) ==
  /\ partial /\ ~Blocked
  /\ Start(w, "totp", [NoLoc EXCEPT !.task = "mfa", !.user = user, !.code = c, !.tries = tries])

stepUpCode(w, c) ==
  /\ SignedIn /\ ~Locked /\ ~Blocked
  /\ Start(w, "totp", [NoLoc EXCEPT !.task = "stepUp", !.code = c, !.tries = tries])

disableTotp(w, c) ==
  /\ SignedIn /\ totp.active /\ ~Blocked
  /\ Start(w, "totp", [NoLoc EXCEPT !.task = "disable", !.code = c, !.tries = tries])

\* Where a request goes on after verifyTotp() said no.
Wrong(w) == IF loc[w].task = "stepUp" THEN Step(w, "failure") ELSE Return(w)

\* The failure is added to the count as it was read when the request came;
\* one that locks is logged before it is stored.
missed(w) ==
  LET t    == loc[w].tries
      next == [count |-> IF t.blocked THEN t.count + 1 ELSE 1, blocked |-> TRUE]
  IN
  IF next.count >= MaxTotp
  THEN Goto(w, "lock", [loc[w] EXCEPT !.tries = next]) /\ UNCHANGED tries
  ELSE tries' = next /\ Wrong(w)

\* The active authenticator is read, and the code compared with it now.
matchingStep(w) ==
  LET c == loc[w].code IN
  /\ pc[w] = "totp"
  /\ IF ~totp.active THEN Wrong(w) /\ UNCHANGED tries
     ELSE IF c = <<totp.secret, step>> THEN Goto(w, "use", [loc[w] EXCEPT !.totp = totp]) /\ UNCHANGED tries
     ELSE missed(w)
  /\ UNCHANGED <<clock, rows, fails, partial, issued, history, requests>>

\* Mutant: whether the code was used is looked up when the row is read.
unused_AsRead(w) == loc[w].totp.last < loc[w].code[2]

\* The condition of the update that accepts a code.
unused(w) == totp.last < loc[w].code[2]

use(w) ==
  LET l == loc[w] IN
  /\ pc[w] = "use"
  /\ IF unused(w)
     THEN /\ totp' = [totp EXCEPT !.last = l.code[2]]
          /\ spent' = spent \cup {l.code}
          /\ replayed' = replayed \cup ({l.code} \cap spent)
          /\ tries' = NoTries
          /\ CASE l.task = "mfa"     -> Step(w, "mint")
               [] l.task = "disable" -> Step(w, "deactivate")
               [] OTHER              -> Return(w)
          /\ fails' = IF l.task = "stepUp" THEN NoFails ELSE fails
          /\ guesses' = IF l.task = "stepUp" THEN 0 ELSE guesses
     ELSE missed(w) /\ UNCHANGED <<totp, spent, replayed, fails, guesses>>
  /\ UNCHANGED <<clock, user, partial, issued, ended, late, requests>>

lock(w) ==
  /\ pc[w] = "lock"
  /\ tries' = loc[w].tries
  /\ Wrong(w)
  /\ UNCHANGED <<clock, rows, fails, partial, issued, history, requests>>

\* A session on the row as it was read, or as it was written.
mint(w) ==
  /\ pc[w] = "mint"
  /\ Issue(loc[w].user.after)
  /\ Return(w)
  /\ UNCHANGED <<clock, rows, memory, partial, history, requests>>

\* generateTotpSetup(): no active authenticator; then the row gets a new
\* secret, whatever happened to it in between.
generateTotpSetup(w) ==
  /\ SignedIn /\ ~totp.active /\ NewSecret
  /\ Start(w, "setup", [NoLoc EXCEPT !.task = "enrol"])

setup(w) ==
  /\ pc[w] = "setup"
  /\ totp' = [totp EXCEPT !.secret = @ + 1, !.active = FALSE]
  /\ Return(w)
  /\ UNCHANGED <<clock, user, memory, partial, issued, history, requests>>

\* confirmTotpEnrollment(): with a code of the secret that is read, which need
\* not be unused; then the row is written, again whatever happened to it.
confirmTotpEnrollment(w) ==
  /\ SignedIn /\ totp.secret # 0 /\ ~totp.active
  /\ Start(w, "activate", [NoLoc EXCEPT !.task = "enrol", !.code = <<totp.secret, step>>])

\* A confirmation that another one overtook may set the last step back:
\* newer codes are good again.
activate(w) ==
  LET c == loc[w].code IN
  /\ pc[w] = "activate"
  /\ totp' = [totp EXCEPT !.active = TRUE, !.last = c[2]]
  /\ spent' = {c} \cup IF w \in late THEN {d \in spent : d[2] <= c[2]} ELSE spent
  /\ late' = {v \in Workers \ {w} : pc[v] = "activate"}
  /\ Return(w)
  /\ UNCHANGED <<clock, user, memory, partial, issued, ended, replayed, guesses, requests>>

\* disableTotp() and resetMfa() of an administrator end the sessions too.
deactivate(w) ==
  /\ pc[w] = "deactivate"
  /\ totp' = [totp EXCEPT !.active = FALSE]
  /\ Step(w, "instant")
  /\ UNCHANGED <<clock, user, memory, partial, issued, history, requests>>

resetMfa(w) == Start(w, "deactivate", [NoLoc EXCEPT !.task = "resetMfa"])

-----------------------------------------------------------------------------
(* Ending every session of the account.                                    *)

logout(w) == SignedIn /\ Start(w, "instant", [NoLoc EXCEPT !.task = "logout"])

resetPassword(w) ==
  /\ NewPassword
  /\ Start(w, "instant", [NoLoc EXCEPT !.task = "resetPassword"])

Revoking == {v \in Workers : pc[v] = "write"}

\* The point in time is taken first.  Sessions handed out before it have to
\* end, except those stamped ahead because of an earlier revocation in the
\* same second.
instant(w) ==
  /\ pc[w] = "instant"
  /\ Cardinality(Revoking) < AtOnce
  /\ Goto(w, "write", [loc[w] EXCEPT !.after = revocationInstant(now),
                                     !.seen = {s \in issued : s.at < now /\ s.iat * TPS <= s.at}])
  /\ UNCHANGED <<clock, rows, memory, partial, issued, history, requests>>

\* And then stored, with a new password where there is one.  Who changed
\* the own password gets a new session.
write(w) ==
  LET l == loc[w] IN
  /\ pc[w] = "write"
  /\ user' = [status |-> IF l.task = "resetPassword" THEN "ACTIVE" ELSE user.status,
              pw     |-> IF l.task \in {"password", "resetPassword"} THEN user.pw + 1 ELSE user.pw,
              after  |-> l.after]
  /\ ended' = ended \cup l.seen
  /\ IF l.task = "password" THEN Goto(w, "mint", [l EXCEPT !.user.after = l.after, !.seen = {}])
     ELSE Return(w)
  /\ UNCHANGED <<clock, totp, memory, partial, issued, codes, guesses, requests>>

-----------------------------------------------------------------------------
(* Administrators and time.                                                *)

\* suspend() and activate() of users.service.ts.
setStatus ==
  /\ requests < MaxRequests /\ requests' = requests + 1
  /\ user' = [user EXCEPT !.status = IF @ = "ACTIVE" THEN "SUSPENDED" ELSE "ACTIVE"]
  /\ UNCHANGED <<clock, totp, memory, partial, issued, history, pc, loc>>

tick ==
  /\ now < MaxNow /\ now' = now + 1
  /\ UNCHANGED <<step, rows, memory, partial, issued, history, requests, pc, loc>>

nextStep ==
  /\ step < MaxStep /\ step' = step + 1
  /\ UNCHANGED <<now, rows, memory, partial, issued, history, requests, pc, loc>>

\* lockoutMinutes.
passLockout ==
  /\ fails.until # "past"
  /\ fails' = [fails EXCEPT !.until = IF @ = "ahead" THEN "recent" ELSE "past"]
  /\ guesses' = 0
  /\ UNCHANGED <<clock, rows, tries, partial, issued, ended, codes, requests, pc, loc>>

\* TOTP_LOCKOUT_MS.
passBlock ==
  /\ tries.blocked
  /\ tries' = [tries EXCEPT !.blocked = FALSE]
  /\ UNCHANGED <<clock, rows, fails, partial, issued, history, requests, pc, loc>>

-----------------------------------------------------------------------------
Request(w) ==
  \/ \E pw \in 1..MaxPasswords : login(w, pw) \/ stepUp(w, pw) \/ changePassword(w, pw)
  \/ \E mfaSatisfied \in BOOLEAN : signInVerifiedUser(w, mfaSatisfied)
  \/ \E c \in Codes : verifyMfaAndLogin(w, c) \/ stepUpCode(w, c) \/ disableTotp(w, c)
  \/ generateTotpSetup(w) \/ confirmTotpEnrollment(w)
  \/ logout(w) \/ resetMfa(w) \/ resetPassword(w)

Continue(w) ==
  \/ verify(w) \/ recordLoginFailure(w) \/ startSession(w)
  \/ matchingStep(w) \/ use(w) \/ lock(w) \/ mint(w)
  \/ setup(w) \/ activate(w) \/ deactivate(w) \/ instant(w) \/ write(w)

Next ==
  \/ \E w \in Workers : Request(w) \/ Continue(w)
  \/ setStatus \/ tick \/ nextStep \/ passLockout \/ passBlock

Spec == Init /\ [][Next]_vars

-----------------------------------------------------------------------------
(* Properties.                                                             *)

TypeOK ==
  /\ now \in 0..MaxNow /\ step \in 1..MaxStep
  /\ user \in User /\ totp \in Totp
  /\ fails \in Fails /\ tries \in Tries
  /\ partial \in BOOLEAN /\ issued \subseteq Session /\ ended \subseteq Session
  /\ spent \subseteq Codes /\ replayed \subseteq Codes /\ late \subseteq Workers
  /\ guesses \in Nat /\ requests \in 0..MaxRequests
  /\ pc \in [Workers -> PCs] /\ loc \in [Workers -> Locals]

\* Sign-out, a new password and a reset end every session: one that was out
\* at that moment is refused ever after, although tokens carry whole seconds
\* only and new ones are handed out meanwhile.
EndedStaysEnded == \A s \in ended : isRevoked(s.iat, user.after)

\* A code is good once for signing in, stepping up or turning the second
\* factor off, whichever requests race for it, and for none of them after it
\* confirmed the enrolment: unless a confirmation with an older code, which
\* another confirmation overtook, is written afterwards.  A confirmation asks
\* for no unused code: what it accepts may have been spent.
CodesAreSingleUse == replayed = {}

\* The lockout counts overlapping attempts: only those that were under way
\* when the limit was reached go beyond it.
LockoutHolds == guesses <= MaxLogin - 1 + Cardinality(Workers)
=============================================================================
