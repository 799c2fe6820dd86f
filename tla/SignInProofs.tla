---------------------------- MODULE SignInProofs ----------------------------
(***************************************************************************)
(* SignIn for every number of requests in flight, seconds, passwords and   *)
(* secrets: types, single-use codes, the lockout and ended sessions.       *)
(*                                                                         *)
(* Bounds keeps the counters within their bounds (a password or a secret   *)
(* that is about to be made still fits).  Spent says that a spent code is  *)
(* not newer than the last step of the authenticator's row: a confirmation *)
(* that no other one overtook takes that step no further back, and one     *)
(* that was overtaken makes newer codes good again.  Counting bounds the   *)
(* wrong passwords by the failures recorded and the requests that have one *)
(* to record.  Revoked compares what was revoked with the stamp of the     *)
(* row.                                                                    *)
(***************************************************************************)
EXTENDS SignIn, FiniteSetTheorems, TLAPS

-----------------------------------------------------------------------------
(* The invariant.                                                          *)

\* Requests that are to make a password.
Pending == {v \in Workers : loc[v].task \in {"password", "resetPassword"} /\ pc[v] # "mint"}

\* Requests that are to make a secret.
Making == {v \in Workers : pc[v] = "setup"}

Bounds ==
  /\ user.pw + Cardinality(Pending) <= MaxPasswords
  /\ totp.secret + Cardinality(Making) <= MaxSecrets
  /\ \A w \in Workers : pc[w] \in {"use", "activate"} => loc[w].code \in Codes

\* A code in use is not from the future, and not newer than one that is about
\* to confirm the enrolment: while that waits and no other confirmation is
\* written, the authenticator is off, and no code passes the comparison.
Spent ==
  /\ totp.last <= step
  /\ replayed = {} /\ \A c \in spent : c[2] <= totp.last
  /\ \A w \in Workers : pc[w] \in {"use", "activate"} => loc[w].code[2] <= step
  /\ \A w \in Workers : pc[w] = "activate" /\ w \notin late =>
       /\ ~totp.active
       /\ totp.last <= loc[w].code[2]
       /\ \A v \in Workers : pc[v] = "use" => loc[v].code[2] <= loc[w].code[2]

\* Requests with a failure to record, and with a password to compare.
Failing   == {w \in Workers : pc[w] = "failure"}
Comparing == {w \in Workers : pc[w] = "verify" /\ loc[w].task \in {"login", "stepUp"}}

\* The failures that count towards the next lockout.
Counted == IF fails.until = "recent" /\ fails.count < MaxLogin THEN fails.count ELSE 0

Quota  == ~Locked => guesses <= Counted + Cardinality(Failing)
Budget == guesses + Cardinality(Comparing) <= MaxLogin - 1 + Cardinality(Workers)

Full   == Locked => fails.count >= MaxLogin

Counting == Quota /\ Budget /\ Full

\* What a revocation will write ends the sessions it saw.
Revoked ==
  /\ user.after <= revocationInstant(now)
  /\ \A w \in Workers : pc[w] = "write" =>
       /\ user.after <= loc[w].after /\ loc[w].after <= revocationInstant(now)
       /\ \A s \in loc[w].seen : s.iat < loc[w].after
  /\ \A v, w \in Workers : pc[v] = "write" /\ pc[w] = "write" => v = w
  /\ EndedStaysEnded

-----------------------------------------------------------------------------
(* Time in whole seconds.                                                  *)

\* What the quotient of a division says, whatever the divisor.
LEMMA DivBounds ==
  ASSUME NEW a \in Nat, NEW d \in Nat \ {0}
  PROVE  a \div d \in Nat /\ d * (a \div d) <= a /\ a < d * (a \div d) + d
  BY SMT

\* Division is monotone.
LEMMA DivMonotone ==
  ASSUME NEW a \in Nat, NEW b \in Nat, NEW d \in Nat \ {0}, a <= b
  PROVE  a \div d <= b \div d
  <1> DEFINE q == a \div d
             r == b \div d
  <1>1. q \in Nat /\ r \in Nat /\ d * q <= a /\ b < d * r + d
    BY DivBounds
  <1> HIDE DEF q, r
  <1>2. ASSUME q >= r + 1 PROVE FALSE
    <2>1. d * q >= d * (r + 1)
      BY <1>1, <1>2, SMT
    <2>2. d * (r + 1) = d * r + d
      BY <1>1, SMT
    <2>3. QED
      BY <1>1, <2>1, <2>2, SMT
  <1>3. q <= r
    BY <1>1, <1>2
  <1> QED
    BY <1>3 DEF q, r

\* The instant of a revocation is a second of the model, never before the
\* revocation itself, and later for a later one.
LEMMA InstantFacts ==
  ASSUME NEW t \in 0..MaxNow
  PROVE  /\ revocationInstant(t) \in Seconds
         /\ t <= revocationInstant(t) * TPS
         /\ \A u \in 0..MaxNow : t <= u => revocationInstant(t) <= revocationInstant(u)
  <1>0. TPS \in Nat \ {0} /\ MaxNow \in Nat
    BY SignInAssumption
  <1>1. \A u \in 0..MaxNow : t <= u => revocationInstant(t) <= revocationInstant(u)
    BY <1>0, DivMonotone DEF revocationInstant
  <1>2. revocationInstant(t) \in Seconds
    BY <1>0, DivMonotone, DivBounds DEF revocationInstant, Seconds
  <1>3. t <= revocationInstant(t) * TPS
    <2> DEFINE q == (t + TPS - 1) \div TPS
    <2>1. q \in Nat /\ t + TPS - 1 < TPS * q + TPS
      BY <1>0, DivBounds
    <2> HIDE DEF q
    <2>2. t <= q * TPS
      BY <1>0, <2>1, SMT
    <2> QED
      BY <2>2 DEF q, revocationInstant
  <1> QED
    BY <1>1, <1>2, <1>3

\* A session gets a stamp of the model's seconds.
LEMMA IssueType ==
  ASSUME NEW after \in Seconds \cup {Never}, NEW t \in 0..MaxNow
  PROVE  issueAt(after, t) \in Seconds
  <1>0. TPS \in Nat \ {0} /\ MaxNow \in Nat
    BY SignInAssumption
  <1>1. t \div TPS \in Nat /\ t \div TPS <= (MaxNow + TPS - 1) \div TPS
    BY <1>0, DivMonotone, DivBounds
  <1>2. t \div TPS \in Seconds
    BY <1>0, <1>1, DivBounds DEF Seconds
  <1> QED
    BY <1>1, <1>2 DEF issueAt, Seconds, Never

-----------------------------------------------------------------------------
(* What a step may do.                                                     *)

\* What a request that is let in starts with.
Opens(p, l) ==
  /\ p \in PCs \ {"use", "write", "failure", "mint"} /\ l \in Locals
  /\ l.task \in {"password", "resetPassword"} => NewPassword
  /\ p = "setup" => NewSecret
  /\ p = "activate" => ~totp.active /\ totp.secret # 0 /\ l.code = <<totp.secret, step>>
  /\ p = "verify" /\ l.task \in {"login", "stepUp"} => ~Locked

\* The locals of nobody are locals.
LEMMA NoLocType ==
  /\ NoLoc \in Locals /\ NoUser \in User /\ NoTotp \in Totp /\ NoTries \in Tries
  /\ NoFails \in Fails
  <1>0. /\ MaxPasswords \in Nat \ {0} /\ MaxSecrets \in Nat \ {0} /\ MaxStep \in Nat \ {0}
    BY SignInAssumption
  <1>1. NoUser \in User
    BY <1>0 DEF NoUser, User
  <1>2. NoTotp \in Totp
    BY <1>0 DEF NoTotp, Totp
  <1>3. NoTries \in Tries /\ NoFails \in Fails
    BY DEF NoTries, Tries, NoFails, Fails
  <1>4. NoLoc \in Locals
    BY <1>0, <1>1, <1>2, <1>3 DEF NoLoc, Locals, Tasks
  <1> QED
    BY <1>1, <1>2, <1>3, <1>4

\* Every request starts with locals that fit what was checked.
LEMMA RequestOpens ==
  ASSUME TypeOK, NEW w \in Workers, Request(w)
  PROVE  \E p \in PCs : \E l \in Locals : Start(w, p, l) /\ Opens(p, l)
  <1> DEFINE Goal == \E p \in PCs : \E l \in Locals : Start(w, p, l) /\ Opens(p, l)
  <1> SUFFICES Goal
    OBVIOUS
  <1>0. /\ NoLoc \in Locals /\ NoTotp \in Totp
        /\ user \in User /\ totp \in Totp /\ tries \in Tries
        /\ Codes \subseteq Codes \cup {<<0, 0>>}
    BY NoLocType DEF TypeOK
  <1>1. ASSUME NEW pw \in 1..MaxPasswords, login(w, pw) PROVE Goal
    <2> DEFINE l == [NoLoc EXCEPT !.task = "login", !.user = user, !.totp = totp, !.pw = pw]
    <2>0. pw \in 0..MaxPasswords
      BY SignInAssumption
    <2>1. l \in Locals /\ l.task = "login"
      BY <1>0, <2>0 DEF NoLoc, Locals, Tasks
    <2>2. Start(w, "verify", l) /\ ~Locked
      BY <1>1 DEF login
    <2> HIDE DEF l
    <2> QED
      BY <2>1, <2>2 DEF Opens, PCs
  <1>2. ASSUME NEW pw \in 1..MaxPasswords, stepUp(w, pw) PROVE Goal
    <2> DEFINE l == [NoLoc EXCEPT !.task = "stepUp", !.user = user, !.pw = pw]
    <2>0. pw \in 0..MaxPasswords
      BY SignInAssumption
    <2>1. l \in Locals /\ l.task = "stepUp"
      BY <1>0, <2>0 DEF NoLoc, Locals, Tasks
    <2>2. Start(w, "verify", l) /\ ~Locked
      BY <1>2 DEF stepUp
    <2> HIDE DEF l
    <2> QED
      BY <2>1, <2>2 DEF Opens, PCs
  <1>3. ASSUME NEW pw \in 1..MaxPasswords, changePassword(w, pw) PROVE Goal
    <2> DEFINE l == [NoLoc EXCEPT !.task = "password", !.user = user, !.pw = pw]
    <2>0. pw \in 0..MaxPasswords
      BY SignInAssumption
    <2>1. l \in Locals /\ l.task = "password"
      BY <1>0, <2>0 DEF NoLoc, Locals, Tasks
    <2>2. Start(w, "verify", l) /\ NewPassword
      BY <1>3 DEF changePassword
    <2> HIDE DEF l
    <2> QED
      BY <2>1, <2>2 DEF Opens, PCs
  <1>4. ASSUME NEW mfaSatisfied \in BOOLEAN, signInVerifiedUser(w, mfaSatisfied) PROVE Goal
    <2> DEFINE l == [NoLoc EXCEPT !.task = "verified", !.user = user,
                                  !.totp = IF mfaSatisfied THEN NoTotp ELSE totp]
    <2>1. l \in Locals /\ l.task = "verified"
      BY <1>0 DEF NoLoc, Locals, Tasks
    <2>2. Start(w, "settings", l)
      BY <1>4 DEF signInVerifiedUser
    <2> HIDE DEF l
    <2> QED
      BY <2>1, <2>2 DEF Opens, PCs
  <1>5. ASSUME NEW c \in Codes, verifyMfaAndLogin(w, c) PROVE Goal
    <2> DEFINE l == [NoLoc EXCEPT !.task = "mfa", !.user = user, !.code = c, !.tries = tries]
    <2>1. l \in Locals /\ l.task = "mfa"
      BY <1>0 DEF NoLoc, Locals, Tasks
    <2>2. Start(w, "totp", l)
      BY <1>5 DEF verifyMfaAndLogin
    <2> HIDE DEF l
    <2> QED
      BY <2>1, <2>2 DEF Opens, PCs
  <1>6. ASSUME NEW c \in Codes, stepUpCode(w, c) PROVE Goal
    <2> DEFINE l == [NoLoc EXCEPT !.task = "stepUp", !.code = c, !.tries = tries]
    <2>1. l \in Locals /\ l.task = "stepUp"
      BY <1>0 DEF NoLoc, Locals, Tasks
    <2>2. Start(w, "totp", l)
      BY <1>6 DEF stepUpCode
    <2> HIDE DEF l
    <2> QED
      BY <2>1, <2>2 DEF Opens, PCs
  <1>7. ASSUME NEW c \in Codes, disableTotp(w, c) PROVE Goal
    <2> DEFINE l == [NoLoc EXCEPT !.task = "disable", !.code = c, !.tries = tries]
    <2>1. l \in Locals /\ l.task = "disable"
      BY <1>0 DEF NoLoc, Locals, Tasks
    <2>2. Start(w, "totp", l)
      BY <1>7 DEF disableTotp
    <2> HIDE DEF l
    <2> QED
      BY <2>1, <2>2 DEF Opens, PCs
  <1>8. CASE generateTotpSetup(w)
    <2> DEFINE l == [NoLoc EXCEPT !.task = "enrol"]
    <2>1. l \in Locals /\ l.task = "enrol"
      BY <1>0 DEF NoLoc, Locals, Tasks
    <2>2. Start(w, "setup", l) /\ NewSecret
      BY <1>8 DEF generateTotpSetup
    <2> HIDE DEF l
    <2> QED
      BY <2>1, <2>2 DEF Opens, PCs
  <1>9. CASE confirmTotpEnrollment(w)
    <2> DEFINE c == <<totp.secret, step>>
               l == [NoLoc EXCEPT !.task = "enrol", !.code = c]
    <2>0. Start(w, "activate", l) /\ ~totp.active /\ totp.secret # 0
      BY <1>9 DEF confirmTotpEnrollment
    <2>1. c \in Codes
      BY <2>0, SignInAssumption DEF TypeOK, Totp, Codes
    <2>2. l \in Locals /\ l.task = "enrol" /\ l.code = c
      BY <1>0, <2>1 DEF NoLoc, Locals, Tasks
    <2> HIDE DEF l
    <2> QED
      BY <2>0, <2>2 DEF Opens, PCs
  <1>10. CASE logout(w)
    <2> DEFINE l == [NoLoc EXCEPT !.task = "logout"]
    <2>1. l \in Locals /\ l.task = "logout"
      BY <1>0 DEF NoLoc, Locals, Tasks
    <2>2. Start(w, "instant", l)
      BY <1>10 DEF logout
    <2> HIDE DEF l
    <2> QED
      BY <2>1, <2>2 DEF Opens, PCs
  <1>11. CASE resetMfa(w)
    <2> DEFINE l == [NoLoc EXCEPT !.task = "resetMfa"]
    <2>1. l \in Locals /\ l.task = "resetMfa"
      BY <1>0 DEF NoLoc, Locals, Tasks
    <2>2. Start(w, "deactivate", l)
      BY <1>11 DEF resetMfa
    <2> HIDE DEF l
    <2> QED
      BY <2>1, <2>2 DEF Opens, PCs
  <1>12. CASE resetPassword(w)
    <2> DEFINE l == [NoLoc EXCEPT !.task = "resetPassword"]
    <2>1. l \in Locals /\ l.task = "resetPassword"
      BY <1>0 DEF NoLoc, Locals, Tasks
    <2>2. Start(w, "instant", l) /\ NewPassword
      BY <1>12 DEF resetPassword
    <2> HIDE DEF l
    <2> QED
      BY <2>1, <2>2 DEF Opens, PCs
  <1> HIDE DEF Goal
  <1>13. CASE \E pw \in 1..MaxPasswords : login(w, pw) \/ stepUp(w, pw) \/ changePassword(w, pw)
    BY <1>1, <1>2, <1>3, <1>13, Zenon
  <1>14. CASE \E mfaSatisfied \in BOOLEAN : signInVerifiedUser(w, mfaSatisfied)
    BY <1>4, <1>14, Zenon
  <1>15. CASE \E c \in Codes : verifyMfaAndLogin(w, c) \/ stepUpCode(w, c) \/ disableTotp(w, c)
    BY <1>5, <1>6, <1>7, <1>15, Zenon
  <1> QED
    BY <1>8, <1>9, <1>10, <1>11, <1>12, <1>13, <1>14, <1>15, Zenon DEF Request

\* A request starts with the row, the counters and the clock as they are.
LEMMA StartType ==
  ASSUME TypeOK, NEW w \in Workers, NEW p \in PCs, NEW l \in Locals, Start(w, p, l)
  PROVE  TypeOK'
  <1>1. requests' \in 0..MaxRequests
    BY SignInAssumption DEF TypeOK, Start
  <1>2. pc' \in [Workers -> PCs] /\ loc' \in [Workers -> Locals]
    BY DEF TypeOK, Start, Goto
  <1> QED
    BY <1>1, <1>2 DEF TypeOK, Start, clock, rows, memory, history, codes

\* How a request goes on.
Goes(w) ==
  \E p \in PCs \ {"verify", "setup", "activate"} : \E l \in Locals :
    /\ Goto(w, p, l)
    /\ l.task \in {loc[w].task, "none"}
    /\ pc[w] = "mint" => l.task = "none"
    /\ p = "use" => totp.active /\ totp' = totp /\ l.code = <<totp.secret, step>> /\ l.code \in Codes
    /\ p = "write" => /\ Cardinality(Revoking) < AtOnce
                      /\ l.after = revocationInstant(now)
                      /\ l.seen = {s \in issued : s.at < now /\ s.iat * TPS <= s.at}
                      /\ user' = user /\ ended' = ended

\* A request that ends.
LEMMA ReturnGoes ==
  ASSUME TypeOK, NEW w \in Workers, Return(w)
  PROVE  Goes(w)
  <1>1. "idle" \in PCs \ {"verify", "setup", "activate"} /\ NoLoc \in Locals /\ NoLoc.task = "none"
    BY NoLocType DEF PCs, NoLoc
  <1> QED
    BY <1>1 DEF Return, Goes

\* A request that goes on with the locals it has.
LEMMA StepGoes ==
  ASSUME TypeOK, NEW w \in Workers, pc[w] # "mint",
         NEW p \in {"settings", "instant", "failure", "mint", "deactivate"}, Step(w, p)
  PROVE  Goes(w)
  <1>1. p \in PCs \ {"verify", "setup", "activate"} /\ loc[w] \in Locals
    BY DEF PCs, TypeOK
  <1>2. p # "use" /\ p # "write"
    OBVIOUS
  <1> QED
    BY <1>1, <1>2 DEF Step, Goes

\* After a wrong code.
LEMMA WrongGoes ==
  ASSUME TypeOK, NEW w \in Workers, pc[w] # "mint", Wrong(w)
  PROVE  Goes(w)
  BY ReturnGoes, StepGoes DEF Wrong

\* A wrong code that is counted.
LEMMA MissedGoes ==
  ASSUME TypeOK, NEW w \in Workers, pc[w] # "mint", missed(w)
  PROVE  Goes(w) /\ tries' \in Tries
  <1> DEFINE t    == loc[w].tries
             next == [count |-> IF t.blocked THEN t.count + 1 ELSE 1, blocked |-> TRUE]
             l    == [loc[w] EXCEPT !.tries = next]
  <1>0. loc[w] \in Locals /\ t \in Tries
    BY DEF TypeOK, Locals
  <1>1. next \in Tries
    BY <1>0 DEF Tries
  <1>2. CASE next.count >= MaxTotp
    <2>1. l \in Locals /\ l.task = loc[w].task
      BY <1>0, <1>1 DEF Locals
    <2>2. Goto(w, "lock", l) /\ tries' = tries
      BY <1>2 DEF missed
    <2>3. "lock" \in PCs \ {"verify", "setup", "activate"}
      BY DEF PCs
    <2> HIDE DEF l
    <2> QED
      BY <2>1, <2>2, <2>3 DEF Goes, TypeOK
  <1>3. CASE ~(next.count >= MaxTotp)
    <2>1. tries' = next /\ Wrong(w)
      BY <1>3 DEF missed
    <2> QED
      BY <1>1, <2>1, WrongGoes
  <1> QED
    BY <1>2, <1>3

\* Where a request goes keeps the types of the program counters and locals.
LEMMA GoesType ==
  ASSUME TypeOK, NEW w \in Workers, Goes(w)
  PROVE  pc' \in [Workers -> PCs] /\ loc' \in [Workers -> Locals]
  BY DEF TypeOK, Goes, Goto

\* The sets that are counted are finite.
LEMMA Finite ==
  ASSUME NEW S \in SUBSET Workers
  PROVE  /\ IsFiniteSet(S) /\ Cardinality(S) \in Nat
         /\ Cardinality(Workers) \in Nat /\ Cardinality(S) <= Cardinality(Workers)
  <1>1. IsFiniteSet(Workers)
    BY SignInAssumption
  <1> QED
    BY <1>1, FS_Subset, FS_CardinalityType

\* A set has at most one member more when one is added.
LEMMA OneMore ==
  ASSUME NEW S \in SUBSET Workers, NEW w \in Workers
  PROVE  /\ Cardinality(S \cup {w}) \in Nat /\ Cardinality(S \cup {w}) <= Cardinality(S) + 1
         /\ w \notin S => Cardinality(S \cup {w}) = Cardinality(S) + 1
  <1>1. IsFiniteSet(S) /\ Cardinality(S) \in Nat /\ Cardinality(S \cup {w}) \in Nat
    BY Finite
  <1>2. Cardinality(S \cup {w}) = IF w \in S THEN Cardinality(S) ELSE Cardinality(S) + 1
    BY <1>1, FS_AddElement
  <1> QED
    BY <1>1, <1>2

\* And one member less when one is taken away.
LEMMA OneLess ==
  ASSUME NEW S \in SUBSET Workers, NEW w \in S
  PROVE  Cardinality(S \ {w}) \in Nat /\ Cardinality(S \ {w}) = Cardinality(S) - 1
  <1>1. IsFiniteSet(S) /\ Cardinality(S \ {w}) \in Nat
    BY Finite
  <1> QED
    BY <1>1, FS_RemoveElement

\* A part has no more members than the whole.
LEMMA NoMore ==
  ASSUME NEW S \in SUBSET Workers, NEW T \in SUBSET S
  PROVE  /\ Cardinality(S) \in Nat /\ Cardinality(T) \in Nat
         /\ Cardinality(T) <= Cardinality(S)
  <1>1. IsFiniteSet(S) /\ Cardinality(S) \in Nat /\ Cardinality(T) \in Nat
    BY Finite
  <1> QED
    BY <1>1, FS_Subset

\* The password that a request is to make fits the bound.
LEMMA PasswordFits ==
  ASSUME TypeOK, Bounds, NEW w \in Workers, w \in Pending
  PROVE  user.pw + 1 \in 1..MaxPasswords
  <1>1. Pending \in SUBSET Workers
    BY DEF Pending
  <1>2. Cardinality(Pending) \in Nat /\ Cardinality(Pending) # 0
    BY <1>1, Finite, FS_EmptySet
  <1>3. user.pw \in Nat /\ user.pw + Cardinality(Pending) <= MaxPasswords /\ MaxPasswords \in Nat
    BY SignInAssumption DEF TypeOK, User, Bounds
  <1> QED
    BY <1>2, <1>3

\* And so does the secret.
LEMMA SecretFits ==
  ASSUME TypeOK, Bounds, NEW w \in Workers, w \in Making
  PROVE  totp.secret + 1 \in 0..MaxSecrets
  <1>1. Making \in SUBSET Workers
    BY DEF Making
  <1>2. Cardinality(Making) \in Nat /\ Cardinality(Making) # 0
    BY <1>1, Finite, FS_EmptySet
  <1>3. totp.secret \in Nat /\ totp.secret + Cardinality(Making) <= MaxSecrets /\ MaxSecrets \in Nat
    BY SignInAssumption DEF TypeOK, Totp, Bounds
  <1> QED
    BY <1>2, <1>3

\* Sessions are stamped with a second of the model.
LEMMA IssuedType ==
  ASSUME TypeOK, NEW after \in Seconds \cup {Never}, Issue(after)
  PROVE  issued' \subseteq Session
  <1>1. issueAt(after, now) \in Seconds /\ now \in 0..MaxNow
    BY IssueType DEF TypeOK
  <1>2. [iat |-> issueAt(after, now), at |-> now] \in Session
    BY <1>1 DEF Session
  <1> QED
    BY <1>2 DEF Issue, TypeOK

\* Every step of a request keeps the types, and goes on as described.
LEMMA ContinueType ==
  ASSUME TypeOK, Bounds, NEW w \in Workers, Continue(w)
  PROVE  Goes(w) /\ TypeOK'
  <1>0. /\ loc[w] \in Locals /\ pc[w] \in PCs
        /\ loc[w].user.after \in Seconds \cup {Never}
        /\ loc[w].tries \in Tries /\ loc[w].seen \subseteq Session
        /\ loc[w].after \in Seconds \cup {Never}
    BY DEF TypeOK, Locals, User
  <1>1. CASE verify(w)
    <2>1. Goes(w)
      BY <1>1, ReturnGoes, StepGoes DEF verify
    <2>2. fails' \in Fails /\ guesses' \in Nat
      BY <1>1, NoLocType DEF verify, TypeOK
    <2> QED
      BY <1>1, <2>1, <2>2, GoesType DEF verify, TypeOK, codes, clock, rows
  <1>2. CASE recordLoginFailure(w)
    <2>1. Goes(w)
      BY <1>2, ReturnGoes DEF recordLoginFailure
    <2>2. fails' \in Fails
      BY <1>2 DEF recordLoginFailure, TypeOK, Fails
    <2> QED
      BY <1>2, <2>1, <2>2, GoesType DEF recordLoginFailure, TypeOK, codes, clock, rows, history
  <1>3. CASE startSession(w)
    <2>1. Goes(w)
      BY <1>3, ReturnGoes DEF startSession
    <2>2. partial' \in BOOLEAN /\ issued' \subseteq Session
      BY <1>0, <1>3, IssuedType DEF startSession, TypeOK
    <2> QED
      BY <1>3, <2>1, <2>2, GoesType DEF startSession, TypeOK, codes, clock, rows, memory, history
  <1>4. CASE matchingStep(w)
    <2>1. pc[w] # "mint"
      BY <1>4 DEF matchingStep
    <2>2. CASE ~totp.active
      BY <1>4, <2>1, <2>2, WrongGoes, GoesType DEF matchingStep, TypeOK, codes, clock, rows, history
    <2>3. CASE totp.active /\ loc[w].code = <<totp.secret, step>>
      <3> DEFINE l == [loc[w] EXCEPT !.totp = totp]
      <3>1. l \in Locals /\ l.task = loc[w].task /\ l.code = loc[w].code
        BY <1>0 DEF Locals, TypeOK
      <3>2. /\ Goto(w, "use", l)
            /\ UNCHANGED <<clock, rows, fails, tries, partial, issued, history, requests>>
        BY <1>4, <2>3 DEF matchingStep
      <3>3. l.code \in Codes
        <4>1. loc[w].code # <<0, 0>>
          BY <2>3 DEF TypeOK
        <4> QED
          BY <1>0, <3>1, <4>1 DEF Locals
      <3>4. "use" \in PCs \ {"verify", "setup", "activate"}
        BY DEF PCs
      <3> HIDE DEF l
      <3>5. Goes(w)
        BY <2>1, <2>3, <3>1, <3>2, <3>3, <3>4 DEF Goes, rows
      <3> QED
        BY <3>2, <3>5, GoesType DEF TypeOK, codes, clock, rows, history
    <2>4. CASE totp.active /\ loc[w].code # <<totp.secret, step>>
      BY <1>4, <2>1, <2>4, MissedGoes, GoesType DEF matchingStep, TypeOK, codes, clock, rows, history
    <2> QED
      BY <2>2, <2>3, <2>4
  <1>5. CASE use(w)
    <2>1. pc[w] # "mint" /\ loc[w].code \in Codes
      BY <1>5 DEF use, Bounds
    <2>2. CASE unused(w)
      <3>1. Goes(w)
        BY <1>5, <2>1, <2>2, StepGoes, ReturnGoes DEF use
      <3>2. totp' \in Totp
        <4>1. loc[w].code[2] \in 0..MaxStep
          BY <2>1 DEF Codes
        <4> QED
          BY <1>5, <2>2, <4>1, Zenon DEF use, TypeOK, Totp
      <3>3. spent' \subseteq Codes /\ replayed' \subseteq Codes
        BY <1>5, <2>1, <2>2 DEF use, TypeOK
      <3>4. fails' \in Fails /\ guesses' \in Nat /\ tries' \in Tries
        BY <1>5, <2>2, NoLocType DEF use, TypeOK
      <3> QED
        BY <1>5, <3>1, <3>2, <3>3, <3>4, GoesType DEF use, TypeOK, clock
    <2>3. CASE ~unused(w)
      BY <1>5, <2>1, <2>3, MissedGoes, GoesType DEF use, TypeOK, clock
    <2> QED
      BY <2>2, <2>3
  <1>6. CASE lock(w)
    <2>1. Goes(w)
      BY <1>6, WrongGoes DEF lock
    <2> QED
      BY <1>0, <1>6, <2>1, GoesType DEF lock, TypeOK, codes, clock, rows, history
  <1>7. CASE mint(w)
    <2>1. Goes(w) /\ issued' \subseteq Session
      BY <1>0, <1>7, ReturnGoes, IssuedType DEF mint
    <2> QED
      BY <1>7, <2>1, GoesType DEF mint, TypeOK, codes, clock, rows, memory, history
  <1>8. CASE setup(w)
    <2>1. Goes(w)
      BY <1>8, ReturnGoes DEF setup
    <2>2. totp.secret + 1 \in 0..MaxSecrets
      BY <1>8, SecretFits DEF setup, Making
    <2>3. totp' \in Totp
      BY <1>8, <2>2, Zenon DEF setup, TypeOK, Totp
    <2> QED
      BY <1>8, <2>1, <2>3, GoesType DEF setup, TypeOK, codes, clock, memory, history
  <1>9. CASE activate(w)
    <2>1. Goes(w) /\ loc[w].code \in Codes
      BY <1>9, ReturnGoes DEF activate, Bounds
    <2>2. loc[w].code[2] \in 0..MaxStep
      BY <2>1 DEF Codes
    <2>3. totp' \in Totp
      BY <1>9, <2>2, Zenon DEF activate, TypeOK, Totp
    <2>4. spent' \subseteq Codes /\ late' \subseteq Workers
      BY <1>9, <2>1 DEF activate, TypeOK
    <2> QED
      BY <1>9, <2>1, <2>3, <2>4, GoesType DEF activate, TypeOK, clock, memory
  <1>10. CASE deactivate(w)
    <2>1. Goes(w)
      BY <1>10, StepGoes DEF deactivate
    <2>2. totp' \in Totp
      BY <1>10, Zenon DEF deactivate, TypeOK, Totp
    <2> QED
      BY <1>10, <2>1, <2>2, GoesType DEF deactivate, TypeOK, codes, clock, memory, history
  <1>11. CASE instant(w)
    <2> DEFINE l == [loc[w] EXCEPT !.after = revocationInstant(now),
                                   !.seen = {s \in issued : s.at < now /\ s.iat * TPS <= s.at}]
    <2>1. revocationInstant(now) \in Seconds
      BY InstantFacts DEF TypeOK
    <2>2. {s \in issued : s.at < now /\ s.iat * TPS <= s.at} \subseteq Session
      BY DEF TypeOK
    <2>3. /\ l \in Locals /\ l.task = loc[w].task /\ l.after = revocationInstant(now)
          /\ l.seen = {s \in issued : s.at < now /\ s.iat * TPS <= s.at}
      BY <1>0, <2>1, <2>2 DEF Locals
    <2>4. /\ Goto(w, "write", l) /\ pc[w] = "instant" /\ Cardinality(Revoking) < AtOnce
          /\ UNCHANGED <<clock, rows, memory, partial, issued, history, requests>>
      BY <1>11 DEF instant
    <2>5. "write" \in PCs \ {"verify", "setup", "activate"}
      BY DEF PCs
    <2> HIDE DEF l
    <2>6. Goes(w)
      BY <2>3, <2>4, <2>5 DEF Goes, rows, history
    <2> QED
      BY <2>4, <2>6, GoesType DEF TypeOK, codes, clock, rows, memory, history
  <1>12. CASE write(w)
    <2> DEFINE l == [loc[w] EXCEPT !.user.after = loc[w].after, !.seen = {}]
    <2>1. Goes(w)
      <3>1. l \in Locals /\ l.task = loc[w].task
        BY <1>0 DEF Locals, User
      <3>2. CASE loc[w].task = "password"
        <4>1. Goto(w, "mint", l) /\ pc[w] = "write"
          BY <1>12, <3>2 DEF write
        <4>2. "mint" \in PCs \ {"verify", "setup", "activate"}
          BY DEF PCs
        <4> HIDE DEF l
        <4> QED
          BY <3>1, <4>1, <4>2 DEF Goes
      <3>3. CASE loc[w].task # "password"
        BY <1>12, <3>3, ReturnGoes DEF write
      <3> QED
        BY <3>2, <3>3
    <2>2. user' \in User
      <3>1. loc[w].task \in {"password", "resetPassword"} => user.pw + 1 \in 1..MaxPasswords
        BY <1>12, PasswordFits DEF write, Pending
      <3> QED
        BY <1>0, <1>12, <3>1 DEF write, TypeOK, User
    <2>3. ended' \subseteq Session
      BY <1>0, <1>12 DEF write, TypeOK
    <2> QED
      BY <1>12, <2>1, <2>2, <2>3, GoesType DEF write, TypeOK, codes, clock, memory
  <1> QED
    BY <1>1, <1>2, <1>3, <1>4, <1>5, <1>6, <1>7, <1>8, <1>9, <1>10, <1>11, <1>12 DEF Continue

\* Administrators and time move nobody's request.
Surroundings == setStatus \/ tick \/ nextStep \/ passLockout \/ passBlock

\* And keep the types.
LEMMA SurroundingsType ==
  ASSUME TypeOK, Surroundings
  PROVE  /\ TypeOK' /\ UNCHANGED <<totp, codes, ended, pc, loc>>
         /\ user'.pw = user.pw /\ user'.after = user.after
         /\ now <= now' /\ step <= step'
  <1>1. CASE setStatus
    <2>1. user' \in User /\ user'.pw = user.pw /\ user'.after = user.after
      BY <1>1 DEF setStatus, TypeOK, User
    <2> QED
      BY <1>1, <2>1, SignInAssumption DEF setStatus, TypeOK, codes, clock, memory, history
  <1>2. CASE tick
    BY <1>2, SignInAssumption DEF tick, TypeOK, codes, rows, memory, history
  <1>3. CASE nextStep
    BY <1>3, SignInAssumption DEF nextStep, TypeOK, codes, rows, memory, history
  <1>4. CASE passLockout
    <2>1. fails' \in Fails
      BY <1>4 DEF passLockout, TypeOK, Fails
    <2> QED
      BY <1>4, <2>1 DEF passLockout, TypeOK, codes, clock, rows
  <1>5. CASE passBlock
    <2>1. tries' \in Tries
      BY <1>5, Zenon DEF passBlock, TypeOK, Tries
    <2> QED
      BY <1>5, <2>1 DEF passBlock, TypeOK, codes, clock, rows, history
  <1> QED
    BY <1>1, <1>2, <1>3, <1>4, <1>5 DEF Surroundings

-----------------------------------------------------------------------------
(* The bounds.                                                             *)

\* A request in flight makes no more passwords than it was let in for.
LEMMA PendingShrinks ==
  ASSUME TypeOK, NEW w \in Workers, Goes(w)
  PROVE  Pending' \subseteq Pending
  BY DEF Goes, Goto, Pending, TypeOK

\* The bound on passwords, when fewer are to be made and none was.
LEMMA PasswordsKept ==
  ASSUME TypeOK, Bounds, user'.pw = user.pw, Pending' \subseteq Pending
  PROVE  user'.pw + Cardinality(Pending') <= MaxPasswords
  <1>1. Pending \in SUBSET Workers /\ Pending' \in SUBSET Workers
    BY DEF Pending
  <1>2. Cardinality(Pending) \in Nat /\ Cardinality(Pending') \in Nat
    BY <1>1, Finite
  <1>3. Cardinality(Pending') <= Cardinality(Pending)
    BY <1>1, NoMore
  <1>4. user.pw \in Nat /\ user.pw + Cardinality(Pending) <= MaxPasswords /\ MaxPasswords \in Nat
    BY SignInAssumption DEF TypeOK, User, Bounds
  <1> QED
    BY <1>2, <1>3, <1>4

\* The bound on secrets, when fewer are to be made and none was.
LEMMA SecretsKept ==
  ASSUME TypeOK, Bounds, totp'.secret = totp.secret, Making' \subseteq Making
  PROVE  totp'.secret + Cardinality(Making') <= MaxSecrets
  <1>1. Making \in SUBSET Workers /\ Making' \in SUBSET Workers
    BY DEF Making
  <1>2. Cardinality(Making) \in Nat /\ Cardinality(Making') \in Nat
    BY <1>1, Finite
  <1>3. Cardinality(Making') <= Cardinality(Making)
    BY <1>1, NoMore
  <1>4. totp.secret \in Nat /\ totp.secret + Cardinality(Making) <= MaxSecrets /\ MaxSecrets \in Nat
    BY SignInAssumption DEF TypeOK, Totp, Bounds
  <1> QED
    BY <1>2, <1>3, <1>4

\* A request that is let in keeps the bounds.
LEMMA StartBounds ==
  ASSUME TypeOK, Bounds, NEW w \in Workers, NEW p \in PCs, NEW l \in Locals,
         Start(w, p, l), Opens(p, l)
  PROVE  Bounds'
  <1>0. UNCHANGED <<user, totp, step>>
    BY DEF Start, clock, rows
  <1>1. user'.pw + Cardinality(Pending') <= MaxPasswords
    <2>1. CASE l.task \in {"password", "resetPassword"}
      <3>1. Pending \in SUBSET Workers /\ Pending' \subseteq Pending \cup {w}
        BY DEF Start, Goto, Pending, TypeOK
      <3>2. Pending \cup {w} \in SUBSET Workers /\ Pending' \in SUBSET (Pending \cup {w})
        BY <3>1
      <3>3. Cardinality(Pending \cup {w}) <= Cardinality(Pending) + 1 /\ Cardinality(Pending) \in Nat
        BY <3>1, OneMore, Finite
      <3>4. Cardinality(Pending') <= Cardinality(Pending \cup {w}) /\ Cardinality(Pending \cup {w}) \in Nat
        BY <3>2, NoMore
      <3>5. Cardinality(Pending') \in Nat
        BY <3>2, NoMore
      <3>6. user.pw + Cardinality(Pending) < MaxPasswords /\ user.pw \in Nat /\ MaxPasswords \in Nat
        BY <2>1, SignInAssumption DEF Opens, NewPassword, Pending, TypeOK, User
      <3> QED
        BY <1>0, <3>2, <3>3, <3>4, <3>5, <3>6
    <2>2. CASE l.task \notin {"password", "resetPassword"}
      <3>1. Pending' \subseteq Pending
        BY <2>2 DEF Start, Goto, Pending, TypeOK
      <3> QED
        BY <1>0, <3>1, PasswordsKept
    <2> QED
      BY <2>1, <2>2
  <1>2. totp'.secret + Cardinality(Making') <= MaxSecrets
    <2>1. CASE p = "setup"
      <3>1. Making \in SUBSET Workers /\ Making' \subseteq Making \cup {w}
        BY DEF Start, Goto, Making, TypeOK
      <3>2. Making \cup {w} \in SUBSET Workers /\ Making' \in SUBSET (Making \cup {w})
        BY <3>1
      <3>3. Cardinality(Making \cup {w}) <= Cardinality(Making) + 1 /\ Cardinality(Making) \in Nat
        BY <3>1, OneMore, Finite
      <3>4. Cardinality(Making') <= Cardinality(Making \cup {w}) /\ Cardinality(Making \cup {w}) \in Nat
        BY <3>2, NoMore
      <3>5. Cardinality(Making') \in Nat
        BY <3>2, NoMore
      <3>6. totp.secret + Cardinality(Making) < MaxSecrets /\ totp.secret \in Nat /\ MaxSecrets \in Nat
        BY <2>1, SignInAssumption DEF Opens, NewSecret, Making, TypeOK, Totp
      <3> QED
        BY <1>0, <3>3, <3>4, <3>5, <3>6
    <2>2. CASE p # "setup"
      <3>1. Making' \subseteq Making
        BY <2>2 DEF Start, Goto, Making, TypeOK
      <3> QED
        BY <1>0, <3>1, SecretsKept
    <2> QED
      BY <2>1, <2>2
  <1>3. ASSUME NEW v \in Workers, pc'[v] \in {"use", "activate"}  PROVE loc'[v].code \in Codes
    <2>1. CASE v = w
      <3>1. pc'[w] = p /\ loc'[w] = l
        BY DEF Start, Goto, TypeOK
      <3>2. p = "activate" => l.code \in Codes
        <4>1. totp.secret \in 0..MaxSecrets /\ step \in 1..MaxStep
          BY DEF TypeOK, Totp
        <4> QED
          BY <4>1, SignInAssumption DEF Opens, Codes
      <3> QED
        BY <1>3, <2>1, <3>1, <3>2 DEF Opens
    <2>2. CASE v # w
      BY <1>3, <2>2 DEF Start, Goto, TypeOK, Bounds
    <2> QED
      BY <2>1, <2>2
  <1> QED
    BY <1>1, <1>2, <1>3 DEF Bounds

\* A request in flight keeps the bounds.
LEMMA ContinueBounds ==
  ASSUME TypeOK, Bounds, NEW w \in Workers, Continue(w), Goes(w)
  PROVE  Bounds'
  <1>1. user'.pw + Cardinality(Pending') <= MaxPasswords
    <2>1. CASE write(w) /\ loc[w].task \in {"password", "resetPassword"}
      <3>1. w \in Pending /\ Pending \in SUBSET Workers
        BY <2>1 DEF write, Pending
      <3>2. w \notin Pending'
        BY <2>1 DEF write, Goto, Return, NoLoc, Pending, TypeOK
      <3>3. Pending' \subseteq Pending \ {w}
        BY <3>2, PendingShrinks
      <3>4. Pending \ {w} \in SUBSET Workers /\ Pending' \in SUBSET (Pending \ {w})
        BY <3>1, <3>3
      <3>5. Cardinality(Pending \ {w}) = Cardinality(Pending) - 1 /\ Cardinality(Pending) \in Nat
        BY <3>1, OneLess, Finite
      <3>6. Cardinality(Pending') <= Cardinality(Pending \ {w}) /\ Cardinality(Pending') \in Nat
        BY <3>4, NoMore
      <3>7. user'.pw = user.pw + 1
        BY <2>1 DEF write
      <3>8. user.pw \in Nat /\ user.pw + Cardinality(Pending) <= MaxPasswords /\ MaxPasswords \in Nat
        BY SignInAssumption DEF TypeOK, User, Bounds
      <3> QED
        BY <3>5, <3>6, <3>7, <3>8
    <2>2. CASE ~(write(w) /\ loc[w].task \in {"password", "resetPassword"})
      <3>1. user'.pw = user.pw
        BY <2>2 DEF Continue, verify, recordLoginFailure, startSession, matchingStep, use, lock, mint,
                    setup, activate, deactivate, instant, write, rows
      <3> QED
        BY <3>1, PendingShrinks, PasswordsKept
    <2> QED
      BY <2>1, <2>2
  <1>2. totp'.secret + Cardinality(Making') <= MaxSecrets
    <2>0. Making \in SUBSET Workers /\ Making' \subseteq Making
      BY DEF Goes, Goto, Making, TypeOK
    <2>1. CASE setup(w)
      <3>1. w \in Making
        BY <2>1 DEF setup, Making
      <3>2. w \notin Making'
        BY <2>1 DEF setup, Goto, Return, Making, TypeOK
      <3>3. Making \ {w} \in SUBSET Workers /\ Making' \in SUBSET (Making \ {w})
        BY <2>0, <3>2
      <3>4. Cardinality(Making \ {w}) = Cardinality(Making) - 1 /\ Cardinality(Making) \in Nat
        BY <2>0, <3>1, OneLess, Finite
      <3>5. Cardinality(Making') <= Cardinality(Making \ {w}) /\ Cardinality(Making') \in Nat
        BY <3>3, NoMore
      <3>6. totp'.secret = totp.secret + 1
        BY <2>1 DEF setup, TypeOK, Totp
      <3>7. totp.secret \in Nat /\ totp.secret + Cardinality(Making) <= MaxSecrets /\ MaxSecrets \in Nat
        BY SignInAssumption DEF TypeOK, Totp, Bounds
      <3> QED
        BY <3>4, <3>5, <3>6, <3>7
    <2>2. CASE ~setup(w)
      <3>1. totp'.secret = totp.secret
        BY <2>2 DEF Continue, verify, recordLoginFailure, startSession, matchingStep, use, lock, mint,
                    activate, deactivate, instant, write, rows, TypeOK, Totp
      <3> QED
        BY <2>0, <3>1, SecretsKept
    <2> QED
      BY <2>1, <2>2
  <1>3. ASSUME NEW v \in Workers, pc'[v] \in {"use", "activate"}  PROVE loc'[v].code \in Codes
    <2>1. CASE v = w
      BY <1>3, <2>1 DEF Goes, Goto, TypeOK
    <2>2. CASE v # w
      BY <1>3, <2>2 DEF Goes, Goto, TypeOK, Bounds
    <2> QED
      BY <2>1, <2>2
  <1> QED
    BY <1>1, <1>2, <1>3 DEF Bounds

-----------------------------------------------------------------------------
(* Codes.                                                                  *)

\* A request that is let in spends no code.
LEMMA StartSpent ==
  ASSUME TypeOK, Spent, NEW w \in Workers, NEW p \in PCs, NEW l \in Locals,
         Start(w, p, l), Opens(p, l)
  PROVE  Spent'
  <1>0. UNCHANGED <<totp, step, spent, replayed, late>>
    BY DEF Start, clock, rows, history, codes
  <1>1. pc'[w] = p /\ loc'[w] = l /\ p # "use"
    BY DEF Start, Goto, TypeOK, Opens
  <1>2. \A v \in Workers : v # w => pc'[v] = pc[v] /\ loc'[v] = loc[v]
    BY DEF Start, Goto, TypeOK
  <1>3. p = "activate" => l.code[2] = step /\ ~totp.active
    BY DEF Opens
  <1>4. step \in Nat /\ totp.last \in Nat
    BY DEF TypeOK, Totp
  <1>5. ASSUME NEW v \in Workers, pc'[v] \in {"use", "activate"}
        PROVE  loc'[v].code[2] <= step'
    <2>1. CASE v = w
      BY <1>0, <1>1, <1>3, <1>4, <1>5, <2>1
    <2>2. CASE v # w
      BY <1>0, <1>2, <1>5, <2>2 DEF Spent
    <2> QED
      BY <2>1, <2>2
  <1>6. ASSUME NEW v \in Workers, pc'[v] = "activate", v \notin late'
        PROVE  /\ ~totp'.active /\ totp'.last <= loc'[v].code[2]
               /\ \A u \in Workers : pc'[u] = "use" => loc'[u].code[2] <= loc'[v].code[2]
    <2>1. CASE v = w
      <3>1. ~totp'.active /\ totp'.last <= loc'[v].code[2]
        BY <1>0, <1>1, <1>3, <1>6, <2>1 DEF Spent
      <3>2. ASSUME NEW u \in Workers, pc'[u] = "use" PROVE loc'[u].code[2] <= loc'[v].code[2]
        BY <1>1, <1>2, <1>3, <1>6, <2>1, <3>2 DEF Spent
      <3> QED
        BY <3>1, <3>2
    <2>2. CASE v # w
      BY <1>0, <1>1, <1>2, <1>6, <2>2 DEF Spent
    <2> QED
      BY <2>1, <2>2
  <1> QED
    BY <1>0, <1>5, <1>6 DEF Spent

\* Accepting a code moves the row's last step up to it, past every other
\* request with the same code.
LEMMA UseSpent ==
  ASSUME TypeOK, Bounds, Spent, NEW w \in Workers, use(w), unused(w), Goes(w), TypeOK'
  PROVE  Spent'
  <1> DEFINE k == loc[w].code
  <1>1. /\ k \in Codes /\ k[2] <= step /\ totp.last < k[2] /\ step' = step
        /\ totp'.last = k[2] /\ totp'.active = totp.active
        /\ spent' = spent \cup {k} /\ replayed' = replayed \cup ({k} \cap spent) /\ late' = late
        /\ pc'[w] \notin {"use", "activate"}
    <2>1. k \in Codes /\ k[2] <= step /\ totp.last < k[2] /\ step' = step /\ late' = late
      BY DEF use, unused, Bounds, Spent, clock
    <2>2. totp'.last = k[2] /\ totp'.active = totp.active
      BY DEF use, TypeOK, Totp
    <2>3. spent' = spent \cup {k} /\ replayed' = replayed \cup ({k} \cap spent)
      BY DEF use
    <2>4. pc'[w] \notin {"use", "activate"}
      BY DEF use, Step, Return, Goto, TypeOK
    <2> QED
      BY <2>1, <2>2, <2>3, <2>4
  <1>2. \A v \in Workers : v # w => pc'[v] = pc[v] /\ loc'[v] = loc[v]
    BY DEF Goes, Goto, TypeOK
  <1>3. k[2] \in Nat /\ step \in Nat /\ totp.last \in Nat /\ \A c \in spent : c[2] \in Nat
    BY <1>1 DEF TypeOK, Totp, Codes
  <1>4. \A v \in Workers : pc[v] = "activate" /\ v \notin late => k[2] <= loc[v].code[2] /\ ~totp.active
    BY DEF Spent, use
  <1> HIDE DEF k
  <1>5. replayed' = {} /\ \A c \in spent' : c[2] <= totp'.last
    <2>1. k \notin spent /\ replayed = {}
      BY <1>1, <1>3 DEF Spent
    <2>2. \A c \in spent : c[2] <= k[2]
      BY <1>1, <1>3 DEF Spent
    <2> QED
      BY <1>1, <1>3, <2>1, <2>2
  <1>6. ASSUME NEW v \in Workers, pc'[v] \in {"use", "activate"} PROVE loc'[v].code[2] <= step'
    BY <1>1, <1>2, <1>6 DEF Spent
  <1>7. ASSUME NEW v \in Workers, pc'[v] = "activate", v \notin late'
        PROVE  /\ ~totp'.active /\ totp'.last <= loc'[v].code[2]
               /\ \A u \in Workers : pc'[u] = "use" => loc'[u].code[2] <= loc'[v].code[2]
    <2>1. v # w /\ pc[v] = "activate" /\ v \notin late /\ loc'[v] = loc[v]
      BY <1>1, <1>2, <1>7
    <2>2. k[2] <= loc[v].code[2] /\ ~totp.active
      BY <1>4, <2>1
    <2>3. ASSUME NEW u \in Workers, pc'[u] = "use" PROVE loc'[u].code[2] <= loc'[v].code[2]
      BY <1>1, <1>2, <2>1, <2>3 DEF Spent
    <2> QED
      BY <1>1, <2>1, <2>2, <2>3
  <1> QED
    BY <1>1, <1>3, <1>5, <1>6, <1>7 DEF Spent

\* Confirming the enrolment moves it up too; an overtaken confirmation may
\* move it back, behind codes that are good again then.
LEMMA ActivateSpent ==
  ASSUME TypeOK, Bounds, Spent, NEW w \in Workers, activate(w), Goes(w), TypeOK'
  PROVE  Spent'
  <1> DEFINE k == loc[w].code
  <1>1. /\ k \in Codes /\ k[2] <= step /\ step' = step
        /\ totp'.last = k[2] /\ replayed' = replayed
        /\ spent' = {k} \cup IF w \in late THEN {d \in spent : d[2] <= k[2]} ELSE spent
        /\ late' = {v \in Workers \ {w} : pc[v] = "activate"}
        /\ pc'[w] = "idle"
    <2>1. k \in Codes /\ k[2] <= step /\ step' = step
      BY DEF activate, Bounds, Spent, clock
    <2>2. totp'.last = k[2]
      BY DEF activate, TypeOK, Totp
    <2>3. pc'[w] = "idle"
      BY DEF activate, Return, Goto, TypeOK
    <2> QED
      BY <2>1, <2>2, <2>3 DEF activate
  <1>2. \A v \in Workers : v # w => pc'[v] = pc[v] /\ loc'[v] = loc[v]
    BY DEF Goes, Goto, TypeOK
  <1>3. k[2] \in Nat /\ step \in Nat /\ totp.last \in Nat /\ \A c \in spent : c[2] \in Nat
    BY <1>1 DEF TypeOK, Totp, Codes
  <1>4. w \notin late => totp.last <= k[2]
    BY DEF Spent, activate
  <1> HIDE DEF k
  <1>5. \A c \in spent' : c[2] <= totp'.last
    <2>1. CASE w \in late
      BY <1>1, <1>3, <2>1
    <2>2. CASE w \notin late
      <3>1. \A c \in spent : c[2] <= k[2]
        BY <1>3, <1>4, <2>2 DEF Spent
      <3> QED
        BY <1>1, <1>3, <2>2, <3>1
    <2> QED
      BY <2>1, <2>2
  <1>6. ASSUME NEW v \in Workers, pc'[v] \in {"use", "activate"} PROVE loc'[v].code[2] <= step'
    BY <1>1, <1>2, <1>6 DEF Spent
  <1>7. \A v \in Workers : pc'[v] = "activate" => v \in late'
    BY <1>1, <1>2
  <1> QED
    BY <1>1, <1>3, <1>5, <1>6, <1>7 DEF Spent

\* The other steps leave the last step and the codes alone.  A code that
\* passes the comparison meets an authenticator that is on.
LEMMA OtherSpent ==
  ASSUME TypeOK, Spent, NEW w \in Workers, Goes(w),
         step' = step, codes' = codes, totp'.last = totp.last, totp'.active => totp.active
  PROVE  Spent'
  <1>1. PICK p \in PCs \ {"verify", "setup", "activate"}, l \in Locals :
          /\ Goto(w, p, l)
          /\ p = "use" => totp.active /\ totp' = totp /\ l.code = <<totp.secret, step>> /\ l.code \in Codes
    BY DEF Goes
  <1>2. pc'[w] = p /\ loc'[w] = l
    BY <1>1 DEF Goto, TypeOK
  <1>3. \A v \in Workers : v # w => pc'[v] = pc[v] /\ loc'[v] = loc[v]
    BY <1>1 DEF Goto, TypeOK
  <1>0. UNCHANGED <<spent, replayed, late>>
    BY DEF codes
  <1>4. p = "use" => l.code[2] <= step /\ \A v \in Workers : pc[v] = "activate" => v \in late
    BY <1>1 DEF Spent, TypeOK
  <1>5. ASSUME NEW v \in Workers, pc'[v] \in {"use", "activate"} PROVE loc'[v].code[2] <= step'
    <2>1. CASE v = w
      BY <1>1, <1>2, <1>4, <1>5, <2>1
    <2>2. CASE v # w
      BY <1>3, <1>5, <2>2 DEF Spent
    <2> QED
      BY <2>1, <2>2
  <1>6. ASSUME NEW v \in Workers, pc'[v] = "activate", v \notin late'
        PROVE  /\ ~totp'.active /\ totp'.last <= loc'[v].code[2]
               /\ \A u \in Workers : pc'[u] = "use" => loc'[u].code[2] <= loc'[v].code[2]
    <2>1. v # w /\ pc[v] = "activate" /\ v \notin late /\ loc'[v] = loc[v] /\ p # "use"
      BY <1>0, <1>1, <1>2, <1>3, <1>4, <1>6
    <2>2. ASSUME NEW u \in Workers, pc'[u] = "use" PROVE loc'[u].code[2] <= loc'[v].code[2]
      BY <1>2, <1>3, <2>1, <2>2 DEF Spent
    <2> QED
      BY <2>1, <2>2 DEF Spent
  <1> QED
    BY <1>0, <1>5, <1>6 DEF Spent

\* Every step of a request.
LEMMA ContinueSpent ==
  ASSUME TypeOK, Bounds, Spent, NEW w \in Workers, Continue(w), Goes(w), TypeOK'
  PROVE  Spent'
  <1>1. CASE use(w) /\ unused(w)
    BY <1>1, UseSpent
  <1>2. CASE activate(w)
    BY <1>2, ActivateSpent
  <1>3. CASE ~(use(w) /\ unused(w)) /\ ~activate(w)
    <2>1. step' = step /\ codes' = codes
      BY <1>3 DEF Continue, verify, recordLoginFailure, startSession, matchingStep, use, lock, mint,
                  setup, deactivate, instant, write, clock, history, codes
    <2>2. totp'.last = totp.last /\ (totp'.active => totp.active)
      <3>1. CASE setup(w) \/ deactivate(w)
        BY <3>1 DEF setup, deactivate, TypeOK, Totp
      <3>2. CASE ~(setup(w) \/ deactivate(w))
        BY <1>3, <3>2 DEF Continue, verify, recordLoginFailure, startSession, matchingStep, use, lock,
                          mint, instant, write, rows
      <3> QED
        BY <3>1, <3>2
    <2> QED
      BY <2>1, <2>2, OtherSpent
  <1> QED
    BY <1>1, <1>2, <1>3

-----------------------------------------------------------------------------
(* The lockout.                                                            *)

\* Two sets of requests with nothing in common.
LEMMA TwoParts ==
  ASSUME NEW S \in SUBSET Workers, NEW T \in SUBSET Workers, S \cap T = {}
  PROVE  Cardinality(S) + Cardinality(T) <= Cardinality(Workers)
  <1>1. /\ IsFiniteSet(S) /\ IsFiniteSet(T) /\ Cardinality(S) \in Nat /\ Cardinality(T) \in Nat
        /\ S \cup T \in SUBSET Workers
    BY Finite
  <1>2. Cardinality(S \cup T) = Cardinality(S) + Cardinality(T) - Cardinality(S \cap T)
    BY <1>1, FS_Union
  <1>3. Cardinality(S \cap T) = 0
    BY FS_EmptySet
  <1>4. Cardinality(S \cup T) <= Cardinality(Workers)
    BY <1>1, Finite
  <1> QED
    BY <1>1, <1>2, <1>3, <1>4

\* While the account is not locked, the quota is enough for the budget: a
\* request that compares a password has no failure to record.
LEMMA QuotaSuffices ==
  ASSUME TypeOK, Quota, ~Locked
  PROVE  Budget
  <1>1. Failing \in SUBSET Workers /\ Comparing \in SUBSET Workers /\ Failing \cap Comparing = {}
    BY DEF Failing, Comparing
  <1>2. Cardinality(Failing) + Cardinality(Comparing) <= Cardinality(Workers)
    BY <1>1, TwoParts
  <1>3. /\ Cardinality(Failing) \in Nat /\ Cardinality(Comparing) \in Nat
        /\ Cardinality(Workers) \in Nat
    BY <1>1, Finite
  <1>4. guesses \in Nat /\ guesses <= Counted + Cardinality(Failing)
    BY DEF TypeOK, Quota
  <1>5. Counted \in Nat /\ Counted <= MaxLogin - 1 /\ MaxLogin \in Nat
    BY SignInAssumption DEF Counted, TypeOK, Fails
  <1> QED
    BY <1>2, <1>3, <1>4, <1>5 DEF Budget

\* The same of the state after a step.
LEMMA QuotaSufficesNext ==
  ASSUME TypeOK', Quota', ~Locked'
  PROVE  Budget'
  <1>1. Failing' \in SUBSET Workers /\ Comparing' \in SUBSET Workers /\ Failing' \cap Comparing' = {}
    BY DEF Failing, Comparing
  <1>2. Cardinality(Failing') + Cardinality(Comparing') <= Cardinality(Workers)
    BY <1>1, TwoParts
  <1>3. /\ Cardinality(Failing') \in Nat /\ Cardinality(Comparing') \in Nat
        /\ Cardinality(Workers) \in Nat
    BY <1>1, Finite
  <1>4. guesses' \in Nat /\ guesses' <= Counted' + Cardinality(Failing')
    BY DEF TypeOK, Quota
  <1>5. Counted' \in Nat /\ Counted' <= MaxLogin - 1 /\ MaxLogin \in Nat
    BY SignInAssumption DEF Counted, TypeOK, Fails
  <1> QED
    BY <1>2, <1>3, <1>4, <1>5 DEF Budget

\* A step that counts nothing, and lets nobody compare while locked.
LEMMA QuietCounting ==
  ASSUME TypeOK, TypeOK', Counting, UNCHANGED <<fails, guesses>>,
         Failing \subseteq Failing', Locked => Comparing' \subseteq Comparing
  PROVE  Counting'
  <1>0. Locked' = Locked /\ Counted' = Counted /\ Full'
    BY DEF Locked, Counted, Counting, Full
  <1>1. /\ Failing' \in SUBSET Workers /\ Failing \in SUBSET Failing'
        /\ Comparing \in SUBSET Workers
    BY DEF Failing, Comparing
  <1>2. /\ Cardinality(Failing) <= Cardinality(Failing')
        /\ Cardinality(Failing) \in Nat /\ Cardinality(Failing') \in Nat
    BY <1>1, NoMore
  <1>3. Counted \in Nat /\ guesses \in Nat /\ MaxLogin \in Nat
    BY SignInAssumption DEF Counted, TypeOK, Fails
  <1>4. Quota'
    BY <1>0, <1>2, <1>3 DEF Quota, Counting
  <1>5. CASE Locked
    <2>1. Comparing' \in SUBSET Comparing
      BY <1>5
    <2>2. /\ Cardinality(Comparing') <= Cardinality(Comparing)
          /\ Cardinality(Comparing) \in Nat /\ Cardinality(Comparing') \in Nat
          /\ Cardinality(Workers) \in Nat
      BY <1>1, <2>1, NoMore, Finite
    <2> QED
      BY <1>0, <1>3, <1>4, <2>2 DEF Budget, Counting
  <1>6. CASE ~Locked
    BY <1>0, <1>4, <1>6, QuotaSufficesNext DEF Counting
  <1> QED
    BY <1>5, <1>6

\* A step after which nothing was guessed.
LEMMA ClearedCounting ==
  ASSUME TypeOK', guesses' = 0, ~Locked'
  PROVE  Counting'
  <1>1. Failing' \in SUBSET Workers /\ Comparing' \in SUBSET Workers
    BY DEF Failing, Comparing
  <1>2. /\ Cardinality(Failing') \in Nat /\ Cardinality(Comparing') \in Nat
        /\ Cardinality(Workers) \in Nat /\ Cardinality(Comparing') <= Cardinality(Workers)
    BY <1>1, Finite
  <1>3. Counted' \in Nat /\ MaxLogin \in Nat \ {0}
    BY SignInAssumption DEF Counted, TypeOK, Fails
  <1> QED
    BY <1>2, <1>3 DEF Counting, Quota, Budget, Full

\* A wrong password: a request that compared one has a failure to record.
LEMMA GuessCounting ==
  ASSUME TypeOK, TypeOK', Counting, NEW w \in Workers,
         fails' = fails, guesses' = guesses + 1,
         w \in Comparing, Failing' = Failing \cup {w}, Comparing' = Comparing \ {w}
  PROVE  Counting'
  <1>0. Locked' = Locked /\ Counted' = Counted /\ Full'
    BY DEF Locked, Counted, Counting, Full
  <1>1. Failing \in SUBSET Workers /\ Comparing \in SUBSET Workers /\ w \notin Failing
    BY DEF Failing, Comparing
  <1>2. Cardinality(Failing') = Cardinality(Failing) + 1 /\ Cardinality(Failing) \in Nat
    BY <1>1, OneMore, Finite
  <1>3. /\ Cardinality(Comparing') = Cardinality(Comparing) - 1
        /\ Cardinality(Comparing) \in Nat /\ Cardinality(Workers) \in Nat
    BY <1>1, OneLess, Finite
  <1>4. Counted \in Nat /\ guesses \in Nat /\ MaxLogin \in Nat
    BY SignInAssumption DEF Counted, TypeOK, Fails
  <1>5. Quota'
    BY <1>0, <1>2, <1>4 DEF Quota, Counting
  <1>6. Budget'
    BY <1>3, <1>4 DEF Budget, Counting
  <1> QED
    BY <1>0, <1>5, <1>6 DEF Counting

\* A recorded failure counts, or locks the account.
LEMMA RecordedCounting ==
  ASSUME TypeOK, TypeOK', Counting, NEW w \in Workers, recordLoginFailure(w)
  PROVE  Counting'
  <1>1. /\ Failing \in SUBSET Workers /\ Comparing \in SUBSET Workers /\ w \in Failing
        /\ Failing' = Failing \ {w} /\ Comparing' \subseteq Comparing /\ guesses' = guesses
    BY DEF Failing, Comparing, recordLoginFailure, Return, Goto, TypeOK, history
  <1>2. /\ Cardinality(Failing') = Cardinality(Failing) - 1 /\ Cardinality(Failing) \in Nat
        /\ Cardinality(Failing') \in Nat
    BY <1>1, OneLess, Finite
  <1>3. /\ Cardinality(Comparing') <= Cardinality(Comparing) /\ Cardinality(Comparing') \in Nat
        /\ Cardinality(Comparing) \in Nat /\ Cardinality(Workers) \in Nat
    BY <1>1, NoMore, Finite
  <1>4. guesses \in Nat /\ MaxLogin \in Nat \ {0} /\ fails.count \in Nat
    BY SignInAssumption DEF TypeOK, Fails
  <1>5. Budget
    BY DEF Counting
  <1>6. Budget'
    BY <1>1, <1>3, <1>4, <1>5 DEF Budget
  <1>7. Quota'
    <2>1. CASE Locked'
      BY <2>1 DEF Quota
    <2>2. CASE ~Locked'
      <3>1. fails.until # "ahead"
        BY <2>2, <1>4 DEF recordLoginFailure, Locked, Counting, Full
      <3>2. CASE fails.until = "past"
        <4>1. Counted = 0 /\ Counted' = 1 /\ ~Locked
          BY <1>4, <2>2, <3>2 DEF recordLoginFailure, Locked, Counted
        <4> QED
          BY <1>1, <1>2, <1>4, <4>1 DEF Quota, Counting
      <3>3. CASE fails.until = "recent"
        <4>1. Counted' = Counted + 1 /\ ~Locked /\ Counted \in Nat
          BY <1>4, <2>2, <3>3 DEF recordLoginFailure, Locked, Counted
        <4> QED
          BY <1>1, <1>2, <1>4, <4>1 DEF Quota, Counting
      <3> QED
        BY <3>1, <3>2, <3>3 DEF TypeOK, Fails
    <2> QED
      BY <2>1, <2>2
  <1>8. Full'
    BY <1>4 DEF Full, Locked, recordLoginFailure
  <1> QED
    BY <1>6, <1>7, <1>8 DEF Counting

\* Every step of a request keeps the count.
LEMMA ContinueCounting ==
  ASSUME TypeOK, Counting, NEW w \in Workers, Continue(w), Goes(w), TypeOK'
  PROVE  Counting'
  <1>1. CASE recordLoginFailure(w)
    BY <1>1, RecordedCounting
  <1>2. CASE ~recordLoginFailure(w)
    <2>1. pc[w] # "failure"
      BY <1>2 DEF Continue, verify, startSession, matchingStep, use, lock, mint, setup, activate,
                  deactivate, instant, write
    <2>2. Failing \subseteq Failing' /\ Comparing' \subseteq Comparing
      BY <2>1 DEF Goes, Goto, Failing, Comparing, TypeOK
    <2>3. CASE verify(w)
      <3> DEFINE right   == loc[w].pw = loc[w].user.pw
                 counted == loc[w].task \in {"login", "stepUp"}
      <3>1. CASE ~counted
        BY <2>2, <2>3, <3>1, QuietCounting DEF verify
      <3>2. CASE counted /\ right
        <4>1. guesses' = 0 /\ ~Locked'
          BY <2>3, <3>2 DEF verify, Locked, NoFails
        <4> QED
          BY <4>1, ClearedCounting
      <3>3. CASE counted /\ ~right
        <4>1. Step(w, "failure") /\ fails' = fails /\ guesses' = guesses + 1 /\ pc[w] = "verify"
          BY <2>3, <3>3 DEF verify
        <4>2. w \in Comparing
          BY <3>3, <4>1 DEF Comparing
        <4>3. Failing' = Failing \cup {w} /\ Comparing' = Comparing \ {w}
          BY <4>1 DEF Step, Goto, Failing, Comparing, TypeOK
        <4> QED
          BY <4>1, <4>2, <4>3, GuessCounting
      <3> QED
        BY <3>1, <3>2, <3>3
    <2>4. CASE use(w) /\ unused(w) /\ loc[w].task = "stepUp"
      <3>1. guesses' = 0 /\ ~Locked'
        BY <2>4 DEF use, Locked, NoFails
      <3> QED
        BY <3>1, ClearedCounting
    <2>5. CASE ~verify(w) /\ ~(use(w) /\ unused(w) /\ loc[w].task = "stepUp")
      <3>1. UNCHANGED <<fails, guesses>>
        BY <1>2, <2>5 DEF Continue, startSession, matchingStep, use, lock, mint, setup, activate,
                          deactivate, instant, write, memory, history
      <3> QED
        BY <2>2, <3>1, QuietCounting
    <2> QED
      BY <2>3, <2>4, <2>5
  <1> QED
    BY <1>1, <1>2

\* A request is not let in to compare a password while the account is locked.
LEMMA StartCounting ==
  ASSUME TypeOK, Counting, NEW w \in Workers, NEW p \in PCs, NEW l \in Locals,
         Start(w, p, l), Opens(p, l), TypeOK'
  PROVE  Counting'
  <1>1. UNCHANGED <<fails, guesses>>
    BY DEF Start, memory, history
  <1>2. Failing \subseteq Failing'
    BY DEF Start, Goto, Failing, TypeOK
  <1>3. Locked => Comparing' \subseteq Comparing
    BY DEF Start, Goto, Comparing, Opens, TypeOK
  <1> QED
    BY <1>1, <1>2, <1>3, QuietCounting

\* The surroundings count nothing; a lockout that passes starts over.
LEMMA SurroundingsCounting ==
  ASSUME TypeOK, Counting, Surroundings, TypeOK'
  PROVE  Counting'
  <1>1. CASE passLockout
    BY <1>1, ClearedCounting DEF passLockout, Locked, TypeOK, Fails
  <1>2. CASE ~passLockout
    <2>1. UNCHANGED <<fails, guesses, pc, loc>>
      BY <1>2 DEF Surroundings, setStatus, tick, nextStep, passBlock, memory, history
    <2>2. Failing' = Failing /\ Comparing' = Comparing
      BY <2>1 DEF Failing, Comparing
    <2> QED
      BY <2>1, <2>2, QuietCounting
  <1> QED
    BY <1>1, <1>2

-----------------------------------------------------------------------------
(* Revocations.                                                            *)

\* A session that was out at the time of a revocation is stamped before it.
LEMMA SeenBefore ==
  ASSUME TypeOK, NEW s \in issued, s.at < now, s.iat * TPS <= s.at
  PROVE  s.iat < revocationInstant(now)
  <1>1. s.iat \in Nat /\ s.at \in Nat /\ now \in Nat /\ now \in 0..MaxNow
    <2>1. s \in Session
      BY DEF TypeOK
    <2> QED
      BY <2>1, SignInAssumption DEF TypeOK, Session, Seconds
  <1>2. now <= revocationInstant(now) * TPS /\ revocationInstant(now) \in Nat
    BY <1>1, InstantFacts DEF Seconds
  <1>3. TPS \in Nat \ {0}
    BY SignInAssumption
  <1> DEFINE q == revocationInstant(now)
             k == s.iat
  <1>4. k * TPS < q * TPS /\ k \in Nat /\ q \in Nat
    <2>1. k * TPS \in Nat /\ q * TPS \in Nat
      BY <1>1, <1>2, <1>3
    <2> QED
      BY <1>1, <1>2, <2>1
  <1> HIDE DEF q, k
  <1>5. k < q
    <2> SUFFICES ASSUME q <= k PROVE FALSE
      BY <1>4
    <2>1. q * TPS <= k * TPS
      BY <1>3, <1>4, SMT
    <2> QED
      BY <1>3, <1>4, <2>1, SMT
  <1> QED
    BY <1>5 DEF q, k

\* Nothing is revoked by a step that writes no revocation, and neither takes
\* the time of one.
LEMMA IdleRevoked ==
  ASSUME TypeOK, TypeOK', Revoked, user'.after = user.after, ended' = ended, now <= now',
         \A v \in Workers : pc'[v] = "write" =>
           pc[v] = "write" /\ loc'[v].after = loc[v].after /\ loc'[v].seen = loc[v].seen
  PROVE  Revoked'
  <1>1. revocationInstant(now) <= revocationInstant(now')
    BY InstantFacts DEF TypeOK
  <1>2. /\ revocationInstant(now) \in Int /\ revocationInstant(now') \in Int /\ user.after \in Int
        /\ \A v \in Workers : loc[v].after \in Int
    BY InstantFacts, SignInAssumption DEF TypeOK, Seconds, User, Never, Locals
  <1>3. user'.after <= revocationInstant(now')
    BY <1>1, <1>2 DEF Revoked
  <1>4. ASSUME NEW v \in Workers, pc'[v] = "write"
        PROVE  /\ user'.after <= loc'[v].after /\ loc'[v].after <= revocationInstant(now')
               /\ \A s \in loc'[v].seen : s.iat < loc'[v].after
    BY <1>1, <1>2, <1>4 DEF Revoked
  <1>5. \A u, v \in Workers : pc'[u] = "write" /\ pc'[v] = "write" => u = v
    BY DEF Revoked
  <1>6. EndedStaysEnded'
    BY DEF Revoked, EndedStaysEnded, isRevoked
  <1>7. revocationInstant(now)' = revocationInstant(now')
    BY DEF revocationInstant
  <1> QED
    BY <1>3, <1>4, <1>5, <1>6, <1>7 DEF Revoked

\* With one revocation at a time, the one that takes the time is alone.
LEMMA InstantRevoked ==
  ASSUME TypeOK, TypeOK', Revoked, AtOnce <= 1, NEW w \in Workers, instant(w)
  PROVE  Revoked'
  <1>0. /\ UNCHANGED <<user, ended, now>> /\ pc'[w] = "write"
        /\ loc'[w].after = revocationInstant(now)
        /\ loc'[w].seen = {s \in issued : s.at < now /\ s.iat * TPS <= s.at}
        /\ \A v \in Workers : v # w => pc'[v] = pc[v] /\ loc'[v] = loc[v]
    <2>1. UNCHANGED <<user, ended, now>> /\ pc'[w] = "write"
      BY DEF instant, Goto, TypeOK, clock, rows, history
    <2>2. /\ loc'[w].after = revocationInstant(now)
          /\ loc'[w].seen = {s \in issued : s.at < now /\ s.iat * TPS <= s.at}
      BY DEF instant, Goto, TypeOK, Locals
    <2>3. \A v \in Workers : v # w => pc'[v] = pc[v] /\ loc'[v] = loc[v]
      BY DEF instant, Goto, TypeOK
    <2> QED
      BY <2>1, <2>2, <2>3
  <1>1. \A v \in Workers : pc[v] # "write"
    <2>1. Revoking \in SUBSET Workers
      BY DEF Revoking
    <2>2. Cardinality(Revoking) \in Nat /\ Cardinality(Revoking) < AtOnce /\ AtOnce \in Nat
      BY <2>1, Finite, SignInAssumption DEF instant
    <2>3. Cardinality(Revoking) = 0
      BY <2>2
    <2>4. Revoking = {}
      BY <2>1, <2>3, Finite, FS_EmptySet
    <2> QED
      BY <2>4 DEF Revoking
  <1>2. revocationInstant(now) \in Int /\ user.after \in Int /\ revocationInstant(now)' = revocationInstant(now)
    BY <1>0, InstantFacts, SignInAssumption DEF TypeOK, Seconds, User, Never, revocationInstant
  <1>3. \A s \in loc'[w].seen : s.iat < loc'[w].after
    BY <1>0, SeenBefore
  <1>4. \A v \in Workers : pc'[v] = "write" => v = w
    BY <1>0, <1>1
  <1>5. EndedStaysEnded'
    BY <1>0 DEF Revoked, EndedStaysEnded, isRevoked
  <1>6. user'.after <= loc'[w].after /\ loc'[w].after <= revocationInstant(now)'
    BY <1>0, <1>2 DEF Revoked
  <1>7. user'.after <= revocationInstant(now)'
    BY <1>0, <1>2 DEF Revoked
  <1> QED
    BY <1>3, <1>4, <1>5, <1>6, <1>7 DEF Revoked

\* What a revocation writes is not before what was written: the sessions it
\* saw are refused, and those refused before stay so.
LEMMA WriteRevoked ==
  ASSUME TypeOK, TypeOK', Revoked, NEW w \in Workers, write(w)
  PROVE  Revoked'
  <1>0. /\ now' = now /\ pc[w] = "write" /\ pc'[w] # "write"
        /\ user'.after = loc[w].after /\ ended' = ended \cup loc[w].seen
        /\ \A v \in Workers : v # w => pc'[v] = pc[v]
    BY DEF write, Return, Goto, TypeOK, clock
  <1>1. \A v \in Workers : pc'[v] # "write"
    BY <1>0 DEF Revoked
  <1>2. /\ user.after <= loc[w].after /\ loc[w].after <= revocationInstant(now)
        /\ \A s \in loc[w].seen : s.iat < loc[w].after
    BY <1>0 DEF Revoked
  <1>3. /\ user.after \in Nat \cup {Never} /\ loc[w].after \in Nat \cup {Never}
        /\ \A s \in ended \cup loc[w].seen : s.iat \in Nat
    <2>1. loc[w].seen \subseteq Session /\ ended \subseteq Session
      BY DEF TypeOK, Locals
    <2> QED
      BY <2>1, SignInAssumption DEF TypeOK, Seconds, User, Locals, Session
  <1>4. \A s \in ended : s.iat < user.after /\ user.after # Never
    BY DEF Revoked, EndedStaysEnded, isRevoked
  <1>5. EndedStaysEnded'
    BY <1>0, <1>2, <1>3, <1>4 DEF EndedStaysEnded, isRevoked, Never
  <1>6. revocationInstant(now)' = revocationInstant(now)
    BY <1>0 DEF revocationInstant
  <1> QED
    BY <1>0, <1>1, <1>2, <1>5, <1>6 DEF Revoked

\* Every step of a request.
LEMMA ContinueRevoked ==
  ASSUME TypeOK, TypeOK', Revoked, AtOnce <= 1, NEW w \in Workers, Continue(w), Goes(w)
  PROVE  Revoked'
  <1>1. CASE instant(w)
    BY <1>1, InstantRevoked
  <1>2. CASE write(w)
    BY <1>2, WriteRevoked
  <1>3. CASE ~instant(w) /\ ~write(w)
    <2>1. UNCHANGED <<user, ended, now>>
      BY <1>3 DEF Continue, verify, recordLoginFailure, startSession, matchingStep, use, lock, mint,
                  setup, activate, deactivate, clock, rows, history
    <2>2. pc'[w] # "write"
      BY <1>3 DEF Continue, verify, recordLoginFailure, startSession, matchingStep, use, lock, mint,
                  setup, activate, deactivate, missed, Wrong, Step, Return, Goto, TypeOK
    <2>3. \A v \in Workers : v # w => pc'[v] = pc[v] /\ loc'[v] = loc[v]
      BY DEF Goes, Goto, TypeOK
    <2>4. now <= now'
      BY <2>1, SignInAssumption DEF TypeOK
    <2> QED
      BY <2>1, <2>2, <2>3, <2>4, IdleRevoked
  <1> QED
    BY <1>1, <1>2, <1>3

\* A request that is let in has taken no time yet.
LEMMA StartRevoked ==
  ASSUME TypeOK, TypeOK', Revoked, NEW w \in Workers, NEW p \in PCs, NEW l \in Locals,
         Start(w, p, l), Opens(p, l)
  PROVE  Revoked'
  <1>1. UNCHANGED <<user, ended, now>> /\ p # "write"
    BY DEF Start, clock, rows, history, Opens
  <1>2. \A v \in Workers : pc'[v] = "write" => pc[v] = "write" /\ loc'[v] = loc[v]
    BY <1>1 DEF Start, Goto, TypeOK
  <1>3. now <= now'
    BY <1>1, SignInAssumption DEF TypeOK
  <1> QED
    BY <1>1, <1>2, <1>3, IdleRevoked

-----------------------------------------------------------------------------
(* The theorems.                                                           *)

IInv == TypeOK /\ Bounds /\ Spent /\ Counting

\* The initial states satisfy the invariant.
LEMMA InitInv == Init => IInv /\ Revoked
  <1> SUFFICES ASSUME Init PROVE IInv /\ Revoked
    OBVIOUS
  <1>0. /\ \A w \in Workers : pc[w] = "idle" /\ loc[w] = NoLoc
        /\ MaxSecrets \in Nat \ {0} /\ MaxStep \in Nat \ {0} /\ MaxPasswords \in Nat \ {0}
        /\ MaxLogin \in Nat \ {0} /\ MaxNow \in Nat /\ MaxRequests \in Nat
    BY SignInAssumption DEF Init
  <1>1. TypeOK
    <2>1. user \in User
      BY <1>0 DEF Init, User
    <2>2. totp \in Totp
      <3>1. 1 \in 0..MaxSecrets /\ 0 \in 0..MaxStep
        BY <1>0
      <3>2. [secret |-> 1, active |-> FALSE, last |-> 0] \in Totp
        BY <3>1 DEF Totp
      <3> QED
        BY <3>2 DEF Init, NoTotp
    <2>3. pc \in [Workers -> PCs] /\ loc \in [Workers -> Locals]
      BY NoLocType DEF Init, PCs
    <2>4. fails \in Fails /\ tries \in Tries
      BY NoLocType DEF Init
    <2>5. spent \subseteq Codes /\ replayed \subseteq Codes /\ late \subseteq Workers
      BY DEF Init
    <2>6. now \in 0..MaxNow /\ step \in 1..MaxStep /\ guesses \in Nat /\ requests \in 0..MaxRequests
      BY <1>0 DEF Init
    <2>7. partial \in BOOLEAN /\ issued \subseteq Session /\ ended \subseteq Session
      <3>1. 0 \in Seconds /\ 0 \in 0..MaxNow
        BY <1>0, InstantFacts, SignInAssumption, DivBounds DEF Seconds
      <3>2. [iat |-> 0, at |-> 0] \in Session
        BY <3>1 DEF Session
      <3> QED
        BY <3>2 DEF Init
    <2> QED
      BY <2>1, <2>2, <2>3, <2>4, <2>5, <2>6, <2>7 DEF TypeOK
  <1>2. Pending = {} /\ Making = {} /\ Comparing = {} /\ Failing = {} /\ Cardinality({}) = 0
    BY <1>0, FS_EmptySet DEF Pending, Making, Comparing, Failing, NoLoc
  <1>8. totp.secret = 1 /\ totp.last = 0
    BY DEF Init, NoTotp
  <1>3. Bounds
    BY <1>0, <1>2, <1>8 DEF Bounds, Init
  <1>4. Spent
    BY <1>0, <1>8 DEF Spent, Init
  <1>5. guesses = 0 /\ ~Locked
    BY DEF Init, Locked, NoFails
  <1>6. Counting
    <2>1. Quota /\ Full
      BY <1>0, <1>2, <1>5 DEF Quota, Counted, Full, Init, NoFails
    <2> QED
      BY <1>1, <1>5, <2>1, QuotaSuffices DEF Counting
  <1>7. Revoked
    <2>1. user.after = -1 /\ ended = {}
      BY DEF Init, Never
    <2>2. revocationInstant(now) \in Nat
      BY <1>1, InstantFacts DEF Seconds, TypeOK
    <2> QED
      BY <1>0, <2>1, <2>2 DEF Revoked, EndedStaysEnded
  <1> QED
    BY <1>1, <1>3, <1>4, <1>6, <1>7 DEF IInv

\* Every step keeps the invariant, and with one revocation at a time what
\* was revoked too.
LEMMA NextInv ==
  ASSUME IInv, Next
  PROVE  IInv' /\ (AtOnce <= 1 /\ Revoked => Revoked')
  <1> USE DEF IInv
  <1>1. CASE \E w \in Workers : Request(w)
    <2>1. PICK w \in Workers : Request(w)
      BY <1>1
    <2>2. PICK p \in PCs, l \in Locals : Start(w, p, l) /\ Opens(p, l)
      BY <2>1, RequestOpens
    <2>3. TypeOK'
      BY <2>2, StartType
    <2>4. Bounds' /\ Spent' /\ Counting'
      BY <2>2, <2>3, StartBounds, StartSpent, StartCounting
    <2>5. Revoked => Revoked'
      BY <2>2, <2>3, StartRevoked
    <2> QED
      BY <2>3, <2>4, <2>5
  <1>2. CASE \E w \in Workers : Continue(w)
    <2>1. PICK w \in Workers : Continue(w)
      BY <1>2
    <2>2. Goes(w) /\ TypeOK'
      BY <2>1, ContinueType
    <2>3. Bounds' /\ Spent' /\ Counting'
      BY <2>1, <2>2, ContinueBounds, ContinueSpent, ContinueCounting
    <2>4. AtOnce <= 1 /\ Revoked => Revoked'
      BY <2>1, <2>2, ContinueRevoked
    <2> QED
      BY <2>2, <2>3, <2>4
  <1>3. CASE Surroundings
    <2>1. /\ TypeOK' /\ UNCHANGED <<totp, codes, ended, pc, loc>>
          /\ user'.pw = user.pw /\ user'.after = user.after
          /\ now <= now' /\ step <= step'
      BY <1>3, SurroundingsType
    <2>2. Bounds'
      <3>1. Pending' = Pending /\ Making' = Making
        BY <2>1 DEF Pending, Making
      <3> QED
        BY <2>1, <3>1 DEF Bounds
    <2>3. Spent'
      <3>1. step \in Nat /\ step' \in Nat /\ totp.last \in Nat
        BY <2>1 DEF TypeOK, Totp
      <3>2. \A w \in Workers : pc[w] \in {"use", "activate"} => loc[w].code[2] \in Nat
        BY DEF Bounds, Codes
      <3> QED
        BY <2>1, <3>1, <3>2 DEF Spent, codes
    <2>4. Counting'
      BY <1>3, <2>1, SurroundingsCounting
    <2>5. Revoked => Revoked'
      BY <2>1, IdleRevoked
    <2> QED
      BY <2>1, <2>2, <2>3, <2>4, <2>5
  <1> QED
    BY <1>1, <1>2, <1>3 DEF Next, Surroundings

\* And so does a step in which nothing happens.
LEMMA StepInv ==
  IInv /\ [Next]_vars => IInv' /\ (AtOnce <= 1 /\ Revoked => Revoked')
  <1> SUFFICES ASSUME IInv, UNCHANGED vars
               PROVE  IInv' /\ (Revoked => Revoked')
    BY NextInv
  <1>1. TypeOK' /\ Bounds'
    BY DEF IInv, vars, history, codes, TypeOK, Bounds, Pending, Making
  <1>2. Spent' /\ Counting'
    BY DEF IInv, vars, history, codes, Spent, Counting, Quota, Budget, Full, Counted, Failing, Comparing, Locked
  <1>3. Revoked => Revoked'
    BY DEF vars, history, Revoked, EndedStaysEnded, isRevoked, revocationInstant
  <1> QED
    BY <1>1, <1>2, <1>3 DEF IInv

\* The invariant holds throughout.
THEOREM InductiveInvariant == Spec => []IInv
  <1>1. IInv /\ [Next]_vars => IInv'
    BY StepInv
  <1> QED
    BY InitInv, <1>1, PTL DEF Spec

\* The rows, counters, sessions and requests keep their types: in particular
\* a password or a secret is only made when the bound leaves room for it, and
\* every stamp is a second of the model.
THEOREM TypeCorrect == Spec => []TypeOK
  <1>1. IInv => TypeOK
    BY DEF IInv
  <1> QED
    BY InductiveInvariant, <1>1, PTL

\* However many requests race for a code, one of them is let in with it, and
\* none after it confirmed the enrolment (the conditional update of
\* verifyTotp and the last step that confirmTotpEnrollment stores), however
\* many set-ups and confirmations overlap: only one that another confirmation
\* overtook makes codes newer than its own good once more.
THEOREM CodesSingleUse == Spec => []CodesAreSingleUse
  <1>1. IInv => CodesAreSingleUse
    BY DEF IInv, Spent, CodesAreSingleUse
  <1> QED
    BY InductiveInvariant, <1>1, PTL

\* Wrong passwords beyond maxLoginAttempts are at most the comparisons that
\* were under way when the limit was reached (recordLoginFailure counts
\* after the hash was compared).
THEOREM Lockout == Spec => []LockoutHolds
  <1>1. IInv => LockoutHolds
    <2> SUFFICES ASSUME IInv PROVE LockoutHolds
      OBVIOUS
    <2>1. Comparing \in SUBSET Workers
      BY DEF Comparing
    <2>2. Cardinality(Comparing) \in Nat /\ Cardinality(Workers) \in Nat
      BY <2>1, Finite
    <2>3. guesses \in Nat /\ MaxLogin \in Nat
      BY SignInAssumption DEF IInv, TypeOK
    <2> QED
      BY <2>2, <2>3 DEF IInv, Counting, Budget, LockoutHolds
  <1> QED
    BY InductiveInvariant, <1>1, PTL

\* When the revocations of an account do not overlap, a session that was out
\* at one of them is refused ever after, whatever the resolution of the
\* stamps.  (Two that overlap may be stored in the other order, and then the
\* later point in time is lost: the assumption cannot be dropped.)
THEOREM EndedSessions ==
  ASSUME AtOnce <= 1
  PROVE  Spec => []EndedStaysEnded
  <1>1. IInv /\ Revoked /\ [Next]_vars => (IInv /\ Revoked)'
    BY StepInv
  <1>2. Revoked => EndedStaysEnded
    BY DEF Revoked
  <1> QED
    BY InitInv, <1>1, <1>2, PTL DEF Spec

=============================================================================
