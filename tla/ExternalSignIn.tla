---------------------------- MODULE ExternalSignIn ----------------------------
(***************************************************************************)
(* Ways in other than a password: single sign-on (sso/sso.service.ts),     *)
(* passkeys (passkeys/passkeys.service.ts) and what the host can undo with *)
(* cli/auth-recovery.ts.                                                   *)
(*                                                                         *)
(* Both are round trips: the server stores a row (OidcLoginState,          *)
(* WebAuthnChallenge), the browser goes to the provider or to the          *)
(* authenticator, and the answer is accepted by the request that deletes   *)
(* the row.  A worker is one request in flight; every database statement   *)
(* is atomic, and other requests run between two of them.                  *)
(*                                                                         *)
(* There is one provider.  An account is named by its e-mail address,      *)
(* which is unique.  What the libraries verify (codes, tokens, signatures) *)
(* succeeds or fails.  The session that a sign-in ends with is SignIn's    *)
(* signInVerifiedUser().                                                   *)
(***************************************************************************)
EXTENDS Naturals, FiniteSets

CONSTANTS
  Workers,     \* requests that may be in flight together
  Accounts,    \* e-mail addresses
  Existing,    \* those that have an account to begin with
  Subjects,    \* people at the provider
  Keys,        \* authenticators
  Trips,       \* ids of round trips
  MaxKeys,     \* MAX_PASSKEYS
  MaxChanges   \* bound on what administrators and people change

ASSUME ExternalAssumption ==
  /\ Existing \subseteq Accounts
  /\ "none" \notin Accounts \cup Trips
  /\ MaxKeys \in Nat /\ MaxChanges \in Nat

VARIABLES
  account,   \* User.status
  provider,  \* the OidcProvider row, if `present', and which one it is
  links,     \* ExternalIdentity rows
  keys,      \* passkeys: UserMfaMethod rows of type WEBAUTHN
  trips,     \* OidcLoginState and WebAuthnChallenge rows; kept as history when gone
  handed,    \* history: how often each round trip was accepted
  made,      \* history: the round trip that created an account
  granted,   \* history: <<account, round trip>> of sign-ins and step-ups
  seen,      \* history: what held at some moment since an answer arrived
  changes,   \* how many changes were made
  pc, loc    \* where each worker is, and its locals

rows    == <<account, provider, links, keys>>
history == <<handed, made, granted>>
vars    == <<rows, trips, history, seen, changes, pc, loc>>

NoOne  == "none"
NoTrip == "none"

SsoKinds == {"SSO", "LINK"}
Kinds    == SsoKinds \cup {"REGISTER", "LOGIN", "STEP_UP"}

\* user: userId of the row; gen: which provider it is for.
Trip == [state : {"none", "live", "gone"}, kind : Kinds \cup {"none"},
         user : Accounts \cup {NoOne}, gen : Nat, expired : BOOLEAN]
Unused == [state |-> "none", kind |-> "none", user |-> NoOne, gen |-> 0, expired |-> FALSE]

\* A linked identity or a passkey; its id is the round trip that made it.
Row(who) == [who : who, user : Accounts, trip : Trips]

PCs == {"idle", "save", "consume", "provider", "identity", "count", "link", "email",
        "provision", "touch", "newKey", "createKey", "key", "useKey", "signIn"}

\* who: the subject or authenticator that answers; row: the id of the row read.
Locals == [t : Trips \cup {NoTrip}, kind : Kinds \cup {"none"}, user : Accounts \cup {NoOne},
           who : Subjects \cup Keys \cup {NoOne}, email : Accounts \cup {NoOne},
           row : Trips \cup {NoTrip}, provisioning : BOOLEAN, gen : Nat]
NoLoc == [t |-> NoTrip, kind |-> "none", user |-> NoOne, who |-> NoOne, email |-> NoOne,
          row |-> NoTrip, provisioning |-> FALSE, gen |-> 0]

Witnessed == [provider : BOOLEAN, means : SUBSET Accounts]
Nothing   == [provider |-> FALSE, means |-> {}]

Init ==
  /\ account = [a \in Accounts |-> IF a \in Existing THEN "ACTIVE" ELSE "none"]
  /\ provider \in [present : {TRUE}, gen : {0}, enabled : {TRUE}, provisioning : BOOLEAN]
  /\ links = {} /\ keys = {}
  /\ trips = [t \in Trips |-> Unused] /\ handed = [t \in Trips |-> 0]
  /\ made = [a \in Accounts |-> NoTrip] /\ granted = {}
  /\ seen = [w \in Workers |-> Nothing] /\ changes = 0
  /\ pc = [w \in Workers |-> "idle"]
  /\ loc = [w \in Workers |-> NoLoc]

Goto(w, p, l) == /\ pc' = [pc EXCEPT ![w] = p]
                 /\ loc' = [loc EXCEPT ![w] = l]
Return(w)     == Goto(w, "idle", NoLoc)
Step(w, p)    == Goto(w, p, loc[w])
Change        == changes < MaxChanges /\ changes' = changes + 1

Of(who)    == {r \in links \cup keys : r.who = who}
KeysOf(u)  == {r \in keys : r.user = u}
LinksOf(u) == {r \in links : r.user = u}

-----------------------------------------------------------------------------
(* A round trip begins.                                                    *)

\* A row id is left (a bound).
Begin(w, l) ==
  /\ pc[w] = "idle"
  /\ Cardinality({v \in Workers : pc[v] = "save"})
       < Cardinality({t \in Trips : trips[t].state = "none"})
  /\ Goto(w, "save", l)
  /\ UNCHANGED <<rows, trips, history, changes>>

\* start(): for anybody, or to link the account that is signed in.
start(w, kind, u) ==
  /\ provider.present /\ provider.enabled
  /\ kind = "LINK" => account[u] = "ACTIVE"
  /\ Begin(w, [NoLoc EXCEPT !.kind = kind, !.gen = provider.gen,
                            !.user = IF kind = "LINK" THEN u ELSE NoOne])

registrationOptions(w, u) ==
  /\ account[u] = "ACTIVE" /\ Cardinality(KeysOf(u)) < MaxKeys
  /\ Begin(w, [NoLoc EXCEPT !.kind = "REGISTER", !.user = u])

loginOptions(w) == Begin(w, [NoLoc EXCEPT !.kind = "LOGIN"])

stepUpOptions(w, u) ==
  /\ account[u] = "ACTIVE" /\ KeysOf(u) # {}
  /\ Begin(w, [NoLoc EXCEPT !.kind = "STEP_UP", !.user = u])

\* saveChallenge(), and the create of start().
save(w) ==
  LET l == loc[w] IN
  /\ pc[w] = "save"
  /\ \E t \in Trips :
       /\ trips[t].state = "none"
       /\ trips' = [trips EXCEPT ![t] = [state |-> "live", kind |-> l.kind, user |-> l.user,
                                         gen |-> l.gen, expired |-> FALSE]]
  /\ Return(w)
  /\ UNCHANGED <<rows, history, changes>>

Spend(t) == /\ trips' = [trips EXCEPT ![t].state = "gone"]
            /\ handed' = [handed EXCEPT ![t] = @ + 1]

Valid(t) == trips[t].state = "live" /\ ~trips[t].expired

-----------------------------------------------------------------------------
(* Single sign-on: callback().                                             *)

\* The row of the browser's state is looked up.  `email' is NoOne when the
\* provider gives none or one it has not verified.
callback(w, t, s, email) ==
  LET row == trips[t] IN
  /\ pc[w] = "idle" /\ row.kind \in SsoKinds
  /\ IF row.state = "live"
     THEN Goto(w, "consume", [NoLoc EXCEPT !.t = t, !.kind = row.kind, !.user = row.user,
                                           !.gen = row.gen, !.who = s, !.email = email])
     ELSE UNCHANGED <<pc, loc>>
  /\ UNCHANGED <<rows, trips, history, changes>>

\* Mutant: the row that was found is deleted, whether or not it is still there.
consume_AsRead(w) ==
  /\ pc[w] = "consume"
  /\ Spend(loc[w].t)
  /\ Step(w, "provider")
  /\ UNCHANGED <<rows, made, granted, changes>>

\* Only the request that deletes the row goes on.
consume(w) ==
  /\ pc[w] = "consume"
  /\ IF Valid(loc[w].t) THEN Spend(loc[w].t) /\ Step(w, "provider")
     ELSE Return(w) /\ UNCHANGED <<trips, handed>>
  /\ UNCHANGED <<rows, made, granted, changes>>

\* The provider a round trip began with is still there.
Same(w) == provider.present /\ provider.gen = loc[w].gen

\* Mutant: that it was enabled when the round trip began will do.
usable_Begun(w) == Same(w)

usable(w) == Same(w) /\ provider.enabled

\* finish(): the provider is read again; the exchange of the code may fail.
finish(w, exchanged) ==
  /\ pc[w] = "provider"
  /\ IF usable(w) /\ exchanged
     THEN Goto(w, "identity", [loc[w] EXCEPT !.provisioning = provider.provisioning])
     ELSE Return(w)
  /\ UNCHANGED <<rows, trips, history, changes>>

\* The identity is looked up, for finishLink() and finishLogin().
findIdentity(w) ==
  LET l == loc[w] found == Of(l.who) IN
  /\ pc[w] = "identity"
  /\ \/ /\ l.kind = "LINK"
        /\ IF found = {} THEN Step(w, "count") ELSE Return(w)
     \/ /\ l.kind = "SSO" /\ found = {}
        /\ IF l.provisioning /\ l.email # NoOne THEN Step(w, "email") ELSE Return(w)
     \/ /\ l.kind = "SSO"
        /\ \E r \in found : Goto(w, "touch", [l EXCEPT !.user = r.user, !.row = r.trip])
  /\ UNCHANGED <<rows, trips, history, changes>>

\* One identity of this provider for an account.
countLinks(w) ==
  /\ pc[w] = "count"
  /\ IF LinksOf(loc[w].user) = {} THEN Step(w, "link") ELSE Return(w)
  /\ UNCHANGED <<rows, trips, history, changes>>

\* What the insert needs: the identity is nobody's and the provider is there.
Insertable(w) == Of(loc[w].who) = {} /\ Same(w)

Linked(w, u) == links' = links \cup {[who |-> loc[w].who, user |-> u, trip |-> loc[w].t]}

createLink(w) ==
  /\ pc[w] = "link"
  /\ IF Insertable(w) THEN Linked(w, loc[w].user) ELSE UNCHANGED links
  /\ Return(w)
  /\ UNCHANGED <<account, provider, keys, trips, history, changes>>

\* Mutant: an account with that address is taken to be the person's.
emailInUse_Links(w) ==
  /\ pc[w] = "email"
  /\ IF account[loc[w].email] # "none" THEN Goto(w, "link", [loc[w] EXCEPT !.user = loc[w].email])
     ELSE Step(w, "provision")
  /\ UNCHANGED <<rows, trips, history, changes>>

emailInUse(w) ==
  /\ pc[w] = "email"
  /\ IF account[loc[w].email] # "none" THEN Return(w) ELSE Step(w, "provision")
  /\ UNCHANGED <<rows, trips, history, changes>>

\* provision(), one transaction: the account and its identity, and perhaps
\* (`member') a membership that lets it sign in.
provision(w, member) ==
  LET l == loc[w] IN
  /\ pc[w] = "provision"
  /\ IF account[l.email] = "none" /\ Insertable(w)
     THEN /\ account' = [account EXCEPT ![l.email] = "ACTIVE"]
          /\ made' = [made EXCEPT ![l.email] = l.t]
          /\ Linked(w, l.email)
          /\ IF member THEN Goto(w, "touch", [l EXCEPT !.user = l.email, !.row = l.t])
             ELSE Return(w)
     ELSE Return(w) /\ UNCHANGED <<account, made, links>>
  /\ UNCHANGED <<provider, keys, trips, handed, granted, changes>>

\* The row that was read, by its id.
StillThere(w, S) == \E r \in S : r.who = loc[w].who /\ r.trip = loc[w].row

\* lastLoginAt: the update fails when the identity was unlinked meanwhile.
touch(w) ==
  /\ pc[w] = "touch"
  /\ IF StillThere(w, links) THEN Step(w, "signIn") ELSE Return(w)
  /\ UNCHANGED <<rows, trips, history, changes>>

\* signInVerifiedUser(): `ok' is the lockout and the membership, which SignIn
\* has.
signIn(w, ok) ==
  LET u == loc[w].user IN
  /\ pc[w] = "signIn"
  /\ granted' = IF account[u] = "ACTIVE" /\ ok THEN granted \cup {<<u, loc[w].t>>} ELSE granted
  /\ Return(w)
  /\ UNCHANGED <<rows, trips, handed, made, changes>>

-----------------------------------------------------------------------------
(* Passkeys.                                                               *)

\* consume(): the challenge of this purpose and, if somebody is signed in,
\* of this account (u).
respond(w, kind, t, k, u) ==
  /\ pc[w] = "idle" /\ trips[t].kind \notin SsoKinds \cup {"none"}
  /\ IF kind = "LOGIN" THEN u = NoOne ELSE u # NoOne /\ account[u] = "ACTIVE"
  /\ IF Valid(t) /\ trips[t].kind = kind /\ trips[t].user = u
     THEN /\ Spend(t)
          /\ Goto(w, IF kind = "REGISTER" THEN "newKey" ELSE "key",
                  [NoLoc EXCEPT !.t = t, !.kind = kind, !.user = u, !.who = k])
     ELSE UNCHANGED <<trips, handed, pc, loc>>
  /\ UNCHANGED <<rows, made, granted, changes>>

\* register(): the authenticator is not registered with anybody.
newKey(w, verified) ==
  /\ pc[w] = "newKey"
  /\ IF verified /\ Of(loc[w].who) = {} THEN Step(w, "createKey") ELSE Return(w)
  /\ UNCHANGED <<rows, trips, history, changes>>

createKey(w) ==
  /\ pc[w] = "createKey"
  /\ keys' = keys \cup {[who |-> loc[w].who, user |-> loc[w].user, trip |-> loc[w].t]}
  /\ Return(w)
  /\ UNCHANGED <<account, provider, links, trips, history, changes>>

\* assert(): the passkey that answered, of the account if one is signed in.
findKey(w, verified) ==
  LET l     == loc[w]
      found == {r \in keys : r.who = l.who /\ (l.user # NoOne => r.user = l.user)}
  IN
  /\ pc[w] = "key"
  /\ IF verified /\ found # {}
     THEN \E r \in found : Goto(w, "useKey", [l EXCEPT !.user = r.user, !.row = r.trip])
     ELSE Return(w)
  /\ UNCHANGED <<rows, trips, history, changes>>

\* signCount: the update fails when the passkey was removed meanwhile.
useKey(w) ==
  LET l == loc[w] IN
  /\ pc[w] = "useKey"
  /\ IF StillThere(w, keys) /\ l.kind = "LOGIN" THEN Step(w, "signIn") ELSE Return(w)
  /\ granted' = IF StillThere(w, keys) /\ l.kind = "STEP_UP"
                THEN granted \cup {<<l.user, l.t>>} ELSE granted
  /\ UNCHANGED <<rows, trips, handed, made, changes>>

-----------------------------------------------------------------------------
(* Administrators, people, the host and time.                              *)

\* updateProvider(), and --disable-sso.
updateProvider(enabled, provisioning) ==
  /\ provider.present /\ Change
  /\ provider' = [provider EXCEPT !.enabled = enabled, !.provisioning = provisioning]
  /\ UNCHANGED <<account, links, keys, trips, history, pc, loc>>

\* Its identities go with it.
deleteProvider ==
  /\ provider.present /\ Change
  /\ provider' = [present |-> FALSE, gen |-> provider.gen + 1, enabled |-> FALSE,
                  provisioning |-> FALSE]
  /\ links' = {}
  /\ UNCHANGED <<account, keys, trips, history, pc, loc>>

createProvider(provisioning) ==
  /\ ~provider.present /\ Change
  /\ provider' = [provider EXCEPT !.present = TRUE, !.provisioning = provisioning]
  /\ UNCHANGED <<account, links, keys, trips, history, pc, loc>>

\* unlink() of one identity, --unlink-sso of all that an account has.
unlink(S) ==
  /\ S # {} /\ Change
  /\ links' = links \ S
  /\ UNCHANGED <<account, provider, keys, trips, history, pc, loc>>

\* remove() of one passkey, --remove-passkeys.
remove(S) ==
  /\ S # {} /\ Change
  /\ keys' = keys \ S
  /\ UNCHANGED <<account, provider, links, trips, history, pc, loc>>

\* suspend() and activate() of users.service.ts.
setStatus(u) ==
  /\ account[u] # "none" /\ Change
  /\ account' = [account EXCEPT ![u] = IF @ = "ACTIVE" THEN "SUSPENDED" ELSE "ACTIVE"]
  /\ UNCHANGED <<provider, links, keys, trips, history, pc, loc>>

\* STATE_TTL_MS, CHALLENGE_TTL_MS.
expire(t) ==
  /\ Valid(t)
  /\ trips' = [trips EXCEPT ![t].expired = TRUE]
  /\ UNCHANGED <<rows, history, changes, pc, loc>>

\* The timers of onModuleInit().
cleanup ==
  /\ trips' = [t \in Trips |-> IF trips[t].expired THEN [trips[t] EXCEPT !.state = "gone"]
                               ELSE trips[t]]
  /\ UNCHANGED <<rows, history, changes, pc, loc>>

-----------------------------------------------------------------------------
Request(w) ==
  \/ \E u \in Accounts : \/ registrationOptions(w, u) \/ stepUpOptions(w, u)
                         \/ \E kind \in SsoKinds : start(w, kind, u)
  \/ loginOptions(w)
  \/ \E t \in Trips : \/ \E s \in Subjects, email \in Accounts \cup {NoOne} : callback(w, t, s, email)
                      \/ \E kind \in Kinds \ SsoKinds, k \in Keys, u \in Accounts \cup {NoOne} :
                           respond(w, kind, t, k, u)

Continue(w) ==
  \/ save(w) \/ consume(w) \/ findIdentity(w) \/ countLinks(w) \/ createLink(w)
  \/ emailInUse(w) \/ touch(w) \/ createKey(w) \/ useKey(w)
  \/ \E ok \in BOOLEAN : finish(w, ok) \/ provision(w, ok) \/ newKey(w, ok) \/ findKey(w, ok)
                       \/ signIn(w, ok)

Environment ==
  \/ \E enabled, provisioning \in BOOLEAN : updateProvider(enabled, provisioning)
  \/ deleteProvider \/ cleanup
  \/ \E provisioning \in BOOLEAN : createProvider(provisioning)
  \/ \E r \in links : unlink({r})
  \/ \E r \in keys : remove({r})
  \/ \E u \in Accounts : unlink(LinksOf(u)) \/ remove(KeysOf(u)) \/ setStatus(u)
  \/ \E t \in Trips : expire(t)

\* What an answer may rest on now: its provider, and the accounts that its
\* subject or authenticator leads to.
Now(w) == [provider |-> Same(w) /\ provider.enabled,
           means    |-> {r.user : r \in Of(loc[w].who)}]

\* Keeps `seen' up to date.
Witness ==
  seen' = [w \in Workers |->
             IF loc'[w].t = NoTrip THEN Nothing
             ELSE [provider |-> seen[w].provider \/ Now(w)'.provider,
                   means    |-> seen[w].means \cup Now(w)'.means]]

Next ==
  /\ Environment \/ \E w \in Workers : Request(w) \/ Continue(w)
  /\ Witness

Spec == Init /\ [][Next]_vars

-----------------------------------------------------------------------------
(* Properties.                                                             *)

TypeOK ==
  /\ account \in [Accounts -> {"none", "ACTIVE", "SUSPENDED"}]
  /\ provider \in [present : BOOLEAN, gen : 0..MaxChanges, enabled : BOOLEAN, provisioning : BOOLEAN]
  /\ links \subseteq Row(Subjects) /\ keys \subseteq Row(Keys)
  /\ trips \in [Trips -> Trip] /\ handed \in [Trips -> Nat]
  /\ made \in [Accounts -> Trips \cup {NoTrip}] /\ granted \subseteq Accounts \X Trips
  /\ seen \in [Workers -> Witnessed] /\ changes \in 0..MaxChanges
  /\ pc \in [Workers -> PCs] /\ loc \in [Workers -> Locals]

Standing(t) ==
  CASE trips[t].state = "none" -> "none"
    [] trips[t].state = "live" -> "live"
    [] OTHER -> IF handed[t] = 0 THEN "void" ELSE "spent"

\* "A ceremony is accepted only by the request that deletes its row": an
\* answer that arrives twice, late, or while expired rows are deleted is
\* accepted once at most.
Abstract == INSTANCE SingleUse WITH Tokens <- Trips, status <- [t \in Trips |-> Standing(t)]
TripsAreSingleUse == Abstract!Spec

\* Nobody gains a way into an account that its holder did not ask for: an
\* identity or passkey was added by a round trip the account itself began, or
\* the identity came with the account.  "Never by email."
EveryWayInWasAskedFor ==
  /\ \A r \in links : \/ trips[r.trip].kind = "LINK" /\ trips[r.trip].user = r.user
                      \/ made[r.user] = r.trip
  /\ \A r \in keys : trips[r.trip].kind = "REGISTER" /\ trips[r.trip].user = r.user

\* Who signs in had, at some moment since the answer arrived, an identity or
\* passkey that leads to that account, and the provider was enabled then,
\* whatever was true when the round trip began.
SignInIsCurrent ==
  [][\A w \in Workers :
       pc[w] = "signIn" /\ pc'[w] = "idle" /\ granted' # granted =>
         /\ loc[w].user \in seen[w].means
         /\ loc[w].kind = "SSO" => seen[w].provider]_vars
=============================================================================
