------------------------- MODULE ExternalSignInProofs -------------------------
(***************************************************************************)
(* Theorems about ExternalSignIn, for every set of accounts, subjects,     *)
(* authenticators, round trips and handlers and every bound.               *)
(***************************************************************************)
EXTENDS ExternalSignIn, TLAPS

-----------------------------------------------------------------------------
(* The inductive invariant.                                                *)

\* What a request at p with the locals l may rely on, given the round trips.
Fits(p, l, tr) ==
  /\ p \in PCs /\ l \in Locals
  /\ l.kind = "LINK" => l.user \in Accounts
  /\ p \notin {"idle", "save"} => l.t \in Trips /\ tr[l.t].state # "none"
  /\ p \in {"consume", "provider", "identity", "count", "link", "newKey", "createKey"} =>
       tr[l.t].kind = l.kind /\ tr[l.t].user = l.user
  /\ p \in {"consume", "provider", "identity", "count", "link", "email", "provision"} =>
       l.kind \in SsoKinds /\ l.who \in Subjects
  /\ p \in {"count", "link"} => l.kind = "LINK"
  /\ p \in {"email", "provision"} => l.kind = "SSO" /\ l.email \in Accounts
  /\ p \in {"newKey", "createKey"} => l.kind = "REGISTER" /\ l.user \in Accounts /\ l.who \in Keys
  /\ p = "save" => l.kind # "none"
  /\ p \in {"touch", "useKey", "signIn"} => l.user \in Accounts

\* What it saw since its answer arrived.
Saw(p, l, s) ==
  /\ p \in {"touch", "useKey", "signIn"} => l.user \in s.means
  /\ p \in {"identity", "email", "provision", "touch", "signIn"} /\ l.kind = "SSO" => s.provider

\* A round trip not yet accepted was handed to nobody; one to link an account
\* has an account.
TripInv ==
  \A t \in Trips :
    /\ trips[t].state = "none" => ~trips[t].expired
    /\ trips[t].state \in {"none", "live"} => handed[t] = 0
    /\ trips[t].kind = "LINK" => trips[t].user \in Accounts

\* Rows were made by round trips that exist, and an account that was made is there.
RowInv ==
  /\ \A r \in links \cup keys : trips[r.trip].state # "none"
  /\ \A a \in Accounts : made[a] # NoTrip => account[a] # "none"

IInv ==
  /\ TypeOK /\ provider.gen <= changes
  /\ TripInv /\ RowInv /\ EveryWayInWasAskedFor
  /\ \A w \in Workers : Fits(pc[w], loc[w], trips) /\ Saw(pc[w], loc[w], seen[w])

-----------------------------------------------------------------------------
(* Round trips.                                                            *)

\* Everything a step may do to the round trips.
TripMove ==
  \/ UNCHANGED <<trips, handed>>
  \/ /\ \E t \in Trips, row \in Trip :
          /\ trips[t].state = "none" /\ row.state = "live" /\ ~row.expired
          /\ row.kind = "LINK" => row.user \in Accounts
          /\ trips' = [trips EXCEPT ![t] = row]
     /\ UNCHANGED handed
  \/ \E t \in Trips : Valid(t) /\ Spend(t)
  \/ /\ \E t \in Trips : Valid(t) /\ trips' = [trips EXCEPT ![t].expired = TRUE]
     /\ UNCHANGED handed
  \/ /\ trips' = [t \in Trips |-> IF trips[t].expired THEN [trips[t] EXCEPT !.state = "gone"]
                                  ELSE trips[t]]
     /\ UNCHANGED handed

\* A round trip that was begun keeps its kind and its account.
Stable(tr, new) ==
  \A t \in Trips :
    tr[t].state # "none" =>
      new[t].state # "none" /\ new[t].kind = tr[t].kind /\ new[t].user = tr[t].user

\* Saving a round trip writes a row of its type.
LEMMA SaveMoves ==
  ASSUME IInv, NEW w \in Workers, save(w)
  PROVE  TripMove
  <1> DEFINE row == [state |-> "live", kind |-> loc[w].kind, user |-> loc[w].user,
                     gen |-> loc[w].gen, expired |-> FALSE]
  <1>1. Fits("save", loc[w], trips)
    BY DEF save, IInv
  <1>2. row \in Trip
    BY <1>1 DEF Fits, Locals, Trip, Kinds, SsoKinds
  <1>3. row.kind = "LINK" => row.user \in Accounts
    BY <1>1 DEF Fits
  <1>4. PICK t \in Trips : trips[t].state = "none" /\ trips' = [trips EXCEPT ![t] = row]
    BY DEF save
  <1>5. row.state = "live" /\ ~row.expired /\ UNCHANGED handed
    BY DEF save, history
  <1> HIDE DEF row
  <1>6. QED
    BY <1>2, <1>3, <1>4, <1>5 DEF TripMove

\* Every step is one of these.
LEMMA TripMoves ==
  ASSUME IInv, Next
  PROVE  TripMove
  <1>1. ASSUME NEW w \in Workers, Request(w) PROVE TripMove
    <2>1. ASSUME NEW u \in Accounts, registrationOptions(w, u) \/ stepUpOptions(w, u) PROVE TripMove
      BY <2>1 DEF registrationOptions, stepUpOptions, Begin, TripMove, history
    <2>2. ASSUME NEW u \in Accounts, NEW kind \in SsoKinds, start(w, kind, u) PROVE TripMove
      BY <2>2 DEF start, Begin, TripMove, history
    <2>3. CASE loginOptions(w)
      BY <2>3 DEF loginOptions, Begin, TripMove, history
    <2>4. ASSUME NEW t \in Trips, NEW s \in Subjects, NEW email \in Accounts \cup {NoOne},
                 callback(w, t, s, email)
          PROVE TripMove
      BY <2>4 DEF callback, TripMove, history
    <2>5. ASSUME NEW t \in Trips, NEW kind \in Kinds \ SsoKinds, NEW k \in Keys,
                 NEW u \in Accounts \cup {NoOne}, respond(w, kind, t, k, u)
          PROVE TripMove
      BY <2>5 DEF respond, TripMove
    <2>6. QED
      BY <1>1, <2>1, <2>2, <2>3, <2>4, <2>5 DEF Request
  <1>2. ASSUME NEW w \in Workers, Continue(w) PROVE TripMove
    <2>1. CASE save(w)
      BY <2>1, SaveMoves
    <2>2. CASE consume(w)
      <3>1. loc[w].t \in Trips
        BY <2>2 DEF consume, IInv, Fits
      <3>2. QED
        BY <2>2, <3>1 DEF consume, TripMove
    <2>3. CASE findIdentity(w) \/ countLinks(w) \/ createLink(w) \/ emailInUse(w) \/ touch(w)
               \/ createKey(w) \/ useKey(w)
      BY <2>3 DEF findIdentity, countLinks, createLink, emailInUse, touch, createKey, useKey,
                  TripMove, history
    <2>4. ASSUME NEW ok \in BOOLEAN, finish(w, ok) \/ provision(w, ok) \/ newKey(w, ok)
                                     \/ findKey(w, ok) \/ signIn(w, ok)
          PROVE TripMove
      BY <2>4 DEF finish, provision, newKey, findKey, signIn, TripMove, history
    <2>5. QED
      BY <1>2, <2>1, <2>2, <2>3, <2>4 DEF Continue
  <1>3. CASE Environment
    <2>1. ASSUME NEW t \in Trips, expire(t) PROVE TripMove
      BY <2>1 DEF expire, TripMove, history
    <2>2. CASE cleanup
      BY <2>2 DEF cleanup, TripMove, history
    <2>3. ASSUME NEW a \in BOOLEAN, NEW b \in BOOLEAN, updateProvider(a, b) \/ createProvider(b)
          PROVE TripMove
      BY <2>3 DEF updateProvider, createProvider, TripMove, history
    <2>4. CASE deleteProvider
      BY <2>4 DEF deleteProvider, TripMove, history
    <2>5. ASSUME NEW S, unlink(S) \/ remove(S) PROVE TripMove
      BY <2>5 DEF unlink, remove, TripMove, history
    <2>6. ASSUME NEW u \in Accounts, setStatus(u) PROVE TripMove
      BY <2>6 DEF setStatus, TripMove, history
    <2>7. QED
      BY <1>3, <2>1, <2>2, <2>3, <2>4, <2>5, <2>6 DEF Environment
  <1>4. QED
    BY <1>1, <1>2, <1>3 DEF Next

\* They keep the types and TripInv, and never change what was begun.
LEMMA TripsKept ==
  ASSUME IInv, TripMove
  PROVE  /\ trips' \in [Trips -> Trip] /\ handed' \in [Trips -> Nat]
         /\ TripInv' /\ Stable(trips, trips')
  <1> USE DEF TripInv, Stable
  <1>0. trips \in [Trips -> Trip] /\ handed \in [Trips -> Nat] /\ TripInv
    BY DEF IInv, TypeOK
  <1>1. CASE UNCHANGED <<trips, handed>>
    BY <1>0, <1>1
  <1>2. ASSUME NEW t \in Trips, NEW row \in Trip,
               trips[t].state = "none", row.state = "live", ~row.expired,
               row.kind = "LINK" => row.user \in Accounts,
               trips' = [trips EXCEPT ![t] = row], UNCHANGED handed
        PROVE  /\ trips' \in [Trips -> Trip] /\ handed' \in [Trips -> Nat]
               /\ TripInv' /\ Stable(trips, trips')
    BY <1>0, <1>2
  <1>3. ASSUME NEW t \in Trips, Valid(t), Spend(t)
        PROVE  /\ trips' \in [Trips -> Trip] /\ handed' \in [Trips -> Nat]
               /\ TripInv' /\ Stable(trips, trips')
    BY <1>0, <1>3 DEF Valid, Spend, Trip
  <1>4. ASSUME NEW t \in Trips, Valid(t), trips' = [trips EXCEPT ![t].expired = TRUE],
               UNCHANGED handed
        PROVE  /\ trips' \in [Trips -> Trip] /\ handed' \in [Trips -> Nat]
               /\ TripInv' /\ Stable(trips, trips')
    BY <1>0, <1>4 DEF Valid, Trip
  <1>5. CASE /\ trips' = [t \in Trips |-> IF trips[t].expired THEN [trips[t] EXCEPT !.state = "gone"]
                                          ELSE trips[t]]
             /\ UNCHANGED handed
    BY <1>0, <1>5 DEF Trip
  <1>6. QED
    BY <1>1, <1>2, <1>3, <1>4, <1>5 DEF TripMove

\* Each is a step of SingleUse, or none at all.
LEMMA TripsRefine ==
  ASSUME IInv, TripMove
  PROVE  [Abstract!Next]_<<[t \in Trips |-> Standing(t)], handed>>
  <1> DEFINE status == [t \in Trips |-> Standing(t)]
  <1>0. /\ trips \in [Trips -> Trip] /\ handed \in [Trips -> Nat] /\ TripInv
    BY DEF IInv, TypeOK
  <1>1. CASE UNCHANGED <<trips, handed>>
    BY <1>1 DEF Standing
  <1>2. ASSUME NEW t \in Trips, NEW row \in Trip,
               trips[t].state = "none", row.state = "live",
               trips' = [trips EXCEPT ![t] = row], UNCHANGED handed
        PROVE  Abstract!Next
    <2>1. status[t] = "none" /\ status' = [status EXCEPT ![t] = "live"]
      BY <1>0, <1>2 DEF Standing
    <2> HIDE DEF status
    <2>2. Abstract!Mint(t)
      BY <1>2, <2>1 DEF Abstract!Mint, Abstract!Become, status
    <2>3. QED
      BY <2>2 DEF Abstract!Next
  <1>3. ASSUME NEW t \in Trips, Valid(t), Spend(t)
        PROVE  Abstract!Next
    <2>0. handed[t] = 0 /\ trips[t].state = "live"
      BY <1>0, <1>3 DEF Valid, TripInv
    <2>1. handed' = [handed EXCEPT ![t] = 1]
      <3>1. handed' = [handed EXCEPT ![t] = handed[t] + 1]
        BY <1>3 DEF Spend
      <3>2. handed[t] + 1 = 1
        BY <2>0
      <3>3. QED
        BY <3>1, <3>2
    <2>2. status[t] = "live" /\ status' = [status EXCEPT ![t] = "spent"]
      <3>1. handed'[t] = 1 /\ trips'[t].state = "gone"
        BY <1>0, <1>3, <2>1 DEF Spend, Trip
      <3>2. Standing(t) = "live" /\ Standing(t)' = "spent"
        BY <2>0, <3>1 DEF Standing
      <3>3. \A u \in Trips : u # t => Standing(u)' = Standing(u)
        BY <1>0, <1>3, <2>1 DEF Spend, Standing
      <3>4. QED
        BY <3>2, <3>3
    <2> HIDE DEF status
    <2>3. Abstract!Spend(t)
      BY <2>1, <2>2 DEF Abstract!Spend, Abstract!Become, status
    <2>4. QED
      BY <2>3 DEF Abstract!Next
  <1>4. ASSUME NEW t \in Trips, Valid(t), trips' = [trips EXCEPT ![t].expired = TRUE],
               UNCHANGED handed
        PROVE  UNCHANGED <<status, handed>>
    BY <1>0, <1>4 DEF Standing, Trip
  <1>5. CASE /\ trips' = [t \in Trips |-> IF trips[t].expired THEN [trips[t] EXCEPT !.state = "gone"]
                                          ELSE trips[t]]
             /\ UNCHANGED handed
    <2> DEFINE S == {t \in Trips : trips[t].state = "live" /\ trips[t].expired}
    <2>1. S \in SUBSET {t \in Trips : status[t] = "live"}
      BY <1>0 DEF Standing
    <2>2. ASSUME NEW t \in Trips
          PROVE  status'[t] = IF t \in S THEN "void" ELSE status[t]
      BY <1>0, <1>5 DEF Standing, Trip, TripInv
    <2>3. status' = [t \in Trips |-> IF t \in S THEN "void" ELSE status[t]]
      BY <2>2
    <2> HIDE DEF status, S
    <2>4. Abstract!VoidSome
      BY <1>5, <2>1, <2>3 DEF Abstract!VoidSome, status
    <2>5. QED
      BY <2>4 DEF Abstract!Next
  <1>6. QED
    BY <1>1, <1>2, <1>3, <1>4, <1>5 DEF TripMove

-----------------------------------------------------------------------------
(* Accounts, identities and passkeys.                                      *)

\* Everything a step may do to them.
RowMove ==
  \/ /\ links' \subseteq links /\ keys' \subseteq keys /\ made' = made
     /\ account' \in [Accounts -> {"none", "ACTIVE", "SUSPENDED"}]
     /\ \A a \in Accounts : account[a] # "none" => account'[a] # "none"
  \/ \E r \in Row(Subjects) :
       /\ links' = links \cup {r} /\ UNCHANGED <<keys, made, account>>
       /\ trips[r.trip].state # "none"
       /\ trips[r.trip].kind = "LINK" /\ trips[r.trip].user = r.user
  \/ \E r \in Row(Subjects) :
       /\ links' = links \cup {r} /\ keys' = keys
       /\ trips[r.trip].state # "none" /\ account[r.user] = "none"
       /\ account' = [account EXCEPT ![r.user] = "ACTIVE"]
       /\ made' = [made EXCEPT ![r.user] = r.trip]
  \/ \E r \in Row(Keys) :
       /\ keys' = keys \cup {r} /\ UNCHANGED <<links, made, account>>
       /\ trips[r.trip].state # "none"
       /\ trips[r.trip].kind = "REGISTER" /\ trips[r.trip].user = r.user

\* Nothing is added when accounts, identities, passkeys and `made' stay.
LEMMA NoRowMove ==
  ASSUME IInv, UNCHANGED <<account, links, keys, made>>
  PROVE  RowMove
  BY DEF IInv, TypeOK, RowMove

\* Every step is one of these.
LEMMA RowMoves ==
  ASSUME IInv, Next
  PROVE  RowMove
  <1>1. ASSUME NEW w \in Workers, Request(w) PROVE RowMove
    <2>1. UNCHANGED <<account, links, keys, made>>
      BY <1>1 DEF Request, registrationOptions, stepUpOptions, start, loginOptions, Begin,
                  callback, respond, rows, history
    <2>2. QED
      BY <2>1, NoRowMove
  <1>2. ASSUME NEW w \in Workers, Continue(w) PROVE RowMove
    <2>0. Fits(pc[w], loc[w], trips)
      BY DEF IInv
    <2>1. CASE createLink(w)
      <3> DEFINE r == [who |-> loc[w].who, user |-> loc[w].user, trip |-> loc[w].t]
      <3>1. /\ r \in Row(Subjects) /\ trips[r.trip].state # "none"
            /\ trips[r.trip].kind = "LINK" /\ trips[r.trip].user = r.user
        BY <2>0, <2>1 DEF createLink, Fits, Row
      <3>2. CASE Insertable(w)
        <4>1. links' = links \cup {r} /\ UNCHANGED <<keys, made, account>>
          BY <2>1, <3>2 DEF createLink, Linked, history
        <4> HIDE DEF r
        <4>2. QED
          BY <3>1, <4>1 DEF RowMove
      <3>3. CASE ~Insertable(w)
        BY <2>1, <3>3, NoRowMove DEF createLink, history
      <3>4. QED
        BY <3>2, <3>3
    <2>2. ASSUME NEW member \in BOOLEAN, provision(w, member) PROVE RowMove
      <3> DEFINE u == loc[w].email
                 r == [who |-> loc[w].who, user |-> u, trip |-> loc[w].t]
      <3>1. r \in Row(Subjects) /\ trips[r.trip].state # "none"
        BY <2>0, <2>2 DEF provision, Fits, Row
      <3>2. CASE account[u] = "none" /\ Insertable(w)
        <4>1. /\ links' = links \cup {r} /\ keys' = keys /\ account[r.user] = "none"
              /\ account' = [account EXCEPT ![r.user] = "ACTIVE"]
              /\ made' = [made EXCEPT ![r.user] = r.trip]
          BY <2>2, <3>2 DEF provision, Linked
        <4> HIDE DEF r
        <4>2. QED
          BY <3>1, <4>1 DEF RowMove
      <3>3. CASE ~(account[u] = "none" /\ Insertable(w))
        BY <2>2, <3>3, NoRowMove DEF provision
      <3>4. QED
        BY <3>2, <3>3
    <2>3. CASE createKey(w)
      <3> DEFINE r == [who |-> loc[w].who, user |-> loc[w].user, trip |-> loc[w].t]
      <3>1. /\ r \in Row(Keys) /\ trips[r.trip].state # "none"
            /\ trips[r.trip].kind = "REGISTER" /\ trips[r.trip].user = r.user
        BY <2>0, <2>3 DEF createKey, Fits, Row
      <3>2. keys' = keys \cup {r} /\ UNCHANGED <<links, made, account>>
        BY <2>3 DEF createKey, history
      <3> HIDE DEF r
      <3>3. QED
        BY <3>1, <3>2 DEF RowMove
    <2>4. CASE save(w) \/ consume(w) \/ findIdentity(w) \/ countLinks(w) \/ emailInUse(w)
               \/ touch(w) \/ useKey(w)
      <3>1. UNCHANGED <<account, links, keys, made>>
        BY <2>4 DEF save, consume, findIdentity, countLinks, emailInUse, touch, useKey,
                    rows, history
      <3>2. QED
        BY <3>1, NoRowMove
    <2>5. ASSUME NEW ok \in BOOLEAN, finish(w, ok) \/ newKey(w, ok) \/ findKey(w, ok)
                                     \/ signIn(w, ok)
          PROVE  RowMove
      <3>1. UNCHANGED <<account, links, keys, made>>
        BY <2>5 DEF finish, newKey, findKey, signIn, rows, history
      <3>2. QED
        BY <3>1, NoRowMove
    <2>6. QED
      BY <1>2, <2>1, <2>2, <2>3, <2>4, <2>5 DEF Continue
  <1>3. CASE Environment
    <2>1. ASSUME NEW a \in BOOLEAN, NEW b \in BOOLEAN, updateProvider(a, b) \/ createProvider(b)
          PROVE RowMove
      BY <2>1, NoRowMove DEF updateProvider, createProvider, history
    <2>2. ASSUME NEW t \in Trips, expire(t) \/ cleanup PROVE RowMove
      BY <2>2, NoRowMove DEF expire, cleanup, rows, history
    <2>3. CASE cleanup
      BY <2>3, NoRowMove DEF cleanup, rows, history
    <2>4. CASE deleteProvider
      BY <2>4 DEF deleteProvider, RowMove, history, IInv, TypeOK
    <2>5. ASSUME NEW S, unlink(S) \/ remove(S) PROVE RowMove
      BY <2>5 DEF unlink, remove, RowMove, history, IInv, TypeOK
    <2>6. ASSUME NEW u \in Accounts, setStatus(u) PROVE RowMove
      BY <2>6 DEF setStatus, RowMove, history, IInv, TypeOK
    <2>7. QED
      BY <1>3, <2>1, <2>2, <2>3, <2>4, <2>5, <2>6 DEF Environment
  <1>4. QED
    BY <1>1, <1>2, <1>3 DEF Next

\* Their types, and where they come from.
RowsFine ==
  /\ account \in [Accounts -> {"none", "ACTIVE", "SUSPENDED"}]
  /\ links \subseteq Row(Subjects) /\ keys \subseteq Row(Keys)
  /\ made \in [Accounts -> Trips \cup {NoTrip}]
  /\ RowInv /\ EveryWayInWasAskedFor

\* These steps keep the types, and every way in was asked for.
LEMMA RowsKept ==
  ASSUME IInv, RowMove, Stable(trips, trips')
  PROVE  RowsFine'
  <1> USE DEF RowsFine, RowInv, EveryWayInWasAskedFor, Stable
  <1>0. RowsFine
    BY DEF IInv, TypeOK
  <1>1. \A r \in links \cup keys : r.trip \in Trips /\ r.user \in Accounts
    BY <1>0 DEF Row
  <1>2. CASE /\ links' \subseteq links /\ keys' \subseteq keys /\ made' = made
             /\ account' \in [Accounts -> {"none", "ACTIVE", "SUSPENDED"}]
             /\ \A a \in Accounts : account[a] # "none" => account'[a] # "none"
    BY <1>0, <1>1, <1>2
  <1>3. ASSUME NEW r \in Row(Subjects), links' = links \cup {r}, UNCHANGED <<keys, made, account>>,
               trips[r.trip].state # "none",
               trips[r.trip].kind = "LINK", trips[r.trip].user = r.user
        PROVE  RowsFine'
    BY <1>0, <1>1, <1>3 DEF Row
  <1>4. ASSUME NEW r \in Row(Subjects), links' = links \cup {r}, keys' = keys,
               trips[r.trip].state # "none", account[r.user] = "none",
               account' = [account EXCEPT ![r.user] = "ACTIVE"],
               made' = [made EXCEPT ![r.user] = r.trip]
        PROVE  RowsFine'
    <2>1. r.user \in Accounts /\ r.trip \in Trips
      BY DEF Row
    <2>2. made[r.user] = NoTrip
      BY <1>0, <1>4, <2>1
    <2>3. \A q \in links : made[q.user] = q.trip => q.user # r.user
      BY <1>1, <2>2, ExternalAssumption DEF NoTrip
    <2>4. \A q \in links : made[q.user] = q.trip => made'[q.user] = q.trip
      BY <1>0, <1>1, <1>4, <2>3
    <2>5. EveryWayInWasAskedFor'
      BY <1>0, <1>1, <1>4, <2>1, <2>4
    <2>6. RowInv'
      BY <1>0, <1>1, <1>4, <2>1
    <2>7. QED
      BY <1>0, <1>4, <2>1, <2>5, <2>6
  <1>5. ASSUME NEW r \in Row(Keys), keys' = keys \cup {r}, UNCHANGED <<links, made, account>>,
               trips[r.trip].state # "none",
               trips[r.trip].kind = "REGISTER", trips[r.trip].user = r.user
        PROVE  RowsFine'
    BY <1>0, <1>1, <1>5 DEF Row
  <1>6. QED
    BY <1>2, <1>3, <1>4, <1>5 DEF RowMove

-----------------------------------------------------------------------------
(* Requests in flight.                                                     *)

\* A request that is over relies on nothing.
LEMMA Idle ==
  ASSUME NEW tr, NEW s
  PROVE  NoLoc \in Locals /\ Fits("idle", NoLoc, tr) /\ Saw("idle", NoLoc, s)
  <1>1. NoLoc \in Locals
    BY DEF NoLoc, Locals, NoOne, NoTrip
  <1>2. QED
    BY <1>1 DEF Fits, Saw, NoLoc, PCs

\* What others do to the round trips does not matter to a request in flight.
LEMMA FitsStable ==
  ASSUME NEW p, NEW l, Fits(p, l, trips), Stable(trips, trips')
  PROVE  Fits(p, l, trips')
  BY DEF Fits, Stable, PCs

\* What is seen is not forgotten, and what is there now is seen.
LEMMA Witnesses ==
  ASSUME IInv, Witness, NEW w \in Workers, loc'[w].t # NoTrip
  PROVE  /\ seen[w].means \subseteq seen'[w].means
         /\ seen[w].provider => seen'[w].provider
         /\ \A r \in links' \cup keys' : r.who = loc'[w].who => r.user \in seen'[w].means
         /\ usable(w)' => seen'[w].provider
  <1>1. seen'[w] = [provider |-> seen[w].provider \/ Now(w)'.provider,
                    means    |-> seen[w].means \cup Now(w)'.means]
    BY DEF Witness
  <1>2. Now(w)'.means = {r.user : r \in {q \in links' \cup keys' : q.who = loc'[w].who}}
    BY DEF Now, Of
  <1>3. usable(w)' => Now(w)'.provider
    BY DEF Now, usable, Same
  <1>4. seen'[w].means = seen[w].means \cup Now(w)'.means
    BY <1>1
  <1>5. seen'[w].provider = (seen[w].provider \/ Now(w)'.provider)
    BY <1>1
  <1>6. ASSUME NEW r \in links' \cup keys', r.who = loc'[w].who PROVE r.user \in seen'[w].means
    BY <1>2, <1>4, <1>6
  <1>7. QED
    BY <1>3, <1>4, <1>5, <1>6

\* The history keeps its type.
LEMMA SeenType ==
  ASSUME IInv, Witness, RowsFine'
  PROVE  seen' \in [Workers -> Witnessed]
  <1>1. ASSUME NEW w \in Workers PROVE Now(w)'.provider \in BOOLEAN /\ Now(w)'.means \subseteq Accounts
    <2>1. \A r \in links' \cup keys' : r.user \in Accounts
      BY DEF RowsFine, Row
    <2>2. QED
      BY <2>1 DEF Now, Of, Same
  <1>2. ASSUME NEW w \in Workers PROVE seen[w].provider \in BOOLEAN /\ seen[w].means \subseteq Accounts
    BY DEF IInv, TypeOK, Witnessed
  <1>3. Nothing \in Witnessed
    BY DEF Nothing, Witnessed
  <1>4. ASSUME NEW w \in Workers
        PROVE  [provider |-> seen[w].provider \/ Now(w)'.provider,
                means    |-> seen[w].means \cup Now(w)'.means] \in Witnessed
    BY <1>1, <1>2 DEF Witnessed
  <1>5. QED
    BY <1>3, <1>4 DEF Witness

\* One request goes to where it may rely on what it has.
Moved(w) ==
  \E p, l : Goto(w, p, l) /\ Fits(p, l, trips') /\ Saw(p, l, seen'[w])

\* A request that ends.
LEMMA Returns ==
  ASSUME NEW w \in Workers, Return(w)
  PROVE  Moved(w)
  BY Idle DEF Moved, Return

\* A request that has nothing to see yet.
LEMMA Begins ==
  ASSUME NEW w \in Workers, NEW p \in {"save", "consume", "provider", "count", "link", "newKey",
                                       "createKey", "key"},
         NEW l, Goto(w, p, l), Fits(p, l, trips')
  PROVE  Moved(w)
  BY DEF Moved, Saw

\* What new requests do.
LEMMA RequestMoves ==
  ASSUME IInv, Stable(trips, trips'), NEW w \in Workers, Request(w)
  PROVE  UNCHANGED <<pc, loc>> \/ Moved(w)
  <1> USE DEF Fits, PCs, Kinds, SsoKinds
  <1>0. NoLoc \in Locals /\ NoLoc.t = NoTrip
    BY Idle DEF NoLoc
  <1>1. ASSUME NEW u \in Accounts, NEW kind \in Kinds, kind # "SSO" /\ kind # "LOGIN",
               Begin(w, [NoLoc EXCEPT !.kind = kind, !.user = u])
        PROVE  Moved(w)
    <2> DEFINE l == [NoLoc EXCEPT !.kind = kind, !.user = u]
    <2>1. l \in Locals /\ l.kind = kind /\ l.user = u
      BY <1>0 DEF Locals
    <2>2. Goto(w, "save", l)
      BY <1>1 DEF Begin
    <2> HIDE DEF l
    <2>3. Fits("save", l, trips')
      BY <2>1
    <2>4. QED
      BY <2>2, <2>3, Begins
  <1>2. ASSUME NEW u \in Accounts, registrationOptions(w, u) \/ stepUpOptions(w, u)
        PROVE  Moved(w)
    BY <1>1, <1>2 DEF registrationOptions, stepUpOptions
  <1>3. ASSUME NEW u \in Accounts, NEW kind \in SsoKinds, start(w, kind, u) PROVE Moved(w)
    <2> DEFINE l == [NoLoc EXCEPT !.kind = kind, !.gen = provider.gen,
                                  !.user = IF kind = "LINK" THEN u ELSE NoOne]
    <2>1. provider.gen \in Nat
      BY DEF IInv, TypeOK
    <2>2. l \in Locals /\ l.kind = kind /\ (kind = "LINK" => l.user = u)
      BY <1>0, <2>1 DEF Locals
    <2>3. Goto(w, "save", l)
      BY <1>3 DEF start, Begin
    <2> HIDE DEF l
    <2>4. Fits("save", l, trips')
      BY <2>2
    <2>5. QED
      BY <2>3, <2>4, Begins
  <1>4. CASE loginOptions(w)
    <2> DEFINE l == [NoLoc EXCEPT !.kind = "LOGIN"]
    <2>1. l \in Locals /\ l.kind = "LOGIN"
      BY <1>0 DEF Locals
    <2>2. Goto(w, "save", l)
      BY <1>4 DEF loginOptions, Begin
    <2> HIDE DEF l
    <2>3. Fits("save", l, trips')
      BY <2>1
    <2>4. QED
      BY <2>2, <2>3, Begins
  <1>5. ASSUME NEW t \in Trips, NEW s \in Subjects, NEW email \in Accounts \cup {NoOne},
               callback(w, t, s, email)
        PROVE  UNCHANGED <<pc, loc>> \/ Moved(w)
    <2> DEFINE l == [NoLoc EXCEPT !.t = t, !.kind = trips[t].kind, !.user = trips[t].user,
                                  !.gen = trips[t].gen, !.who = s, !.email = email]
    <2>1. CASE trips[t].state = "live"
      <3>1. trips[t] \in Trip /\ (trips[t].kind = "LINK" => trips[t].user \in Accounts)
        BY DEF IInv, TypeOK, TripInv
      <3>2. /\ l \in Locals /\ l.t = t /\ l.who = s
            /\ l.kind = trips[t].kind /\ l.user = trips[t].user
        BY <1>0, <3>1 DEF Locals, Trip
      <3>3. Goto(w, "consume", l) /\ l.kind \in SsoKinds /\ trips' = trips
        BY <1>5, <2>1 DEF callback
      <3> HIDE DEF l
      <3>4. Fits("consume", l, trips')
        BY <2>1, <3>1, <3>2, <3>3
      <3>5. QED
        BY <3>3, <3>4, Begins
    <2>2. CASE trips[t].state # "live"
      BY <1>5, <2>2 DEF callback
    <2>3. QED
      BY <2>1, <2>2
  <1>6. ASSUME NEW t \in Trips, NEW kind \in Kinds \ SsoKinds, NEW k \in Keys,
               NEW u \in Accounts \cup {NoOne}, respond(w, kind, t, k, u)
        PROVE  UNCHANGED <<pc, loc>> \/ Moved(w)
    <2> DEFINE l == [NoLoc EXCEPT !.t = t, !.kind = kind, !.user = u, !.who = k]
               p == IF kind = "REGISTER" THEN "newKey" ELSE "key"
    <2>1. CASE Valid(t) /\ trips[t].kind = kind /\ trips[t].user = u
      <3>1. l \in Locals /\ l.t = t /\ l.who = k /\ l.kind = kind /\ l.user = u
        BY <1>0 DEF Locals
      <3>2. Goto(w, p, l) /\ (kind = "REGISTER" => u \in Accounts)
        BY <1>6, <2>1 DEF respond
      <3>3. trips'[t].state # "none" /\ trips'[t].kind = kind /\ trips'[t].user = u
        BY <2>1 DEF Stable, Valid
      <3> HIDE DEF l
      <3>4. Fits(p, l, trips')
        BY <3>1, <3>2, <3>3
      <3>5. QED
        BY <3>2, <3>4, Begins
    <2>2. CASE ~(Valid(t) /\ trips[t].kind = kind /\ trips[t].user = u)
      BY <1>6, <2>2 DEF respond
    <2>3. QED
      BY <2>1, <2>2
  <1>7. QED
    BY <1>2, <1>3, <1>4, <1>5, <1>6 DEF Request

\* What a request does that has begun.
LEMMA ContinueMoves ==
  ASSUME IInv, Stable(trips, trips'), Witness, NEW w \in Workers, Continue(w)
  PROVE  Moved(w)
  <1> DEFINE l == loc[w]
  <1> USE DEF PCs, SsoKinds
  <1>1. Fits(pc[w], l, trips') /\ Saw(pc[w], l, seen[w])
    BY FitsStable DEF IInv
  <1>2. pc[w] \in PCs /\ pc \in [Workers -> PCs] /\ loc \in [Workers -> Locals]
    BY DEF IInv, TypeOK
  <1>3. ASSUME NEW p, NEW m, Goto(w, p, m), m \in Locals, m.t = l.t, m.who = l.who,
               pc[w] \notin {"idle", "save"}
        PROVE  /\ loc'[w] = m
               /\ seen[w].means \subseteq seen'[w].means
               /\ seen[w].provider => seen'[w].provider
               /\ \A r \in links' \cup keys' : r.who = l.who => r.user \in seen'[w].means
               /\ provider' = provider /\ m.gen = l.gen /\ usable(w) => seen'[w].provider
    <2>1. loc'[w] = m
      BY <1>2, <1>3 DEF Goto
    <2>2. loc'[w].t # NoTrip
      BY <1>1, <1>3, <2>1, ExternalAssumption DEF Fits, NoTrip
    <2>3. provider' = provider /\ m.gen = l.gen /\ usable(w) => usable(w)'
      BY <2>1 DEF usable, Same
    <2>4. QED
      BY <1>3, <2>1, <2>2, <2>3, Witnesses
  <1>4. CASE save(w)
    BY <1>4, Returns DEF save
  <1>5. CASE consume(w)
    <2>1. CASE Step(w, "provider")
      <3>1. Fits("provider", l, trips') /\ Goto(w, "provider", l)
        BY <1>1, <1>5, <2>1 DEF consume, Fits, Step
      <3>2. QED
        BY <3>1, Begins
    <2>2. QED
      BY <1>5, <2>1, Returns DEF consume
  <1>6. ASSUME NEW ok \in BOOLEAN, finish(w, ok) PROVE Moved(w)
    <2> DEFINE m == [l EXCEPT !.provisioning = provider.provisioning]
    <2>1. CASE usable(w) /\ Goto(w, "identity", m)
      <3>1. provider.provisioning \in BOOLEAN /\ provider' = provider /\ pc[w] = "provider"
        BY <1>6 DEF IInv, TypeOK, finish, rows
      <3>2. /\ m \in Locals /\ m.t = l.t /\ m.kind = l.kind /\ m.user = l.user
            /\ m.who = l.who /\ m.gen = l.gen
        BY <1>2, <3>1 DEF Locals
      <3> HIDE DEF m
      <3>3. Fits("identity", m, trips')
        BY <1>1, <3>1, <3>2 DEF Fits
      <3>4. seen'[w].provider
        BY <1>3, <2>1, <3>1, <3>2
      <3>5. QED
        BY <2>1, <3>3, <3>4 DEF Moved, Saw
    <2>2. QED
      BY <1>6, <2>1, Returns DEF finish
  <1>7. CASE findIdentity(w)
    <2>1. pc[w] = "identity" /\ l \in Locals
      BY <1>2, <1>7 DEF findIdentity
    <2>2. CASE l.kind = "LINK" /\ Step(w, "count")
      <3>1. Fits("count", l, trips') /\ Goto(w, "count", l)
        BY <1>1, <2>1, <2>2 DEF Fits, Step
      <3>2. QED
        BY <3>1, Begins
    <2>3. CASE l.kind = "SSO" /\ l.email # NoOne /\ Step(w, "email")
      <3>1. Fits("email", l, trips') /\ Goto(w, "email", l)
        BY <1>1, <2>1, <2>3 DEF Fits, Step, Locals
      <3>2. seen'[w].provider
        BY <1>1, <1>3, <2>1, <2>3, <3>1 DEF Saw
      <3>3. QED
        BY <3>1, <3>2 DEF Moved, Saw
    <2>4. ASSUME NEW r \in Of(l.who), l.kind = "SSO",
                 Goto(w, "touch", [l EXCEPT !.user = r.user, !.row = r.trip])
          PROVE  Moved(w)
      <3> DEFINE m == [l EXCEPT !.user = r.user, !.row = r.trip]
      <3>1. /\ r \in links' \cup keys' /\ r.who = l.who
            /\ r.user \in Accounts /\ r.trip \in Trips
        BY <1>7 DEF findIdentity, rows, Of, IInv, TypeOK, Row
      <3>2. /\ m \in Locals /\ m.t = l.t /\ m.kind = l.kind /\ m.user = r.user
            /\ m.who = l.who
        BY <2>1, <3>1 DEF Locals
      <3> HIDE DEF m
      <3>3. Fits("touch", m, trips')
        BY <1>1, <2>1, <2>4, <3>1, <3>2 DEF Fits
      <3>4. Goto(w, "touch", m)
        BY <2>4 DEF m
      <3>5. seen'[w].provider /\ m.user \in seen'[w].means
        BY <1>1, <1>3, <2>1, <2>4, <3>1, <3>2, <3>4 DEF Saw
      <3>6. QED
        BY <3>3, <3>4, <3>5 DEF Moved, Saw
    <2>5. QED
      BY <1>7, <2>2, <2>3, <2>4, Returns DEF findIdentity
  <1>8. CASE countLinks(w)
    <2>1. CASE Step(w, "link")
      <3>1. Fits("link", l, trips') /\ Goto(w, "link", l)
        BY <1>1, <1>8, <2>1 DEF countLinks, Fits, Step
      <3>2. QED
        BY <3>1, Begins
    <2>2. QED
      BY <1>8, <2>1, Returns DEF countLinks
  <1>9. CASE createLink(w) \/ createKey(w)
    BY <1>9, Returns DEF createLink, createKey
  <1>10. CASE emailInUse(w)
    <2>1. CASE Step(w, "provision")
      <3>1. Fits("provision", l, trips') /\ Goto(w, "provision", l) /\ l \in Locals
        BY <1>1, <1>10, <2>1 DEF emailInUse, Fits, Step
      <3>2. l.kind = "SSO" => seen'[w].provider
        BY <1>1, <1>3, <1>10, <3>1 DEF emailInUse, Saw
      <3>3. QED
        BY <3>1, <3>2 DEF Moved, Saw
    <2>2. QED
      BY <1>10, <2>1, Returns DEF emailInUse
  <1>11. ASSUME NEW member \in BOOLEAN, provision(w, member) PROVE Moved(w)
    <2> DEFINE m == [l EXCEPT !.user = l.email, !.row = l.t]
    <2>1. CASE Linked(w, l.email) /\ Goto(w, "touch", m)
      <3>1. /\ pc[w] = "provision" /\ l \in Locals /\ l.t \in Trips
            /\ l.email \in Accounts /\ l.kind = "SSO"
        BY <1>1, <1>2, <1>11 DEF provision, Fits
      <3>2. /\ m \in Locals /\ m.t = l.t /\ m.kind = l.kind /\ m.user = l.email
            /\ m.who = l.who
        BY <3>1 DEF Locals
      <3> DEFINE r == [who |-> l.who, user |-> l.email, trip |-> l.t]
      <3>3. r \in links' /\ r.who = l.who /\ r.user = l.email
        BY <2>1 DEF Linked
      <3> HIDE DEF m, r
      <3>4. Fits("touch", m, trips')
        BY <1>1, <3>1, <3>2 DEF Fits
      <3>5. seen'[w].provider /\ m.user \in seen'[w].means
        BY <1>1, <1>3, <2>1, <3>1, <3>2, <3>3 DEF Saw
      <3>6. QED
        BY <2>1, <3>4, <3>5 DEF Moved, Saw
    <2>2. QED
      BY <1>11, <2>1, Returns DEF provision
  <1>12. CASE touch(w)
    <2>1. CASE Step(w, "signIn")
      <3>1. Fits("signIn", l, trips') /\ Goto(w, "signIn", l) /\ l \in Locals /\ pc[w] = "touch"
        BY <1>1, <1>12, <2>1 DEF touch, Fits, Step
      <3>2. (l.kind = "SSO" => seen'[w].provider) /\ l.user \in seen'[w].means
        BY <1>1, <1>3, <3>1 DEF Saw
      <3>3. QED
        BY <3>1, <3>2 DEF Moved, Saw
    <2>2. QED
      BY <1>12, <2>1, Returns DEF touch
  <1>13. ASSUME NEW ok \in BOOLEAN, newKey(w, ok) PROVE Moved(w)
    <2>1. CASE Step(w, "createKey")
      <3>1. Fits("createKey", l, trips') /\ Goto(w, "createKey", l)
        BY <1>1, <1>13, <2>1 DEF newKey, Fits, Step
      <3>2. QED
        BY <3>1, Begins
    <2>2. QED
      BY <1>13, <2>1, Returns DEF newKey
  <1>14. ASSUME NEW ok \in BOOLEAN, findKey(w, ok) PROVE Moved(w)
    <2>1. ASSUME NEW r \in keys, r.who = l.who,
                 Goto(w, "useKey", [l EXCEPT !.user = r.user, !.row = r.trip])
          PROVE  Moved(w)
      <3> DEFINE m == [l EXCEPT !.user = r.user, !.row = r.trip]
      <3>1. /\ r \in links' \cup keys' /\ r.user \in Accounts /\ r.trip \in Trips
            /\ pc[w] = "key"
        BY <1>14 DEF findKey, rows, IInv, TypeOK, Row
      <3>2. /\ m \in Locals /\ m.t = l.t /\ m.kind = l.kind /\ m.user = r.user
            /\ m.who = l.who
        BY <1>2, <3>1 DEF Locals
      <3>3. Goto(w, "useKey", m)
        BY <2>1
      <3> HIDE DEF m
      <3>4. Fits("useKey", m, trips')
        BY <1>1, <3>1, <3>2 DEF Fits
      <3>5. m.user \in seen'[w].means
        BY <1>3, <2>1, <3>1, <3>2, <3>3
      <3>6. QED
        BY <3>3, <3>4, <3>5 DEF Moved, Saw
    <2>2. QED
      BY <1>14, <2>1, Returns DEF findKey
  <1>15. CASE useKey(w)
    <2>1. CASE l.kind = "LOGIN" /\ Step(w, "signIn")
      <3>1. Fits("signIn", l, trips') /\ Goto(w, "signIn", l) /\ l \in Locals /\ pc[w] = "useKey"
        BY <1>1, <1>15, <2>1 DEF useKey, Fits, Step
      <3>2. l.user \in seen'[w].means
        BY <1>1, <1>3, <3>1 DEF Saw
      <3>3. QED
        BY <2>1, <3>1, <3>2 DEF Moved, Saw
    <2>2. QED
      BY <1>15, <2>1, Returns DEF useKey
  <1>16. ASSUME NEW ok \in BOOLEAN, signIn(w, ok) PROVE Moved(w)
    BY <1>16, Returns DEF signIn
  <1>17. QED
    BY <1>4, <1>5, <1>6, <1>7, <1>8, <1>9, <1>10, <1>11, <1>12, <1>13, <1>14, <1>15, <1>16
       DEF Continue

\* Requests that do nothing go on relying on what they have.
LEMMA Waits ==
  ASSUME IInv, Stable(trips, trips'), Witness, NEW w \in Workers,
         pc'[w] = pc[w], loc'[w] = loc[w]
  PROVE  Fits(pc'[w], loc'[w], trips') /\ Saw(pc'[w], loc'[w], seen'[w])
  <1>1. Fits(pc[w], loc[w], trips') /\ Saw(pc[w], loc[w], seen[w])
    BY FitsStable DEF IInv
  <1>2. CASE pc[w] \in {"idle", "save"}
    BY <1>1, <1>2 DEF Saw
  <1>3. CASE pc[w] \notin {"idle", "save"}
    <2>1. loc'[w].t # NoTrip
      BY <1>1, <1>3, ExternalAssumption DEF Fits, NoTrip
    <2>2. seen[w].means \subseteq seen'[w].means /\ (seen[w].provider => seen'[w].provider)
      BY <2>1, Witnesses
    <2>3. QED
      BY <1>1, <2>2 DEF Saw
  <1>4. QED
    BY <1>2, <1>3

\* Every request in flight may rely on what it has, and saw it.
LEMMA Moves ==
  ASSUME IInv, Next, Stable(trips, trips')
  PROVE  /\ pc' \in [Workers -> PCs] /\ loc' \in [Workers -> Locals]
         /\ \A w \in Workers : Fits(pc'[w], loc'[w], trips') /\ Saw(pc'[w], loc'[w], seen'[w])
  <1>0. pc \in [Workers -> PCs] /\ loc \in [Workers -> Locals] /\ Witness
    BY DEF IInv, TypeOK, Next
  <1>1. UNCHANGED <<pc, loc>> \/ \E w \in Workers : Moved(w)
    <2>1. CASE Environment
      <3>1. ASSUME NEW a \in BOOLEAN, NEW b \in BOOLEAN, updateProvider(a, b) \/ createProvider(b)
            PROVE  UNCHANGED <<pc, loc>>
        BY <3>1 DEF updateProvider, createProvider
      <3>2. ASSUME NEW S, unlink(S) \/ remove(S) PROVE UNCHANGED <<pc, loc>>
        BY <3>2 DEF unlink, remove
      <3>3. QED
        BY <2>1, <3>1, <3>2 DEF Environment, deleteProvider, cleanup, setStatus, expire
    <2>2. QED
      BY <1>0, <2>1, RequestMoves, ContinueMoves DEF Next
  <1>2. CASE UNCHANGED <<pc, loc>>
    BY <1>0, <1>2, Waits
  <1>3. ASSUME NEW w \in Workers, Moved(w)
        PROVE  /\ pc' \in [Workers -> PCs] /\ loc' \in [Workers -> Locals]
               /\ \A v \in Workers : Fits(pc'[v], loc'[v], trips') /\ Saw(pc'[v], loc'[v], seen'[v])
    <2>1. PICK p, l : Goto(w, p, l) /\ Fits(p, l, trips') /\ Saw(p, l, seen'[w])
      BY <1>3 DEF Moved
    <2>2. pc' = [pc EXCEPT ![w] = p] /\ loc' = [loc EXCEPT ![w] = l]
      BY <2>1 DEF Goto
    <2>3. p \in PCs /\ l \in Locals
      BY <2>1 DEF Fits
    <2>4. pc' \in [Workers -> PCs] /\ loc' \in [Workers -> Locals]
      BY <1>0, <2>2, <2>3
    <2>5. ASSUME NEW v \in Workers
          PROVE  Fits(pc'[v], loc'[v], trips') /\ Saw(pc'[v], loc'[v], seen'[v])
      <3>1. CASE v = w
        <4>1. pc'[v] = p /\ loc'[v] = l
          BY <1>0, <2>2, <3>1
        <4>2. QED
          BY <2>1, <3>1, <4>1
      <3>2. CASE v # w
        <4>1. pc'[v] = pc[v] /\ loc'[v] = loc[v]
          BY <1>0, <2>2, <3>2
        <4>2. QED
          BY <1>0, <4>1, Waits
      <3>3. QED
        BY <3>1, <3>2
    <2>6. QED
      BY <2>4, <2>5
  <1>4. QED
    BY <1>1, <1>2, <1>3

-----------------------------------------------------------------------------
(* The theorems.                                                           *)

\* The provider, the count of changes and the sign-ins keep their types.
LEMMA OthersKept ==
  ASSUME IInv, Next
  PROVE  /\ provider' \in [present : BOOLEAN, gen : 0..MaxChanges, enabled : BOOLEAN,
                           provisioning : BOOLEAN]
         /\ changes' \in 0..MaxChanges /\ provider'.gen <= changes'
         /\ granted' \subseteq Accounts \X Trips
  <1> DEFINE Type == [present : BOOLEAN, gen : 0..MaxChanges, enabled : BOOLEAN,
                      provisioning : BOOLEAN]
  <1>0. /\ provider \in Type /\ changes \in 0..MaxChanges /\ provider.gen <= changes
        /\ granted \subseteq Accounts \X Trips /\ MaxChanges \in Nat
    BY ExternalAssumption DEF IInv, TypeOK
  <1>1. ASSUME NEW w \in Workers, Request(w)
        PROVE  UNCHANGED <<provider, changes, granted>>
    BY <1>1 DEF Request, registrationOptions, stepUpOptions, start, loginOptions, Begin,
                callback, respond, rows, history
  <1>2. ASSUME NEW w \in Workers, Continue(w)
        PROVE  UNCHANGED <<provider, changes>> /\ granted' \subseteq Accounts \X Trips
    <2>1. Fits(pc[w], loc[w], trips)
      BY DEF IInv
    <2>2. CASE useKey(w)
      <3>1. <<loc[w].user, loc[w].t>> \in Accounts \X Trips
        BY <2>1, <2>2 DEF useKey, Fits
      <3>2. QED
        BY <1>0, <2>2, <3>1 DEF useKey, rows
    <2>3. ASSUME NEW ok \in BOOLEAN, signIn(w, ok)
          PROVE  UNCHANGED <<provider, changes>> /\ granted' \subseteq Accounts \X Trips
      <3>1. <<loc[w].user, loc[w].t>> \in Accounts \X Trips
        BY <2>1, <2>3 DEF signIn, Fits
      <3>2. QED
        BY <1>0, <2>3, <3>1 DEF signIn, rows
    <2>4. CASE save(w) \/ consume(w) \/ findIdentity(w) \/ countLinks(w) \/ createLink(w)
               \/ emailInUse(w) \/ touch(w) \/ createKey(w)
      BY <1>0, <2>4 DEF save, consume, findIdentity, countLinks, createLink, emailInUse, touch,
                        createKey, rows, history
    <2>5. ASSUME NEW ok \in BOOLEAN, finish(w, ok) \/ provision(w, ok) \/ newKey(w, ok)
                                     \/ findKey(w, ok)
          PROVE  UNCHANGED <<provider, changes>> /\ granted' \subseteq Accounts \X Trips
      BY <1>0, <2>5 DEF finish, provision, newKey, findKey, rows, history
    <2>6. QED
      BY <1>2, <2>2, <2>3, <2>4, <2>5 DEF Continue
  <1>3. CASE Environment
    <2>1. granted' = granted
      <3>1. ASSUME NEW a \in BOOLEAN, NEW b \in BOOLEAN, updateProvider(a, b) \/ createProvider(b)
            PROVE  granted' = granted
        BY <3>1 DEF updateProvider, createProvider, history
      <3>2. ASSUME NEW S, unlink(S) \/ remove(S) PROVE granted' = granted
        BY <3>2 DEF unlink, remove, history
      <3>3. QED
        BY <1>3, <3>1, <3>2 DEF Environment, deleteProvider, cleanup, setStatus, expire, history
    <2>2. ASSUME NEW a \in BOOLEAN, NEW b \in BOOLEAN, updateProvider(a, b) \/ createProvider(b)
          PROVE  provider' \in Type /\ changes' \in 0..MaxChanges /\ provider'.gen <= changes'
      <3>1. changes' = changes + 1 /\ changes + 1 \in 0..MaxChanges /\ provider.gen <= changes + 1
        BY <1>0, <2>2 DEF updateProvider, createProvider, Change
      <3>2. \/ provider' = [provider EXCEPT !.enabled = a, !.provisioning = b]
            \/ provider' = [provider EXCEPT !.present = TRUE, !.provisioning = b]
        BY <2>2 DEF updateProvider, createProvider
      <3>3. provider' \in Type
        BY <1>0, <3>2, Zenon
      <3>4. provider'.gen = provider.gen
        BY <1>0, <3>2
      <3>5. QED
        BY <3>1, <3>3, <3>4
    <2>3. CASE deleteProvider
      <3>1. provider.gen + 1 \in 0..MaxChanges /\ changes' = changes + 1
            /\ changes + 1 \in 0..MaxChanges /\ provider.gen + 1 <= changes + 1
        BY <1>0, <2>3 DEF deleteProvider, Change
      <3>2. provider' = [present |-> FALSE, gen |-> provider.gen + 1, enabled |-> FALSE,
                         provisioning |-> FALSE]
        BY <2>3 DEF deleteProvider
      <3>3. QED
        <4>1. provider' \in Type
          BY <3>1, <3>2, Zenon
        <4>2. provider'.gen = provider.gen + 1
          BY <3>2
        <4>3. QED
          BY <2>1, <1>0, <3>1, <4>1, <4>2
    <2>4. ASSUME NEW S, unlink(S) \/ remove(S)
          PROVE  provider' \in Type /\ changes' \in 0..MaxChanges /\ provider'.gen <= changes'
      BY <1>0, <2>4 DEF unlink, remove, Change
    <2>5. ASSUME NEW u \in Accounts, setStatus(u)
          PROVE  provider' \in Type /\ changes' \in 0..MaxChanges /\ provider'.gen <= changes'
      BY <1>0, <2>5 DEF setStatus, Change
    <2>6. ASSUME NEW t \in Trips, expire(t)
          PROVE  provider' \in Type /\ changes' \in 0..MaxChanges /\ provider'.gen <= changes'
      BY <1>0, <2>6 DEF expire, rows
    <2>7. CASE cleanup
      BY <1>0, <2>1, <2>7 DEF cleanup, rows
    <2> HIDE DEF Type
    <2>8. QED
      BY <1>0, <1>3, <2>1, <2>2, <2>3, <2>4, <2>5, <2>6, <2>7 DEF Environment, Type
  <1>4. QED
    BY <1>0, <1>1, <1>2, <1>3 DEF Next

\* IInv holds to begin with.
LEMMA InvInit ==
  Init => IInv
  <1> SUFFICES ASSUME Init PROVE IInv
    OBVIOUS
  <1> USE ExternalAssumption DEF Init
  <1>1. Unused \in Trip /\ Nothing \in Witnessed /\ NoLoc \in Locals
    BY Idle DEF Unused, Trip, Nothing, Witnessed, NoOne
  <1>2. TypeOK
    <2>1. provider \in [present : BOOLEAN, gen : 0..MaxChanges, enabled : BOOLEAN,
                        provisioning : BOOLEAN]
      BY 0 \in 0..MaxChanges
    <2>2. QED
      BY <1>1, <2>1 DEF TypeOK, PCs
  <1>3. TripInv
    BY DEF TripInv, Unused
  <1>4. RowInv /\ EveryWayInWasAskedFor /\ provider.gen <= changes
    BY DEF RowInv, EveryWayInWasAskedFor
  <1>5. \A w \in Workers : Fits(pc[w], loc[w], trips) /\ Saw(pc[w], loc[w], seen[w])
    BY Idle
  <1>6. QED
    BY <1>2, <1>3, <1>4, <1>5 DEF IInv

\* Every step keeps it.
LEMMA InvNext ==
  IInv /\ [Next]_vars => IInv'
  <1> SUFFICES ASSUME IInv, [Next]_vars PROVE IInv'
    OBVIOUS
  <1>1. CASE UNCHANGED vars
    BY <1>1 DEF vars, rows, history, IInv, TypeOK, TripInv, RowInv, EveryWayInWasAskedFor
  <1>2. CASE Next
    <2>1. /\ trips' \in [Trips -> Trip] /\ handed' \in [Trips -> Nat]
          /\ TripInv' /\ Stable(trips, trips')
      BY <1>2, TripMoves, TripsKept
    <2>2. RowsFine'
      BY <1>2, <2>1, RowMoves, RowsKept
    <2>3. seen' \in [Workers -> Witnessed]
      BY <1>2, <2>2, SeenType DEF Next
    <2>4. /\ pc' \in [Workers -> PCs] /\ loc' \in [Workers -> Locals]
          /\ \A w \in Workers : Fits(pc'[w], loc'[w], trips') /\ Saw(pc'[w], loc'[w], seen'[w])
      BY <1>2, <2>1, Moves
    <2>5. QED
      BY <1>2, <2>1, <2>2, <2>3, <2>4, OthersKept DEF IInv, TypeOK, RowsFine
  <1>3. QED
    BY <1>1, <1>2

\* What requests in flight rely on holds always, however they overlap.
THEOREM Inductive == Spec => []IInv
  BY InvInit, InvNext, PTL DEF Spec

\* Rows, round trips and the locals of requests keep their types.
THEOREM TypeCorrect == Spec => []TypeOK
  <1>1. IInv => TypeOK
    BY DEF IInv
  <1>2. QED
    BY <1>1, Inductive, PTL

\* Nobody gains a way into an account that its holder did not ask for.
THEOREM WaysInWereAskedFor == Spec => []EveryWayInWasAskedFor
  <1>1. IInv => EveryWayInWasAskedFor
    BY DEF IInv
  <1>2. QED
    BY <1>1, Inductive, PTL

\* An answer is accepted once at most, however many requests carry it and
\* whatever deletes its row: the rows of round trips implement SingleUse.
THEOREM RoundTripsAreSingleUse == Spec => TripsAreSingleUse
  <1>1. Init => Abstract!Init
    BY DEF Init, Abstract!Init, Standing, Unused
  <1>2. IInv /\ [Next]_vars => [Abstract!Next]_<<[t \in Trips |-> Standing(t)], handed>>
    <2>1. ASSUME IInv, Next PROVE [Abstract!Next]_<<[t \in Trips |-> Standing(t)], handed>>
      BY <2>1, TripMoves, TripsRefine
    <2>2. ASSUME UNCHANGED vars PROVE UNCHANGED <<[t \in Trips |-> Standing(t)], handed>>
      BY <2>2 DEF vars, history, Standing
    <2>3. QED
      BY <2>1, <2>2
  <1>3. QED
    BY <1>1, <1>2, Inductive, PTL DEF Spec, TripsAreSingleUse, Abstract!Spec

\* A sign-in rests on an identity or a passkey that was there, and on a
\* provider that was enabled, since the answer arrived.
THEOREM SignInsAreCurrent == Spec => SignInIsCurrent
  <1> DEFINE A == \A w \in Workers :
                    pc[w] = "signIn" /\ pc'[w] = "idle" /\ granted' # granted =>
                      /\ loc[w].user \in seen[w].means
                      /\ loc[w].kind = "SSO" => seen[w].provider
  <1>1. IInv => A
    BY DEF IInv, Saw
  <1>2. QED
    BY <1>1, Inductive, PTL DEF SignInIsCurrent
=============================================================================
