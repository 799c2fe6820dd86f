------------------------ MODULE SupportRequestsProofs ------------------------
(***************************************************************************)
(* Theorems about SupportRequests, for every set of requests, people and   *)
(* handlers and every bound.                                               *)
(***************************************************************************)
EXTENDS SupportRequests, TLAPS

-----------------------------------------------------------------------------
(* Types.                                                                  *)

\* A row that gets another status, holder and version is still a row.
LEMMA RowType ==
  ASSUME NEW row \in Request, NEW st \in OPEN \cup CLOSED, NEW h \in Users \cup {NoOne}
  PROVE  /\ [row EXCEPT !.status = st] \in Request
         /\ [row EXCEPT !.status = st, !.holder = h] \in Request
         /\ [row EXCEPT !.version = @ + 1] \in Request
         /\ [row EXCEPT !.status = st, !.version = @ + 1] \in Request
  <1>1. [row EXCEPT !.status = st] \in Request
    BY DEF Request
  <1>2. [row EXCEPT !.status = st, !.holder = h] \in Request
    BY DEF Request
  <1>3. [row EXCEPT !.version = @ + 1] \in Request
    BY DEF Request
  <1>4. [row EXCEPT !.status = st, !.version = @ + 1] \in Request
    <2>1. row.version + 1 \in Nat
      BY DEF Request
    <2>2. QED
      BY <2>1 DEF Request
  <1>5. QED
    BY <1>1, <1>2, <1>3, <1>4

\* The locals a handler starts with.
LEMMA LocalsType ==
  /\ NoLoc \in Locals
  /\ NoRequest \in Request
  BY DEF NoLoc, Locals, NoRequest, Request, EventNames

\* What a load adds to them.
LEMMA LoadedType ==
  ASSUME NEW l \in Locals, NEW v \in Nat, NEW h \in Users \cup {NoOne}
  PROVE  [l EXCEPT !.ver = v, !.holder = h] \in Locals
  BY DEF Locals

\* Moving a handler keeps the types of pc and loc.
LEMMA GotoType ==
  ASSUME TypeOK, NEW w \in Workers, NEW p \in PCs, NEW l \in Locals, Goto(w, p, l)
  PROVE  pc' \in [Workers -> PCs] /\ loc' \in [Workers -> Locals]
  BY DEF Goto, TypeOK

\* So does returning.
LEMMA ReturnType ==
  ASSUME TypeOK, NEW w \in Workers, Return(w)
  PROVE  pc' \in [Workers -> PCs] /\ loc' \in [Workers -> Locals]
  BY GotoType, LocalsType DEF Return, PCs

\* A handler that only starts.
LEMMA BeginType ==
  ASSUME TypeOK, NEW w \in Workers, NEW p \in PCs, NEW l \in Locals, Begin(w, p, l)
  PROVE  TypeOK'
  <1>1. pc' \in [Workers -> PCs] /\ loc' \in [Workers -> Locals]
    BY GotoType DEF Begin
  <1>2. QED
    BY <1>1 DEF Begin, TypeOK, database, ages

\* One more row on a timeline.
LEMMA LoggedType ==
  ASSUME TypeOK, NEW r \in Requests, NEW n \in EventNames
  PROVE  Logged(r, n) \in [Requests -> [EventNames -> Nat]]
  BY DEF Logged, TypeOK

\* The handlers that act on a request know it exists; the ones that act for
\* a person know the person.
Pointers ==
  \A w \in Workers :
    /\ pc[w] \in {"cancelPublic", "claim", "handoff", "release", "close", "event",
                  "connect", "session"}
         => loc[w].r \in Requests /\ req[loc[w].r].status # "NONE"
    /\ pc[w] \in {"claim", "handoff", "release", "close", "connect", "session"}
         => loc[w].u \in Users
    /\ pc[w] = "handoff" => loc[w].to \in Users
    /\ pc[w] = "close" => loc[w].name \in {"completed", "canceled"}
    /\ pc[w] \in {"count", "insert"} => loc[w].from \in Addresses \cup Members

\* The conditional update of a row.
LEMMA CommitType ==
  ASSUME TypeOK, NEW w \in Workers, NEW can \in BOOLEAN, NEW row \in Request,
         NEW name \in EventNames, loc[w].r \in Requests, Commit(w, can, row, name)
  PROVE  TypeOK'
  <1>1. [row EXCEPT !.version = @ + 1] \in Request
    BY DEF Request
  <1>2. req' \in [Requests -> Request]
    BY <1>1 DEF Commit, TypeOK
  <1>3. [loc[w] EXCEPT !.name = name] \in Locals
    BY DEF TypeOK, Locals
  <1>4. pc' \in [Workers -> PCs] /\ loc' \in [Workers -> Locals]
    BY <1>3, GotoType, ReturnType DEF Commit, PCs
  <1>5. QED
    BY <1>2, <1>4 DEF Commit, TypeOK, ages

\* Requests of customers, technicians and owners write nothing at first.
LEMMA TypeRequest ==
  ASSUME TypeOK, NEW w \in Workers, Customer(w) \/ Technician(w)
  PROVE  TypeOK'
  <1>1. NoLoc \in Locals
    BY LocalsType
  <1>2. ASSUME NEW f \in Addresses \cup Members
        PROVE  [NoLoc EXCEPT !.from = f] \in Locals
    BY <1>1 DEF Locals
  <1>3. ASSUME NEW r \in Requests PROVE [NoLoc EXCEPT !.r = r] \in Locals
    BY <1>1 DEF Locals
  <1>4. CASE Customer(w)
    BY <1>2, <1>3, <1>4, BeginType DEF Customer, publicSubmit, portalSubmit, publicCancel, PCs
  <1>5. CASE Technician(w)
    <2> PICK u \in Users, r \in Requests :
          \/ forConnect(w, u, r)
          \/ \E ver \in 0..req[r].version :
               \/ claim(w, u, r, ver) \/ release(w, u, r, ver)
               \/ \E to \in Users : handoff(w, u, r, to, ver)
               \/ \E name \in {"completed", "canceled"} : close(w, u, r, ver, name)
      BY <1>5 DEF Technician
    <2>1. req[r].version \in Nat /\ req[r].holder \in Users \cup {NoOne}
      BY DEF TypeOK, Request
    <2>2. ForUser(u, r) \in Locals
      BY <1>1 DEF Locals, ForUser
    <2>3. ASSUME NEW ver \in 0..req[r].version
          PROVE  Loaded(u, r, ver) \in Locals
      <3>1. ver \in Nat
        BY <2>1
      <3>2. QED
        BY <2>1, <2>2, <3>1, LoadedType DEF Loaded
    <2>9. ASSUME NEW l \in Locals, NEW to \in Users, NEW name \in {"completed", "canceled"}
          PROVE  [l EXCEPT !.to = to] \in Locals /\ [l EXCEPT !.name = name] \in Locals
      BY DEF Locals, EventNames
    <2>4. CASE forConnect(w, u, r)
      BY <2>2, <2>4, BeginType DEF forConnect, PCs
    <2>5. ASSUME NEW ver \in 0..req[r].version, claim(w, u, r, ver) \/ release(w, u, r, ver)
          PROVE  TypeOK'
      BY <2>3, <2>5, BeginType DEF claim, release, PCs
    <2>6. ASSUME NEW ver \in 0..req[r].version, NEW to \in Users, handoff(w, u, r, to, ver)
          PROVE  TypeOK'
      BY <2>3, <2>9, <2>6, BeginType DEF handoff, PCs
    <2>7. ASSUME NEW ver \in 0..req[r].version, NEW name \in {"completed", "canceled"},
                 close(w, u, r, ver, name)
          PROVE  TypeOK'
      BY <2>3, <2>9, <2>7, BeginType DEF close, PCs
    <2>8. QED
      BY <2>4, <2>5, <2>6, <2>7
  <1>6. QED
    BY <1>4, <1>5

\* The writes of handlers that are under way.
LEMMA TypeContinue ==
  ASSUME TypeOK, Pointers, NEW w \in Workers, Continue(w)
  PROVE  TypeOK'
  <1> USE DEF PCs
  <1> DEFINE row == req[loc[w].r]
  <1>1. loc[w] \in Locals
    BY DEF TypeOK
  <1>2. ASSUME loc[w].r \in Requests PROVE row \in Request
    BY <1>2 DEF TypeOK
  <1>3. CASE writeIntake(w)
    <2>1. pc' \in [Workers -> PCs] /\ loc' \in [Workers -> Locals]
      BY <1>3, ReturnType DEF writeIntake
    <2>2. intake' \in [enabled : BOOLEAN, slug : Nat]
      BY <1>1, <1>3 DEF writeIntake, TypeOK, Locals
    <2>3. QED
      BY <1>3, <2>1, <2>2 DEF writeIntake, TypeOK, ages
  <1>4. CASE underCaps(w) \/ insertNothing(w)
    <2>1. pc' \in [Workers -> PCs] /\ loc' \in [Workers -> Locals]
      BY <1>1, <1>4, GotoType, ReturnType DEF underCaps, insertNothing
    <2>2. QED
      BY <1>4, <2>1 DEF underCaps, insertNothing, TypeOK, database, ages
  <1>5. ASSUME NEW r \in Requests, insert(w, r) PROVE TypeOK'
    <2>1. loc[w].from \in Addresses \cup Members
      BY <1>5 DEF insert, Pointers
    <2>2. [NoRequest EXCEPT !.status = "WAITING", !.from = loc[w].from] \in Request
      BY <2>1, LocalsType DEF Request, OPEN
    <2>3. req' \in [Requests -> Request]
      BY <1>5, <2>2 DEF insert, TypeOK
    <2>4. timeline' \in [Requests -> [EventNames -> Nat]]
      BY <1>5, LoggedType DEF insert, EventNames
    <2>5. pc' \in [Workers -> PCs] /\ loc' \in [Workers -> Locals]
      BY <1>5, ReturnType DEF insert
    <2>6. QED
      BY <1>5, <2>3, <2>4, <2>5 DEF insert, TypeOK, ages
  <1>6. CASE commitCancel(w)
    <2>1. loc[w].r \in Requests /\ row \in Request
      BY <1>2, <1>6 DEF commitCancel, Pointers
    <2>2. [row EXCEPT !.status = "CANCELED"] \in Request
      BY <2>1 DEF Request, CLOSED
    <2>3. (row.status \in {"WAITING", "CLAIMED"}) \in BOOLEAN /\ "canceled" \in EventNames
      BY DEF EventNames
    <2> HIDE DEF row
    <2>4. Commit(w, row.status \in {"WAITING", "CLAIMED"},
                 [row EXCEPT !.status = "CANCELED"], "canceled")
      BY <1>6 DEF commitCancel, row
    <2>5. QED
      BY <2>1, <2>2, <2>3, <2>4, CommitType
  <1>7. CASE commitClaim(w)
    <2>1. loc[w].r \in Requests /\ row \in Request /\ loc[w].u \in Users
      BY <1>2, <1>7 DEF commitClaim, Pointers
    <2>2. [row EXCEPT !.status = "CLAIMED", !.holder = loc[w].u] \in Request
      BY <2>1 DEF Request, OPEN, HELD
    <2>3. (row.status = "WAITING" /\ Current(w)) \in BOOLEAN /\ "claimed" \in EventNames
      BY DEF EventNames
    <2> HIDE DEF row
    <2>4. Commit(w, row.status = "WAITING" /\ Current(w),
                 [row EXCEPT !.status = "CLAIMED", !.holder = loc[w].u], "claimed")
      BY <1>7 DEF commitClaim, row
    <2>5. QED
      BY <2>1, <2>2, <2>3, <2>4, CommitType
  <1>8. CASE commitHandoff(w)
    <2> DEFINE can == row.status \in HELD /\ Current(w) /\ row.holder = loc[w].holder
    <2>1. loc[w].r \in Requests /\ row \in Request /\ loc[w].to \in Users
      BY <1>2, <1>8 DEF commitHandoff, Pointers
    <2>2. [row EXCEPT !.status = "CLAIMED", !.holder = loc[w].to] \in Request
      BY <2>1 DEF Request, OPEN, HELD
    <2>3. can \in BOOLEAN /\ "handed_off" \in EventNames
      BY DEF EventNames
    <2>4. Commit(w, can, [row EXCEPT !.status = "CLAIMED", !.holder = loc[w].to],
                 "handed_off")
      BY <1>8 DEF commitHandoff
    <2> HIDE DEF row, can
    <2>5. QED
      BY <2>1, <2>2, <2>3, <2>4, CommitType
  <1>9. CASE commitRelease(w)
    <2> DEFINE can == row.status \in HELD /\ Current(w)
    <2>1. loc[w].r \in Requests /\ row \in Request
      BY <1>2, <1>9 DEF commitRelease, Pointers
    <2>2. [row EXCEPT !.status = "WAITING", !.holder = NoOne] \in Request
      BY <2>1 DEF Request, OPEN
    <2>3. can \in BOOLEAN /\ "released" \in EventNames
      BY DEF EventNames
    <2>4. Commit(w, can, [row EXCEPT !.status = "WAITING", !.holder = NoOne], "released")
      BY <1>9 DEF commitRelease
    <2> HIDE DEF row, can
    <2>5. QED
      BY <2>1, <2>2, <2>3, <2>4, CommitType
  <1>10. CASE commitClose(w)
    <2> DEFINE done == loc[w].name = "completed"
               can  == row.status \in (IF done THEN HELD ELSE OPEN) /\ Current(w)
               st   == IF done THEN "COMPLETED" ELSE "CANCELED"
    <2>1. /\ loc[w].r \in Requests /\ row \in Request
          /\ loc[w].name \in {"completed", "canceled"}
      BY <1>2, <1>10 DEF commitClose, Pointers
    <2>2. [row EXCEPT !.status = st] \in Request
      BY <2>1 DEF Request, CLOSED
    <2>3. can \in BOOLEAN /\ loc[w].name \in EventNames
      BY <2>1 DEF EventNames
    <2>4. Commit(w, can, [row EXCEPT !.status = st], loc[w].name)
      BY <1>10 DEF commitClose
    <2> HIDE DEF row, can, st, done
    <2>5. QED
      BY <2>1, <2>2, <2>3, <2>4, CommitType
  <1>11. CASE writeEvent(w)
    <2>1. loc[w].r \in Requests /\ loc[w].name \in EventNames
      BY <1>1, <1>11 DEF writeEvent, Pointers, Locals
    <2>2. timeline' \in [Requests -> [EventNames -> Nat]]
      BY <1>11, <2>1, LoggedType DEF writeEvent
    <2>3. pc' \in [Workers -> PCs] /\ loc' \in [Workers -> Locals]
      BY <1>11, ReturnType DEF writeEvent
    <2>4. QED
      BY <1>11, <2>2, <2>3 DEF writeEvent, TypeOK, ages
  <1>12. CASE connecting(w)
    <2>1. loc[w].r \in Requests /\ row \in Request
      BY <1>2, <1>12 DEF connecting, Pointers
    <2>2. [row EXCEPT !.status = "CONNECTING"] \in Request
      BY <2>1 DEF Request, OPEN, HELD
    <2>3. req' \in [Requests -> Request]
      BY <1>12, <2>1, <2>2 DEF connecting, TypeOK
    <2>4. pc' \in [Workers -> PCs] /\ loc' \in [Workers -> Locals]
      BY <1>1, <1>12, GotoType DEF connecting
    <2>5. QED
      BY <1>12, <2>3, <2>4 DEF connecting, TypeOK, ages
  <1>13. ASSUME NEW created \in BOOLEAN, createSession(w, created) PROVE TypeOK'
    <2>1. loc[w].r \in Requests /\ loc[w].u \in Users
      BY <1>13 DEF createSession, Pointers
    <2>2. linked' \subseteq Users \X Requests
      BY <1>13, <2>1 DEF createSession, TypeOK
    <2>3. pc' \in [Workers -> PCs] /\ loc' \in [Workers -> Locals]
      BY <1>13, ReturnType DEF createSession
    <2>4. QED
      BY <1>13, <2>2, <2>3 DEF createSession, TypeOK, ages
  <1>14. CASE findOld(w)
    <2>1. [NoLoc EXCEPT !.ids = Erasable] \in Locals
      BY LocalsType DEF Locals, Erasable, TypeOK
    <2>2. pc' \in [Workers -> PCs] /\ loc' \in [Workers -> Locals]
      BY <1>14, <2>1, GotoType DEF findOld
    <2>3. QED
      BY <1>14, <2>2 DEF findOld, TypeOK, database, ages
  <1>15. CASE erase(w)
    <2>1. CASE loc[w].ids = {}
      <3>1. pc' \in [Workers -> PCs] /\ loc' \in [Workers -> Locals]
        BY <1>15, <2>1, ReturnType DEF erase
      <3>2. QED
        BY <1>15, <2>1, <3>1 DEF erase, TypeOK, ages
    <2>2. CASE loc[w].ids # {}
      <3> PICK r \in loc[w].ids :
            /\ req' = [req EXCEPT ![r].erased = TRUE,
                                  ![r].from = IF @ \in Addresses THEN NoOne ELSE @]
            /\ Goto(w, "erase", [loc[w] EXCEPT !.ids = @ \ {r}])
        BY <1>15, <2>2 DEF erase
      <3>1. r \in Requests /\ [loc[w] EXCEPT !.ids = @ \ {r}] \in Locals
        BY <1>1 DEF Locals
      <3>2. req' \in [Requests -> Request]
        <4>1. req[r] \in Request
          BY <3>1 DEF TypeOK
        <4>2. [req[r] EXCEPT !.erased = TRUE,
                             !.from = IF @ \in Addresses THEN NoOne ELSE @] \in Request
          BY <4>1 DEF Request
        <4>3. QED
          BY <3>1, <4>1, <4>2 DEF TypeOK, Request
      <3>3. pc' \in [Workers -> PCs] /\ loc' \in [Workers -> Locals]
        BY <3>1, GotoType
      <3>4. QED
        BY <1>15, <3>2, <3>3 DEF erase, TypeOK, ages
    <2>3. QED
      BY <2>1, <2>2
  <1>16. QED
    BY <1>3, <1>4, <1>5, <1>6, <1>7, <1>8, <1>9, <1>10, <1>11, <1>12, <1>13, <1>14, <1>15
    DEF Continue

\* Every step keeps the types.
LEMMA TypeStep ==
  ASSUME TypeOK, Pointers, [Next]_vars
  PROVE  TypeOK'
  <1>1. ASSUME NEW r \in Requests, passDay(r) \/ passWeek(r) \/ passMonth(r)
        PROVE  TypeOK'
    BY <1>1 DEF passDay, passWeek, passMonth, TypeOK, database
  <1>2. ASSUME NEW w \in Workers, Customer(w) \/ Technician(w)
        PROVE  TypeOK'
    BY <1>2, TypeRequest
  <1>3. ASSUME NEW w \in Workers, Owner(w)
        PROVE  TypeOK'
    <2> PICK on \in BOOLEAN, regenerate \in BOOLEAN : setIntake(w, on, regenerate)
      BY <1>3 DEF Owner
    <2> DEFINE slug == IF regenerate \/ intake.slug = 0 THEN minted + 1 ELSE intake.slug
    <2>1. slug \in Nat /\ minted' \in Nat
      BY DEF setIntake, TypeOK
    <2>2. [NoLoc EXCEPT !.on = on, !.slug = slug] \in Locals
      BY <2>1, LocalsType DEF Locals
    <2>3. Goto(w, "intake", [NoLoc EXCEPT !.on = on, !.slug = slug])
      BY DEF setIntake
    <2> HIDE DEF slug
    <2>4. pc' \in [Workers -> PCs] /\ loc' \in [Workers -> Locals]
      BY <2>2, <2>3, GotoType DEF PCs
    <2>5. QED
      BY <2>1, <2>4 DEF setIntake, TypeOK, database, ages
  <1>4. ASSUME NEW w \in Workers, retention(w)
        PROVE  TypeOK'
    <2>1. pc' \in [Workers -> PCs] /\ loc' \in [Workers -> Locals]
      BY <1>4, GotoType, LocalsType DEF retention, PCs
    <2>2. ASSUME NEW r \in Requests
          PROVE  [req[r] EXCEPT !.status = "EXPIRED", !.version = @ + 1] \in Request
      <3>1. req[r] \in Request
        BY DEF TypeOK
      <3>2. QED
        BY <3>1, RowType, NoOne \in Users \cup {NoOne} DEF CLOSED
    <2>3. req' \in [Requests -> Request]
      BY <1>4, <2>2 DEF retention, TypeOK
    <2>4. QED
      BY <1>4, <2>1, <2>3 DEF retention, TypeOK, ages
  <1>5. ASSUME NEW w \in Workers, Continue(w)
        PROVE  TypeOK'
    BY <1>5, TypeContinue
  <1>6. CASE UNCHANGED vars
    BY <1>6 DEF vars, database, ages, TypeOK
  <1>7. QED
    BY <1>1, <1>2, <1>3, <1>4, <1>5, <1>6 DEF Next

-----------------------------------------------------------------------------
(* The inductive invariant.                                                *)

\* A person who manages a request was entitled to when it was loaded, and as
\* long as the version is the one they sent, nobody else has got it since.
ManageInv ==
  \A w \in Workers : pc[w] \in {"handoff", "release", "close"} =>
    /\ loc[w].u \in Owners \cup {loc[w].holder}
    /\ loc[w].ver <= req[loc[w].r].version
    /\ loc[w].ver = req[loc[w].r].version => req[loc[w].r].holder = loc[w].holder

\* What retention is about to erase is closed.
EraseInv ==
  \A w \in Workers : pc[w] = "erase" => \A r \in loc[w].ids : req[r].status \in CLOSED

IInv ==
  /\ TypeOK /\ Pointers /\ ManageInv /\ EraseInv
  /\ HolderMatchesStatus /\ ErasedIsClosed

\* The worker may take the request from its holder.
Entitled(w, r) ==
  /\ Acts(w) /\ loc[w].r = r
  /\ loc[w].u \in Owners \cup {req[r].holder} \/ pc[w] = "cancelPublic"

\* What a step may do to one row: nothing, create it, erase a closed one,
\* mark it as connecting, or a versioned move by someone entitled to it.
RowStep(r) ==
  LET a == req[r]
      b == req'[r]
  IN \/ b = a
     \/ a.status = "NONE" /\ b.status = "WAITING" /\ b.holder = NoOne /\ ~b.erased
     \/ a.status \in CLOSED /\ b.status = a.status /\ b.version = a.version
                            /\ b.holder = a.holder
     \/ a.status = "CLAIMED" /\ b.status = "CONNECTING" /\ b.version = a.version
                             /\ b.holder = a.holder /\ b.erased = a.erased
     \/ /\ a.status \in OPEN /\ b.status \in OPEN \cup CLOSED
        /\ b.version = a.version + 1 /\ b.erased = a.erased
        /\ b.status \in HELD => b.holder # NoOne
        /\ b.status = "WAITING" => b.holder = NoOne
        /\ a.status \in HELD => \E w \in Workers : Entitled(w, r)

\* What a conditional update does to the row it is about, and to the others.
LEMMA CommitStep ==
  ASSUME TypeOK, NEW w \in Workers, NEW can \in BOOLEAN, NEW row \in Request, NEW name,
         loc[w].r \in Requests, pc[w] \notin {"idle", "event"}, Commit(w, can, row, name),
         NEW r \in Requests
  PROVE  \/ req'[r] = req[r]
         \/ /\ can /\ r = loc[w].r /\ Acts(w)
            /\ req'[r].status = row.status /\ req'[r].holder = row.holder
            /\ req'[r].erased = row.erased /\ req'[r].version = row.version + 1
  <1>1. CASE can
    <2>1. req' = [req EXCEPT ![loc[w].r] = [row EXCEPT !.version = @ + 1]]
      BY <1>1 DEF Commit
    <2>2. Acts(w)
      BY <1>1 DEF Commit, Goto, Acts, TypeOK
    <2>3. CASE r = loc[w].r
      <3>1. req'[r] = [row EXCEPT !.version = @ + 1]
        BY <2>1, <2>3 DEF TypeOK
      <3>2. QED
        BY <1>1, <2>2, <2>3, <3>1 DEF Request
    <2>4. CASE r # loc[w].r
      BY <2>1, <2>4 DEF TypeOK
    <2>5. QED
      BY <2>3, <2>4
  <1>2. CASE ~can
    BY <1>2 DEF Commit
  <1>3. QED
    BY <1>1, <1>2

\* Every step treats every row in one of these ways.
LEMMA RowSteps ==
  ASSUME IInv, [Next]_vars, NEW r \in Requests
  PROVE  RowStep(r)
  <1>0. TypeOK /\ req[r] \in Request
    BY DEF IInv, TypeOK
  <1>1. ASSUME req' = req PROVE RowStep(r)
    BY <1>1 DEF RowStep
  <1>2. ASSUME NEW w \in Workers, insert(w, r) PROVE RowStep(r)
    <2>1. req'[r] = [NoRequest EXCEPT !.status = "WAITING", !.from = loc[w].from]
      BY <1>0, <1>2 DEF insert, TypeOK
    <2>2. NoRequest \in Request /\ NoRequest.holder = NoOne /\ ~NoRequest.erased
      BY LocalsType DEF NoRequest
    <2>3. req'[r].status = "WAITING" /\ req'[r].holder = NoOne /\ ~req'[r].erased
      BY <2>1, <2>2 DEF Request
    <2>4. QED
      BY <1>2, <2>3 DEF RowStep, insert
  <1>3. ASSUME NEW w \in Workers, NEW q \in Requests, insert(w, q), q # r PROVE RowStep(r)
    BY <1>0, <1>3 DEF insert, RowStep, TypeOK
  <1>4. ASSUME NEW w \in Workers, retention(w) PROVE RowStep(r)
    <2>1. CASE Expired(r)
      <3>1. req'[r] = [req[r] EXCEPT !.status = "EXPIRED", !.version = @ + 1]
        BY <1>4, <2>1 DEF retention
      <3>2. QED
        BY <1>0, <2>1, <3>1 DEF RowStep, Expired, Request, OPEN, HELD, CLOSED
    <2>2. CASE ~Expired(r)
      BY <1>4, <2>2 DEF retention, RowStep
    <2>3. QED
      BY <2>1, <2>2
  <1>5. ASSUME NEW w \in Workers, commitCancel(w) PROVE RowStep(r)
    <2> DEFINE old == req[loc[w].r]
               row == [old EXCEPT !.status = "CANCELED"]
               can == old.status \in {"WAITING", "CLAIMED"}
    <2>1. loc[w].r \in Requests /\ old \in Request
      BY <1>0, <1>5 DEF commitCancel, IInv, Pointers, TypeOK
    <2>2. /\ row \in Request /\ can \in BOOLEAN
          /\ row.status = "CANCELED" /\ row.version = old.version /\ row.erased = old.erased
      BY <2>1 DEF Request, CLOSED
    <2>3. Commit(w, can, row, "canceled") /\ pc[w] = "cancelPublic"
      BY <1>5 DEF commitCancel
    <2>4. r = loc[w].r => old = req[r]
      OBVIOUS
    <2>5. can => old.status \in {"WAITING", "CLAIMED"}
      OBVIOUS
    <2> HIDE DEF old, row, can
    <2>6. \/ req'[r] = req[r]
          \/ /\ can /\ r = loc[w].r /\ Acts(w)
             /\ req'[r].status = row.status /\ req'[r].holder = row.holder
             /\ req'[r].erased = row.erased /\ req'[r].version = row.version + 1
      BY <1>0, <2>1, <2>2, <2>3, CommitStep
    <2>7. QED
      BY <2>2, <2>3, <2>4, <2>5, <2>6 DEF RowStep, Entitled, OPEN, HELD, CLOSED
  <1>6. ASSUME NEW w \in Workers, commitClaim(w) PROVE RowStep(r)
    <2> DEFINE old == req[loc[w].r]
               row == [old EXCEPT !.status = "CLAIMED", !.holder = loc[w].u]
               can == old.status = "WAITING" /\ Current(w)
    <2>1. loc[w].r \in Requests /\ old \in Request /\ loc[w].u \in Users
      BY <1>0, <1>6 DEF commitClaim, IInv, Pointers, TypeOK
    <2>2. /\ row \in Request /\ can \in BOOLEAN
          /\ row.status = "CLAIMED" /\ row.holder = loc[w].u
          /\ row.version = old.version /\ row.erased = old.erased
      BY <2>1 DEF Request, OPEN, HELD
    <2>3. Commit(w, can, row, "claimed") /\ pc[w] = "claim"
      BY <1>6 DEF commitClaim
    <2>4. r = loc[w].r => old = req[r]
      OBVIOUS
    <2>5. can => old.status = "WAITING"
      OBVIOUS
    <2> HIDE DEF old, row, can
    <2>6. \/ req'[r] = req[r]
          \/ /\ can /\ r = loc[w].r /\ Acts(w)
             /\ req'[r].status = row.status /\ req'[r].holder = row.holder
             /\ req'[r].erased = row.erased /\ req'[r].version = row.version + 1
      BY <1>0, <2>1, <2>2, <2>3, CommitStep
    <2>7. loc[w].u # NoOne
      BY <2>1, SetsAssumption
    <2>8. QED
      BY <2>2, <2>4, <2>5, <2>6, <2>7 DEF RowStep, OPEN, HELD, CLOSED
  <1>7. ASSUME NEW w \in Workers, commitHandoff(w) PROVE RowStep(r)
    <2> DEFINE old == req[loc[w].r]
               row == [old EXCEPT !.status = "CLAIMED", !.holder = loc[w].to]
               can == old.status \in HELD /\ Current(w) /\ old.holder = loc[w].holder
    <2>1. /\ loc[w].r \in Requests /\ old \in Request /\ loc[w].to \in Users
          /\ loc[w].u \in Owners \cup {loc[w].holder}
      BY <1>0, <1>7 DEF commitHandoff, IInv, Pointers, ManageInv, TypeOK
    <2>2. /\ row \in Request /\ can \in BOOLEAN
          /\ row.status = "CLAIMED" /\ row.holder = loc[w].to
          /\ row.version = old.version /\ row.erased = old.erased
      BY <2>1 DEF Request, OPEN, HELD
    <2>3. Commit(w, can, row, "handed_off") /\ pc[w] = "handoff"
      BY <1>7 DEF commitHandoff
    <2>4. r = loc[w].r => old = req[r]
      OBVIOUS
    <2>5. can => old.status \in HELD /\ old.holder = loc[w].holder
      OBVIOUS
    <2> HIDE DEF old, row, can
    <2>6. \/ req'[r] = req[r]
          \/ /\ can /\ r = loc[w].r /\ Acts(w)
             /\ req'[r].status = row.status /\ req'[r].holder = row.holder
             /\ req'[r].erased = row.erased /\ req'[r].version = row.version + 1
      BY <1>0, <2>1, <2>2, <2>3, CommitStep
    <2>7. loc[w].to # NoOne
      BY <2>1, SetsAssumption
    <2>8. QED
      BY <2>1, <2>2, <2>4, <2>5, <2>6, <2>7 DEF RowStep, Entitled, OPEN, HELD, CLOSED
  <1>8. ASSUME NEW w \in Workers, commitRelease(w) PROVE RowStep(r)
    <2> DEFINE old == req[loc[w].r]
               row == [old EXCEPT !.status = "WAITING", !.holder = NoOne]
               can == old.status \in HELD /\ Current(w)
    <2>1. /\ loc[w].r \in Requests /\ old \in Request
          /\ loc[w].u \in Owners \cup {loc[w].holder}
      BY <1>0, <1>8 DEF commitRelease, IInv, Pointers, ManageInv, TypeOK
    <2>2. /\ row \in Request /\ can \in BOOLEAN
          /\ row.status = "WAITING" /\ row.holder = NoOne
          /\ row.version = old.version /\ row.erased = old.erased
      BY <2>1 DEF Request, OPEN
    <2>3. Commit(w, can, row, "released") /\ pc[w] = "release"
      BY <1>8 DEF commitRelease
    <2>4. r = loc[w].r => old = req[r]
      OBVIOUS
    <2>5. can => old.status \in HELD /\ old.holder = loc[w].holder
      BY <1>8 DEF Current, commitRelease, IInv, ManageInv
    <2> HIDE DEF old, row, can
    <2>6. \/ req'[r] = req[r]
          \/ /\ can /\ r = loc[w].r /\ Acts(w)
             /\ req'[r].status = row.status /\ req'[r].holder = row.holder
             /\ req'[r].erased = row.erased /\ req'[r].version = row.version + 1
      BY <1>0, <2>1, <2>2, <2>3, CommitStep
    <2>7. QED
      BY <2>1, <2>2, <2>4, <2>5, <2>6 DEF RowStep, Entitled, OPEN, HELD, CLOSED
  <1>9. ASSUME NEW w \in Workers, commitClose(w) PROVE RowStep(r)
    <2> DEFINE old  == req[loc[w].r]
               done == loc[w].name = "completed"
               st   == IF done THEN "COMPLETED" ELSE "CANCELED"
               row  == [old EXCEPT !.status = st]
               can  == old.status \in (IF done THEN HELD ELSE OPEN) /\ Current(w)
    <2>1. /\ loc[w].r \in Requests /\ old \in Request
          /\ loc[w].u \in Owners \cup {loc[w].holder}
      BY <1>0, <1>9 DEF commitClose, IInv, Pointers, ManageInv, TypeOK
    <2>2. /\ row \in Request /\ can \in BOOLEAN
          /\ row.status \in {"COMPLETED", "CANCELED"}
          /\ row.version = old.version /\ row.erased = old.erased
      BY <2>1 DEF Request, CLOSED
    <2>3. Commit(w, can, row, loc[w].name) /\ pc[w] = "close"
      BY <1>9 DEF commitClose
    <2>4. r = loc[w].r => old = req[r]
      OBVIOUS
    <2>5. can => old.status \in OPEN /\ old.holder = loc[w].holder
      BY <1>9 DEF Current, commitClose, IInv, ManageInv, OPEN
    <2> HIDE DEF old, row, can, st, done
    <2>6. \/ req'[r] = req[r]
          \/ /\ can /\ r = loc[w].r /\ Acts(w)
             /\ req'[r].status = row.status /\ req'[r].holder = row.holder
             /\ req'[r].erased = row.erased /\ req'[r].version = row.version + 1
      BY <1>0, <2>1, <2>2, <2>3, CommitStep
    <2>7. QED
      BY <2>1, <2>2, <2>4, <2>5, <2>6 DEF RowStep, Entitled, OPEN, HELD, CLOSED
  <1>10. ASSUME NEW w \in Workers, connecting(w) PROVE RowStep(r)
    <2>1. loc[w].r \in Requests
      BY <1>10 DEF connecting, IInv, Pointers
    <2>2. \/ req'[r] = req[r]
          \/ req[r].status = "CLAIMED" /\ req'[r] = [req[r] EXCEPT !.status = "CONNECTING"]
      BY <1>0, <1>10, <2>1 DEF connecting, TypeOK
    <2>3. QED
      BY <1>0, <2>2 DEF RowStep, Request
  <1>11. ASSUME NEW w \in Workers, erase(w) PROVE RowStep(r)
    <2>1. CASE loc[w].ids = {}
      BY <1>11, <2>1 DEF erase, RowStep
    <2>2. CASE loc[w].ids # {}
      <3> PICK q \in loc[w].ids :
            req' = [req EXCEPT ![q].erased = TRUE,
                               ![q].from = IF @ \in Addresses THEN NoOne ELSE @]
        BY <1>11, <2>2 DEF erase
      <3>1. q \in Requests /\ req[q].status \in CLOSED
        BY <1>0, <1>11 DEF erase, IInv, EraseInv, TypeOK, Locals
      <3>2. CASE q = r
        BY <1>0, <3>1, <3>2 DEF RowStep, TypeOK, Request
      <3>3. CASE q # r
        BY <1>0, <3>1, <3>3 DEF RowStep, TypeOK
      <3>4. QED
        BY <3>2, <3>3
    <2>3. QED
      BY <2>1, <2>2
  <1>12. CASE UNCHANGED vars
    BY <1>1, <1>12 DEF vars, database
  <1>13. ASSUME NEW q \in Requests, passDay(q) \/ passWeek(q) \/ passMonth(q)
         PROVE  RowStep(r)
    BY <1>1, <1>13 DEF passDay, passWeek, passMonth, database
  <1>14. ASSUME NEW w \in Workers, Customer(w) \/ Technician(w) \/ Owner(w)
         PROVE  RowStep(r)
    BY <1>1, <1>14 DEF Customer, publicSubmit, portalSubmit, publicCancel, Technician,
         claim, handoff, release, close, forConnect, Owner, setIntake, Begin, database
  <1>15. ASSUME NEW w \in Workers, Continue(w) PROVE RowStep(r)
    <2>1. CASE \/ writeIntake(w) \/ underCaps(w) \/ insertNothing(w) \/ writeEvent(w)
               \/ (\E created \in BOOLEAN : createSession(w, created)) \/ findOld(w)
      BY <1>1, <2>1 DEF writeIntake, underCaps, insertNothing, writeEvent, createSession,
           findOld, database
    <2>2. QED
      BY <1>2, <1>3, <1>5, <1>6, <1>7, <1>8, <1>9, <1>10, <1>11, <1>15, <2>1 DEF Continue
  <1>16. QED
    BY <1>4, <1>12, <1>13, <1>14, <1>15 DEF Next

\* Where a handler goes on, and what its locals then say, as far as the
\* invariant is concerned.
Fits(p, l) ==
  \/ p \in {"idle", "intake", "findOld"}
  \/ p \in {"count", "insert"} /\ l.from \in Addresses \cup Members
  \/ p \in {"event", "cancelPublic"} /\ l.r \in Requests /\ req[l.r].status # "NONE"
  \/ /\ p \in {"claim", "connect", "session"}
     /\ l.r \in Requests /\ req[l.r].status # "NONE" /\ l.u \in Users
  \/ /\ p \in {"handoff", "release", "close"}
     /\ l.r \in Requests /\ req[l.r].status # "NONE" /\ l.u \in Users
     /\ p = "handoff" => l.to \in Users
     /\ p = "close" => l.name \in {"completed", "canceled"}
     /\ l.u \in Owners \cup {l.holder}
     /\ l.ver <= req[l.r].version /\ l.holder = req[l.r].holder /\ req' = req
  \/ p = "erase" /\ \A q \in l.ids : q \in Requests /\ req[q].status \in CLOSED

\* A step leaves a worker where it is or takes it to where its locals fit.
LocStep(w) == \/ pc'[w] = pc[w] /\ loc'[w] = loc[w]
              \/ Fits(pc'[w], loc'[w])

\* A handler that starts or goes on, the others where they were.
LEMMA GotoLocals ==
  ASSUME TypeOK, NEW w \in Workers, NEW x \in Workers, NEW p, NEW l, Goto(w, p, l),
         Fits(p, l)
  PROVE  LocStep(x)
  <1>1. IF x = w THEN pc'[x] = p /\ loc'[x] = l
        ELSE pc'[x] = pc[x] /\ loc'[x] = loc[x]
    BY DEF Goto, TypeOK
  <1>2. QED
    BY <1>1 DEF LocStep

\* Every step treats every worker in one of these ways.
LEMMA LocSteps ==
  ASSUME IInv, [Next]_vars, NEW x \in Workers
  PROVE  LocStep(x)
  <1>0. TypeOK /\ Pointers
    BY DEF IInv
  <1>1. ASSUME pc' = pc, loc' = loc PROVE LocStep(x)
    BY <1>1 DEF LocStep
  <1>2. ASSUME NEW w \in Workers, Return(w) PROVE LocStep(x)
    <2>1. Fits("idle", NoLoc)
      BY DEF Fits
    <2>2. Goto(w, "idle", NoLoc)
      BY <1>2 DEF Return
    <2>3. QED
      BY <1>0, <2>1, <2>2, GotoLocals
  <1>3. ASSUME NEW w \in Workers, Customer(w) PROVE LocStep(x)
    <2>1. ASSUME NEW f \in Addresses \cup Members,
                 Goto(w, "count", [NoLoc EXCEPT !.from = f])
          PROVE  LocStep(x)
      <3> DEFINE l == [NoLoc EXCEPT !.from = f]
      <3>1. l.from = f
        BY LocalsType DEF Locals
      <3>2. Goto(w, "count", l)
        BY <2>1
      <3> HIDE DEF l
      <3>3. Fits("count", l)
        BY <3>1 DEF Fits
      <3>4. QED
        BY <1>0, <3>2, <3>3, GotoLocals
    <2>2. ASSUME NEW r \in Requests, req[r].status # "NONE",
                 Goto(w, "cancelPublic", [NoLoc EXCEPT !.r = r])
          PROVE  LocStep(x)
      <3> DEFINE l == [NoLoc EXCEPT !.r = r]
      <3>1. l.r = r
        BY LocalsType DEF Locals
      <3>2. Goto(w, "cancelPublic", l)
        BY <2>2
      <3> HIDE DEF l
      <3>3. Fits("cancelPublic", l)
        BY <2>2, <3>1 DEF Fits
      <3>4. QED
        BY <1>0, <3>2, <3>3, GotoLocals
    <2>3. QED
      BY <1>3, <2>1, <2>2 DEF Customer, publicSubmit, portalSubmit, publicCancel, Begin
  <1>4. ASSUME NEW w \in Workers, Technician(w) PROVE LocStep(x)
    <2> PICK u \in Users, r \in Requests :
          \/ forConnect(w, u, r)
          \/ \E ver \in 0..req[r].version :
               \/ claim(w, u, r, ver) \/ release(w, u, r, ver)
               \/ \E to \in Users : handoff(w, u, r, to, ver)
               \/ \E name \in {"completed", "canceled"} : close(w, u, r, ver, name)
      BY <1>4 DEF Technician
    <2>1. req[r] \in Request
      BY <1>0 DEF TypeOK
    <2>2. ForUser(u, r) \in Locals /\ ForUser(u, r).r = r /\ ForUser(u, r).u = u
      BY LocalsType DEF ForUser, Locals
    <2>3. ASSUME NEW ver \in 0..req[r].version
          PROVE  /\ Loaded(u, r, ver) \in Locals
                 /\ Loaded(u, r, ver).r = r /\ Loaded(u, r, ver).u = u
                 /\ Loaded(u, r, ver).ver = ver /\ Loaded(u, r, ver).holder = req[r].holder
                 /\ ver <= req[r].version
      <3>1. ver \in Nat /\ ver <= req[r].version
        BY <2>1 DEF Request
      <3>2. req[r].holder \in Users \cup {NoOne}
        BY <2>1 DEF Request
      <3>3. Loaded(u, r, ver) \in Locals
        BY <2>2, <3>1, <3>2, LoadedType DEF Loaded
      <3>4. QED
        BY <2>2, <3>1, <3>3 DEF Loaded, Locals
    <2>4. CASE forConnect(w, u, r)
      <3>1. Goto(w, "connect", ForUser(u, r)) /\ req[r].status # "NONE"
        BY <2>4 DEF forConnect, Begin, HELD
      <3>2. Fits("connect", ForUser(u, r))
        BY <2>2, <3>1 DEF Fits
      <3>3. QED
        BY <1>0, <3>1, <3>2, GotoLocals
    <2>5. ASSUME NEW ver \in 0..req[r].version, claim(w, u, r, ver)
          PROVE  LocStep(x)
      <3>1. Goto(w, "claim", Loaded(u, r, ver)) /\ req[r].status # "NONE"
        BY <2>5 DEF claim, Visible, Begin
      <3>2. Fits("claim", Loaded(u, r, ver))
        BY <2>3, <3>1 DEF Fits
      <3>3. QED
        BY <1>0, <3>1, <3>2, GotoLocals
    <2>6. ASSUME NEW ver \in 0..req[r].version, release(w, u, r, ver)
          PROVE  LocStep(x)
      <3>1. /\ Goto(w, "release", Loaded(u, r, ver)) /\ req[r].status # "NONE"
            /\ u \in Owners \cup {req[r].holder} /\ req' = req
        BY <2>6 DEF release, Visible, canManage, Begin, database
      <3>2. Fits("release", Loaded(u, r, ver))
        BY <2>3, <3>1 DEF Fits
      <3>3. QED
        BY <1>0, <3>1, <3>2, GotoLocals
    <2>7. ASSUME NEW ver \in 0..req[r].version, NEW to \in Users, handoff(w, u, r, to, ver)
          PROVE  LocStep(x)
      <3> DEFINE l == [Loaded(u, r, ver) EXCEPT !.to = to]
      <3>1. /\ l.r = r /\ l.u = u /\ l.to = to /\ l.ver = ver /\ l.holder = req[r].holder
            /\ ver <= req[r].version
        BY <2>3 DEF Locals
      <3>2. Goto(w, "handoff", l) /\ req' = req /\ req[r].status # "NONE" /\ canManage(u, r)
        BY <2>7 DEF handoff, Visible, Begin, database
      <3> HIDE DEF l
      <3>3. Fits("handoff", l)
        BY <3>1, <3>2 DEF canManage, Fits
      <3>4. QED
        BY <1>0, <3>2, <3>3, GotoLocals
    <2>8. ASSUME NEW ver \in 0..req[r].version, NEW name \in {"completed", "canceled"},
                 close(w, u, r, ver, name)
          PROVE  LocStep(x)
      <3> DEFINE l == [Loaded(u, r, ver) EXCEPT !.name = name]
      <3>1. /\ l.r = r /\ l.u = u /\ l.name = name /\ l.ver = ver /\ l.holder = req[r].holder
            /\ ver <= req[r].version
        BY <2>3 DEF Locals
      <3>2. Goto(w, "close", l) /\ req' = req /\ req[r].status # "NONE" /\ canManage(u, r)
        BY <2>8 DEF close, Visible, Begin, database
      <3> HIDE DEF l
      <3>3. Fits("close", l)
        BY <3>1, <3>2 DEF canManage, Fits
      <3>4. QED
        BY <1>0, <3>2, <3>3, GotoLocals
    <2>9. QED
      BY <2>4, <2>5, <2>6, <2>7, <2>8
  <1>5. ASSUME NEW w \in Workers, Owner(w) \/ retention(w) PROVE LocStep(x)
    <2>1. ASSUME NEW l, Goto(w, "intake", l) \/ Goto(w, "findOld", l) PROVE LocStep(x)
      <3>1. Fits("intake", l) /\ Fits("findOld", l)
        BY DEF Fits
      <3>2. QED
        BY <1>0, <2>1, <3>1, GotoLocals
    <2>2. CASE retention(w)
      BY <2>1, <2>2 DEF retention
    <2>3. CASE Owner(w)
      <3> PICK on \in BOOLEAN, regenerate \in BOOLEAN : setIntake(w, on, regenerate)
        BY <2>3 DEF Owner
      <3> DEFINE fresh == regenerate \/ intake.slug = 0
                 l == [NoLoc EXCEPT !.on = on,
                                    !.slug = IF fresh THEN minted + 1 ELSE intake.slug]
      <3>1. Goto(w, "intake", l)
        BY DEF setIntake
      <3> HIDE DEF l
      <3>2. QED
        BY <2>1, <3>1
    <2>4. QED
      BY <1>5, <2>2, <2>3
  <1>6. ASSUME NEW w \in Workers, NEW can, NEW row, NEW name, Commit(w, can, row, name),
               loc[w].r \in Requests, req[loc[w].r].status # "NONE"
        PROVE  LocStep(x)
    <2>1. CASE can
      <3> DEFINE l == [loc[w] EXCEPT !.name = name]
      <3>1. l.r = loc[w].r
        BY <1>0 DEF TypeOK, Locals
      <3>2. Goto(w, "event", l)
        BY <1>6, <2>1 DEF Commit
      <3> HIDE DEF l
      <3>3. Fits("event", l)
        BY <1>6, <3>1 DEF Fits
      <3>4. QED
        BY <1>0, <3>2, <3>3, GotoLocals
    <2>2. CASE ~can
      BY <1>2, <1>6, <2>2 DEF Commit
    <2>3. QED
      BY <2>1, <2>2
  <1>7. ASSUME NEW w \in Workers, Continue(w) PROVE LocStep(x)
    <2>1. CASE \/ writeIntake(w) \/ insertNothing(w) \/ (\E r \in Requests : insert(w, r))
               \/ writeEvent(w) \/ (\E created \in BOOLEAN : createSession(w, created))
      BY <1>2, <2>1 DEF writeIntake, insertNothing, insert, writeEvent, createSession
    <2>2. CASE underCaps(w)
      <3>1. Return(w) \/ Goto(w, "insert", loc[w])
        BY <2>2 DEF underCaps
      <3>2. Fits("insert", loc[w])
        BY <1>0, <2>2 DEF underCaps, Pointers, Fits
      <3>3. QED
        BY <1>0, <1>2, <3>1, <3>2, GotoLocals
    <2>3. CASE commitCancel(w) \/ commitClaim(w) \/ commitHandoff(w) \/ commitRelease(w)
               \/ commitClose(w)
      <3>1. loc[w].r \in Requests /\ req[loc[w].r].status # "NONE"
        BY <1>0, <2>3 DEF Pointers, commitCancel, commitClaim, commitHandoff, commitRelease,
                          commitClose
      <3>2. QED
        BY <1>6, <2>3, <3>1 DEF commitCancel, commitClaim, commitHandoff, commitRelease,
                                commitClose
    <2>4. CASE connecting(w)
      <3>1. Goto(w, "session", loc[w]) /\ Fits("session", loc[w])
        BY <1>0, <2>4 DEF connecting, Pointers, Fits
      <3>2. QED
        BY <1>0, <3>1, GotoLocals
    <2>5. CASE findOld(w)
      <3> DEFINE l == [NoLoc EXCEPT !.ids = Erasable]
      <3>1. l.ids = Erasable
        BY LocalsType DEF Locals
      <3>2. \A q \in Erasable : q \in Requests /\ req[q].status \in CLOSED
        BY <1>0 DEF Erasable, TypeOK
      <3>3. Goto(w, "erase", l)
        BY <2>5 DEF findOld
      <3> HIDE DEF l
      <3>4. Fits("erase", l)
        BY <3>1, <3>2 DEF Fits
      <3>5. QED
        BY <1>0, <3>3, <3>4, GotoLocals
    <2>6. CASE erase(w)
      <3>1. CASE loc[w].ids = {}
        BY <1>2, <2>6, <3>1 DEF erase
      <3>2. CASE loc[w].ids # {}
        <4> PICK r \in loc[w].ids : Goto(w, "erase", [loc[w] EXCEPT !.ids = @ \ {r}])
          BY <2>6, <3>2 DEF erase
        <4> DEFINE l == [loc[w] EXCEPT !.ids = @ \ {r}]
        <4>1. l.ids \subseteq loc[w].ids
          BY <1>0 DEF TypeOK, Locals
        <4>2. \A q \in loc[w].ids : q \in Requests /\ req[q].status \in CLOSED
          BY <1>0, <2>6 DEF erase, IInv, EraseInv, TypeOK, Locals
        <4>3. Goto(w, "erase", l)
          OBVIOUS
        <4> HIDE DEF l
        <4>4. Fits("erase", l)
          BY <4>1, <4>2 DEF Fits
        <4>5. QED
          BY <1>0, <4>3, <4>4, GotoLocals
      <3>3. QED
        BY <3>1, <3>2
    <2>7. QED
      BY <1>7, <2>1, <2>2, <2>3, <2>4, <2>5, <2>6 DEF Continue
  <1>8. CASE UNCHANGED vars
    BY <1>1, <1>8 DEF vars
  <1>9. ASSUME NEW q \in Requests, passDay(q) \/ passWeek(q) \/ passMonth(q)
        PROVE  LocStep(x)
    BY <1>1, <1>9 DEF passDay, passWeek, passMonth
  <1>10. QED
    BY <1>3, <1>4, <1>5, <1>7, <1>8, <1>9 DEF Next

\* A row that exists stays in existence, a closed one stays closed, and as
\* long as the version stays the holder stays.
LEMMA RowKeeps ==
  ASSUME IInv, [Next]_vars, NEW r \in Requests
  PROVE  /\ req[r].version \in Nat /\ req'[r].version \in Nat
         /\ req[r].status # "NONE" =>
              /\ req'[r].status # "NONE"
              /\ req[r].version <= req'[r].version
              /\ req[r].version = req'[r].version => req'[r].holder = req[r].holder
         /\ req[r].status \in CLOSED => req'[r].status = req[r].status
  <1>1. RowStep(r)
    BY RowSteps
  <1>2. req[r] \in Request /\ req'[r] \in Request
    BY TypeStep DEF IInv, TypeOK
  <1>3. req[r].version \in Nat /\ req'[r].version \in Nat
    BY <1>2 DEF Request
  <1>4. QED
    BY <1>1, <1>3 DEF RowStep, OPEN, HELD, CLOSED

\* The invariant is inductive.
LEMMA InvStep == IInv /\ [Next]_vars => IInv'
  <1> SUFFICES ASSUME IInv, [Next]_vars PROVE IInv'
    OBVIOUS
  <1>1. TypeOK'
    BY TypeStep DEF IInv
  <1>2. Pointers'
    <2> SUFFICES ASSUME NEW x \in Workers
                 PROVE  /\ pc'[x] \in {"cancelPublic", "claim", "handoff", "release", "close",
                                       "event", "connect", "session"}
                             => loc'[x].r \in Requests /\ req'[loc'[x].r].status # "NONE"
                        /\ pc'[x] \in {"claim", "handoff", "release", "close", "connect",
                                       "session"} => loc'[x].u \in Users
                        /\ pc'[x] = "handoff" => loc'[x].to \in Users
                        /\ pc'[x] = "close" => loc'[x].name \in {"completed", "canceled"}
                        /\ pc'[x] \in {"count", "insert"}
                             => loc'[x].from \in Addresses \cup Members
      BY DEF Pointers
    <2>1. CASE pc'[x] = pc[x] /\ loc'[x] = loc[x]
      BY <2>1, RowKeeps DEF IInv, Pointers
    <2>2. CASE Fits(pc'[x], loc'[x])
      BY <2>2, RowKeeps DEF Fits
    <2>3. QED
      BY <2>1, <2>2, LocSteps DEF LocStep
  <1>3. ManageInv'
    <2> SUFFICES ASSUME NEW x \in Workers, pc'[x] \in {"handoff", "release", "close"}
                 PROVE  /\ loc'[x].u \in Owners \cup {loc'[x].holder}
                        /\ loc'[x].ver <= req'[loc'[x].r].version
                        /\ loc'[x].ver = req'[loc'[x].r].version
                             => req'[loc'[x].r].holder = loc'[x].holder
      BY DEF ManageInv
    <2>1. CASE pc'[x] = pc[x] /\ loc'[x] = loc[x]
      <3>1. loc[x].ver \in Nat
        BY DEF IInv, TypeOK, Locals
      <3>2. /\ loc[x].r \in Requests /\ req[loc[x].r].status # "NONE"
            /\ loc[x].u \in Owners \cup {loc[x].holder}
            /\ loc[x].ver <= req[loc[x].r].version
            /\ loc[x].ver = req[loc[x].r].version => req[loc[x].r].holder = loc[x].holder
        BY <2>1 DEF IInv, Pointers, ManageInv
      <3>3. QED
        BY <2>1, <3>1, <3>2, RowKeeps
    <2>2. CASE Fits(pc'[x], loc'[x])
      BY <2>2 DEF Fits
    <2>3. QED
      BY <2>1, <2>2, LocSteps DEF LocStep
  <1>4. EraseInv'
    <2> SUFFICES ASSUME NEW x \in Workers, pc'[x] = "erase", NEW r \in loc'[x].ids
                 PROVE  req'[r].status \in CLOSED
      BY DEF EraseInv
    <2>1. CASE pc'[x] = pc[x] /\ loc'[x] = loc[x]
      <3>1. r \in Requests
        BY <2>1 DEF IInv, TypeOK, Locals
      <3>2. req[r].status \in CLOSED
        BY <2>1 DEF IInv, EraseInv
      <3>3. QED
        BY <3>1, <3>2, RowKeeps
    <2>2. CASE Fits(pc'[x], loc'[x])
      BY <2>2, RowKeeps DEF Fits
    <2>3. QED
      BY <2>1, <2>2, LocSteps DEF LocStep
  <1>5. HolderMatchesStatus'
    BY RowSteps DEF HolderMatchesStatus, RowStep, IInv, OPEN, HELD, CLOSED
  <1>6. ErasedIsClosed'
    <2> SUFFICES ASSUME NEW r \in Requests, req'[r].erased PROVE req'[r].status \in CLOSED
      BY DEF ErasedIsClosed
    <2>1. req[r].erased => req[r].status \in CLOSED
      BY DEF IInv, ErasedIsClosed
    <2>2. RowStep(r)
      BY RowSteps
    <2>3. QED
      BY <2>1, <2>2 DEF RowStep, OPEN, HELD, CLOSED
  <1>7. QED
    BY <1>1, <1>2, <1>3, <1>4, <1>5, <1>6 DEF IInv

\* It holds before anything has been submitted.
LEMMA InvInit == Init => IInv
  <1> SUFFICES ASSUME Init PROVE IInv
    OBVIOUS
  <1>1. NoRequest \in Request /\ NoLoc \in Locals
    BY RowType, LocalsType
  <1>2. TypeOK
    BY <1>1 DEF Init, TypeOK, PCs
  <1>3. Pointers /\ ManageInv /\ EraseInv
    BY DEF Init, Pointers, ManageInv, EraseInv
  <1>4. HolderMatchesStatus /\ ErasedIsClosed
    BY DEF Init, HolderMatchesStatus, ErasedIsClosed, NoRequest, HELD
  <1>5. QED
    BY <1>2, <1>3, <1>4 DEF IInv

\* In every reachable state the locals of every handler fit the rows they
\* were read from: this is what the results below rest on.
THEOREM Inductive == Spec => []IInv
  <1>1. QED
    BY InvInit, InvStep, PTL DEF Spec

\* Every variable keeps its type.
THEOREM TypeCorrect == Spec => []TypeOK
  <1>1. IInv => TypeOK
    BY DEF IInv
  <1>2. QED
    BY <1>1, Inductive, PTL

\* Whoever is named as the holder of a request has it, for any number of
\* technicians, requests and handlers in flight.
THEOREM HoldersMatch == Spec => []HolderMatchesStatus
  <1>1. IInv => HolderMatchesStatus
    BY DEF IInv
  <1>2. QED
    BY <1>1, Inductive, PTL

\* Retention erases closed requests only, although the erasing updates name
\* a row by its id alone.
THEOREM ErasedAreClosed == Spec => []ErasedIsClosed
  <1>1. IInv => ErasedIsClosed
    BY DEF IInv
  <1>2. QED
    BY <1>1, Inductive, PTL

\* No handler, however late its update, changes a request that was closed.
THEOREM ClosedRequestsAreFinal == Spec => ClosedIsFinal
  <1> DEFINE Kept == \A r \in Requests : req[r].status \in CLOSED =>
                       [req'[r] EXCEPT !.erased = FALSE, !.from = NoOne]
                         = [req[r] EXCEPT !.erased = FALSE, !.from = NoOne]
  <1>1. ASSUME IInv, [Next]_vars PROVE Kept
    <2> SUFFICES ASSUME NEW r \in Requests, req[r].status \in CLOSED
                 PROVE  [req'[r] EXCEPT !.erased = FALSE, !.from = NoOne]
                          = [req[r] EXCEPT !.erased = FALSE, !.from = NoOne]
      OBVIOUS
    <2>1. req[r] \in Request /\ req'[r] \in Request
      BY <1>1, TypeStep DEF IInv, TypeOK
    <2>2. /\ req'[r].status = req[r].status /\ req'[r].version = req[r].version
          /\ req'[r].holder = req[r].holder
      BY <1>1, RowSteps DEF RowStep, OPEN, HELD, CLOSED
    <2>3. QED
      BY <2>1, <2>2 DEF Request
  <1>2. QED
    BY <1>1, Inductive, PTL DEF Spec, ClosedIsFinal

\* A request leaves its holder's hands by the holder, an owner or the
\* customer alone, although release and close are conditional on the version
\* and never on the holder.
THEOREM OnlyTheEntitledTake == Spec => TakenOnlyByEntitled
  <1>1. IInv /\ [Next]_vars =>
          [\A r \in Requests :
             /\ req[r].status \in HELD
             /\ req'[r].status \notin HELD \/ req'[r].holder # req[r].holder
             => \E w \in Workers :
                  /\ Acts(w) /\ loc[w].r = r
                  /\ loc[w].u \in Owners \cup {req[r].holder} \/ pc[w] = "cancelPublic"]_vars
    <2> SUFFICES ASSUME IInv, [Next]_vars, NEW r \in Requests, req[r].status \in HELD,
                        req'[r].status \notin HELD \/ req'[r].holder # req[r].holder
                 PROVE  \E w \in Workers : Entitled(w, r)
      BY DEF Entitled
    <2>1. RowStep(r)
      BY RowSteps
    <2>2. QED
      BY <2>1 DEF RowStep, OPEN, HELD, CLOSED
  <1>2. QED
    BY <1>1, Inductive, PTL DEF Spec, TakenOnlyByEntitled

-----------------------------------------------------------------------------
(* The event that closes a request.                                        *)

\* A handler that has closed the request and has yet to write so.
Closer(w, r) ==
  pc[w] = "event" /\ loc[w].r = r /\ loc[w].name \in {"completed", "canceled"}

StatusAfter(name) == IF name = "completed" THEN "COMPLETED" ELSE "CANCELED"

\* There is one such handler at most, the request is as it left it, and the
\* timeline says nothing of it yet.
ClosingOf(r) ==
  /\ timeline[r]["completed"] + timeline[r]["canceled"] <= 1
  /\ timeline[r]["completed"] > 0 => req[r].status = "COMPLETED"
  /\ timeline[r]["canceled"] > 0 => req[r].status = "CANCELED"
  /\ \A w \in Workers : Closer(w, r) =>
       /\ req[r].status = StatusAfter(loc[w].name)
       /\ timeline[r]["completed"] = 0 /\ timeline[r]["canceled"] = 0
  /\ \A v, w \in Workers : Closer(v, r) /\ Closer(w, r) => v = w

Closing == \A r \in Requests : ClosingOf(r)

\* A step that brings no handler to its event, and logs no closing.
Silent ==
  /\ \A v \in Workers : pc'[v] = "event" => pc[v] = "event" /\ loc'[v] = loc[v]
  /\ \A r \in Requests : /\ timeline'[r]["completed"] = timeline[r]["completed"]
                         /\ timeline'[r]["canceled"] = timeline[r]["canceled"]

Commits(w) ==
  commitCancel(w) \/ commitClaim(w) \/ commitHandoff(w) \/ commitRelease(w) \/ commitClose(w)

\* A handler that goes anywhere but to its event.
LEMMA GotoSilent ==
  ASSUME TypeOK, NEW w \in Workers, NEW p, NEW l, p # "event", Goto(w, p, l), timeline' = timeline
  PROVE  Silent
  BY DEF Goto, TypeOK, Silent

\* Every step is silent, a conditional update, or the writing of an event.
LEMMA SilentSteps ==
  ASSUME IInv, [Next]_vars
  PROVE  Silent \/ \E w \in Workers : Commits(w) \/ writeEvent(w)
  <1>0. TypeOK
    BY DEF IInv
  <1>1. ASSUME NEW w \in Workers, NEW p, NEW l, p # "event", Begin(w, p, l) PROVE Silent
    BY <1>0, <1>1, GotoSilent DEF Begin, database
  <1>2. ASSUME NEW w \in Workers, Customer(w) PROVE Silent
    BY <1>1, <1>2 DEF Customer, publicSubmit, portalSubmit, publicCancel
  <1>3. ASSUME NEW w \in Workers, Technician(w) PROVE Silent
    BY <1>1, <1>3 DEF Technician, forConnect, claim, release, handoff, close
  <1>4. ASSUME NEW w \in Workers, Owner(w) PROVE Silent
    BY <1>0, <1>4, GotoSilent DEF Owner, setIntake, database
  <1>5. ASSUME NEW w \in Workers, retention(w) PROVE Silent
    BY <1>0, <1>5, GotoSilent DEF retention
  <1>6. ASSUME NEW w \in Workers, Continue(w), ~Commits(w), ~writeEvent(w) PROVE Silent
    <2>1. CASE \E r \in Requests : insert(w, r)
      <3> PICK r \in Requests : insert(w, r)
        BY <2>1
      <3>1. \A v \in Workers : pc'[v] = "event" => pc[v] = "event" /\ loc'[v] = loc[v]
        BY <1>0 DEF insert, Return, Goto, TypeOK
      <3>2. \A q \in Requests : /\ timeline'[q]["completed"] = timeline[q]["completed"]
                                /\ timeline'[q]["canceled"] = timeline[q]["canceled"]
        BY <1>0 DEF insert, Logged, TypeOK, EventNames
      <3> QED
        BY <3>1, <3>2 DEF Silent
    <2>2. CASE writeIntake(w) \/ underCaps(w) \/ insertNothing(w) \/ connecting(w) \/ findOld(w)
               \/ (\E created \in BOOLEAN : createSession(w, created))
      BY <1>0, <2>2, GotoSilent DEF writeIntake, underCaps, insertNothing, connecting, findOld,
                                    createSession, Return, database
    <2>3. CASE erase(w)
      BY <1>0, <2>3, GotoSilent DEF erase, Return
    <2> QED
      BY <1>6, <2>1, <2>2, <2>3 DEF Continue, Commits
  <1>7. CASE UNCHANGED vars
    BY <1>7 DEF vars, database, Silent
  <1>8. ASSUME NEW r \in Requests, passDay(r) \/ passWeek(r) \/ passMonth(r) PROVE Silent
    BY <1>8 DEF passDay, passWeek, passMonth, database, Silent
  <1> QED
    BY <1>2, <1>3, <1>4, <1>5, <1>6, <1>7, <1>8 DEF Next

\* A step that writes no closing and after which nobody else has to.
LEMMA KeepsClosing ==
  ASSUME IInv, [Next]_vars, NEW r \in Requests, ClosingOf(r),
         \A v \in Workers : Closer(v, r)' => Closer(v, r) /\ loc'[v] = loc[v],
         timeline'[r]["completed"] = timeline[r]["completed"],
         timeline'[r]["canceled"] = timeline[r]["canceled"]
  PROVE  ClosingOf(r)'
  <1>1. req[r].status \in CLOSED => req'[r].status = req[r].status
    BY RowKeeps
  <1>2. /\ timeline'[r]["completed"] > 0 => req'[r].status = "COMPLETED"
        /\ timeline'[r]["canceled"] > 0 => req'[r].status = "CANCELED"
    BY <1>1 DEF ClosingOf, CLOSED
  <1>3. ASSUME NEW v \in Workers, Closer(v, r)'
        PROVE  /\ req'[r].status = StatusAfter(loc'[v].name)
               /\ timeline'[r]["completed"] = 0 /\ timeline'[r]["canceled"] = 0
    BY <1>1, <1>3 DEF ClosingOf, StatusAfter, CLOSED
  <1>4. \A u, v \in Workers : Closer(u, r)' /\ Closer(v, r)' => u = v
    BY DEF ClosingOf
  <1> QED
    BY <1>2, <1>3, <1>4 DEF ClosingOf

\* An open request has nobody who closed it, and no such event.
LEMMA OpenUnclosed ==
  ASSUME IInv, NEW r \in Requests, ClosingOf(r), req[r].status \in OPEN
  PROVE  /\ \A v \in Workers : ~Closer(v, r)
         /\ timeline[r]["completed"] = 0 /\ timeline[r]["canceled"] = 0
  <1>1. timeline[r]["completed"] \in Nat /\ timeline[r]["canceled"] \in Nat
    BY DEF IInv, TypeOK, EventNames
  <1> QED
    BY <1>1 DEF ClosingOf, StatusAfter, OPEN, HELD

\* A conditional update: whoever closes a request found it open.
LEMMA CommitClosing ==
  ASSUME IInv, [Next]_vars, NEW w \in Workers, NEW can \in BOOLEAN, NEW row \in Request,
         NEW name \in EventNames, loc[w].r \in Requests, Commit(w, can, row, name),
         pc[w] # "event",
         can => req[loc[w].r].status \in OPEN,
         name \in {"completed", "canceled"} => row.status = StatusAfter(name),
         NEW r \in Requests, ClosingOf(r)
  PROVE  ClosingOf(r)'
  <1>0. TypeOK /\ timeline' = timeline
    BY DEF IInv, Commit
  <1>1. \A v \in Workers : v # w => pc'[v] = pc[v] /\ loc'[v] = loc[v]
    BY <1>0 DEF Commit, Return, Goto, TypeOK
  <1>2. CASE ~Closer(w, r)'
    <2>1. \A v \in Workers : Closer(v, r)' => Closer(v, r) /\ loc'[v] = loc[v]
      BY <1>1, <1>2 DEF Closer
    <2> QED
      BY <1>0, <2>1, KeepsClosing
  <1>3. CASE Closer(w, r)'
    <2>1. can
      BY <1>0, <1>3 DEF Commit, Return, Goto, Closer, TypeOK
    <2>2. loc'[w].r = loc[w].r /\ loc'[w].name = name
      BY <1>0, <2>1 DEF Commit, Goto, TypeOK, Locals
    <2>3. r = loc[w].r /\ name \in {"completed", "canceled"} /\ req[r].status \in OPEN
      BY <1>3, <2>1, <2>2 DEF Closer
    <2>4. req'[r].status = StatusAfter(name)
      <3>1. req'[r] = [row EXCEPT !.version = @ + 1]
        BY <1>0, <2>1, <2>3 DEF Commit, TypeOK
      <3> QED
        BY <2>3, <3>1 DEF Request
    <2>5. /\ \A v \in Workers : ~Closer(v, r)
          /\ timeline[r]["completed"] = 0 /\ timeline[r]["canceled"] = 0
      BY <2>3, OpenUnclosed
    <2>6. \A v \in Workers : Closer(v, r)' => v = w
      BY <1>1, <2>5 DEF Closer
    <2> QED
      BY <1>0, <2>2, <2>4, <2>5, <2>6 DEF ClosingOf
  <1> QED
    BY <1>2, <1>3

\* Every step keeps it.
LEMMA ClosingStep ==
  ASSUME IInv, [Next]_vars, Closing
  PROVE  Closing'
  <1> SUFFICES ASSUME NEW r \in Requests PROVE ClosingOf(r)'
    BY DEF Closing
  <1>0. TypeOK /\ ClosingOf(r)
    BY DEF IInv, Closing
  <1>1. CASE Silent
    <2>1. \A v \in Workers : Closer(v, r)' => Closer(v, r) /\ loc'[v] = loc[v]
      BY <1>1 DEF Silent, Closer
    <2> QED
      BY <1>0, <1>1, <2>1, KeepsClosing DEF Silent
  <1>2. ASSUME NEW w \in Workers, writeEvent(w) PROVE ClosingOf(r)'
    <2> DEFINE q == loc[w].r
               n == loc[w].name
    <2>1. /\ pc[w] = "event" /\ q \in Requests /\ n \in EventNames
          /\ timeline' = Logged(q, n) /\ req' = req
          /\ pc'[w] = "idle" /\ \A v \in Workers : v # w => pc'[v] = pc[v] /\ loc'[v] = loc[v]
      BY <1>0, <1>2 DEF writeEvent, Return, Goto, TypeOK, Locals, IInv, Pointers
    <2>2. \A v \in Workers : Closer(v, r)' => v # w /\ Closer(v, r) /\ loc'[v] = loc[v]
      BY <2>1 DEF Closer
    <2> HIDE DEF q, n
    <2>3. CASE q = r /\ n \in {"completed", "canceled"}
      <3>1. Closer(w, r)
        BY <2>1, <2>3 DEF Closer, q, n
      <3>2. /\ req[r].status = StatusAfter(n)
            /\ timeline[r]["completed"] = 0 /\ timeline[r]["canceled"] = 0
            /\ \A v \in Workers : Closer(v, r) => v = w
        BY <1>0, <3>1 DEF ClosingOf, n
      <3>3. \A v \in Workers : ~Closer(v, r)'
        BY <2>2, <3>2
      <3>4. /\ timeline'[r]["completed"] = IF n = "completed" THEN 1 ELSE 0
            /\ timeline'[r]["canceled"] = IF n = "canceled" THEN 1 ELSE 0
        BY <1>0, <2>1, <2>3, <3>2 DEF Logged, TypeOK, EventNames
      <3> QED
        BY <2>1, <2>3, <3>2, <3>3, <3>4 DEF ClosingOf, StatusAfter
    <2>4. CASE ~(q = r /\ n \in {"completed", "canceled"})
      <3>1. /\ timeline'[r]["completed"] = timeline[r]["completed"]
            /\ timeline'[r]["canceled"] = timeline[r]["canceled"]
        BY <1>0, <2>1, <2>4 DEF Logged, TypeOK, EventNames
      <3> QED
        BY <1>0, <2>2, <3>1, KeepsClosing
    <2> QED
      BY <2>3, <2>4
  <1>3. ASSUME NEW w \in Workers, Commits(w) PROVE ClosingOf(r)'
    <2> DEFINE row == req[loc[w].r]
    <2>0. loc[w].r \in Requests /\ row \in Request
      BY <1>0, <1>3 DEF Commits, commitCancel, commitClaim, commitHandoff, commitRelease, commitClose,
                        IInv, Pointers, TypeOK
    <2>1. CASE commitCancel(w)
      <3> DEFINE new == [row EXCEPT !.status = "CANCELED"]
                 can == row.status \in {"WAITING", "CLAIMED"}
      <3>1. new \in Request /\ new.status = StatusAfter("canceled") /\ can \in BOOLEAN
        BY <2>0 DEF Request, CLOSED, StatusAfter
      <3>2. can => row.status \in OPEN
        BY DEF OPEN, HELD
      <3>3. Commit(w, can, new, "canceled") /\ pc[w] # "event" /\ "canceled" \in EventNames
        BY <2>1 DEF commitCancel, EventNames
      <3> HIDE DEF new, can
      <3> QED
        BY <1>0, <2>0, <3>1, <3>2, <3>3, CommitClosing
    <2>2. CASE commitClaim(w)
      <3> DEFINE new == [row EXCEPT !.status = "CLAIMED", !.holder = loc[w].u]
                 can == row.status = "WAITING" /\ Current(w)
      <3>1. new \in Request /\ can \in BOOLEAN
        BY <2>0, <2>2 DEF commitClaim, IInv, Pointers, Request, OPEN, HELD
      <3>2. can => row.status \in OPEN
        BY DEF OPEN
      <3>3. Commit(w, can, new, "claimed") /\ pc[w] # "event" /\ "claimed" \in EventNames
        BY <2>2 DEF commitClaim, EventNames
      <3> HIDE DEF new, can
      <3> QED
        BY <1>0, <2>0, <3>1, <3>2, <3>3, CommitClosing
    <2>3. CASE commitHandoff(w)
      <3> DEFINE new == [row EXCEPT !.status = "CLAIMED", !.holder = loc[w].to]
                 can == row.status \in HELD /\ Current(w) /\ row.holder = loc[w].holder
      <3>1. new \in Request /\ can \in BOOLEAN
        BY <2>0, <2>3 DEF commitHandoff, IInv, Pointers, Request, OPEN, HELD
      <3>2. can => row.status \in OPEN
        BY DEF OPEN
      <3>3. Commit(w, can, new, "handed_off") /\ pc[w] # "event" /\ "handed_off" \in EventNames
        BY <2>3 DEF commitHandoff, EventNames
      <3> HIDE DEF new, can
      <3> QED
        BY <1>0, <2>0, <3>1, <3>2, <3>3, CommitClosing
    <2>4. CASE commitRelease(w)
      <3> DEFINE new == [row EXCEPT !.status = "WAITING", !.holder = NoOne]
                 can == row.status \in HELD /\ Current(w)
      <3>1. new \in Request /\ can \in BOOLEAN
        BY <2>0 DEF Request, OPEN
      <3>2. can => row.status \in OPEN
        BY DEF OPEN
      <3>3. Commit(w, can, new, "released") /\ pc[w] # "event" /\ "released" \in EventNames
        BY <2>4 DEF commitRelease, EventNames
      <3> HIDE DEF new, can
      <3> QED
        BY <1>0, <2>0, <3>1, <3>2, <3>3, CommitClosing
    <2>5. CASE commitClose(w)
      <3> DEFINE name == loc[w].name
                 done == name = "completed"
                 new  == [row EXCEPT !.status = IF done THEN "COMPLETED" ELSE "CANCELED"]
                 can  == row.status \in (IF done THEN HELD ELSE OPEN) /\ Current(w)
      <3>1. new \in Request /\ new.status = StatusAfter(name) /\ can \in BOOLEAN
        BY <2>0 DEF Request, CLOSED, StatusAfter
      <3>2. can => row.status \in OPEN
        BY DEF OPEN
      <3>3. Commit(w, can, new, name) /\ pc[w] # "event"
        BY <2>5 DEF commitClose
      <3>4. name \in EventNames
        BY <1>0 DEF TypeOK, Locals
      <3> HIDE DEF new, can, done, name
      <3> QED
        BY <1>0, <2>0, <3>1, <3>2, <3>3, <3>4, CommitClosing
    <2> QED
      BY <1>3, <2>1, <2>2, <2>3, <2>4, <2>5 DEF Commits
  <1> QED
    BY <1>1, <1>2, <1>3, SilentSteps

\* However many people close a request at once, and whenever each of them
\* gets to write its event, the timeline has one closing event at most and
\* it is the one that became of the request.
THEOREM OneClosingEventEver == Spec => []OneClosingEvent
  <1>1. Init => Closing
    BY DEF Init, Closing, ClosingOf, Closer, EventNames
  <1>2. IInv /\ Closing /\ [Next]_vars => Closing'
    BY ClosingStep
  <1>3. Closing => OneClosingEvent
    BY DEF Closing, ClosingOf, OneClosingEvent
  <1> QED
    BY <1>1, <1>2, <1>3, Inductive, PTL DEF Spec

=============================================================================
