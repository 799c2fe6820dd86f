--------------------------- MODULE SupportRequests ---------------------------
(***************************************************************************)
(* The support queue of one business:                                      *)
(* apps/api/src/support-requests/support-requests.service.ts and the two   *)
(* Connect hooks (Quick Connect, Connect on an enrolled computer).         *)
(*                                                                         *)
(* Customers submit and cancel, technicians claim, hand off, release,      *)
(* close and connect, retention expires and erases.  A worker is one       *)
(* handler in flight; every database statement is atomic, and other        *)
(* handlers run between two of them.                                       *)
(*                                                                         *)
(* The version a technician sends back is one the queue has shown at some  *)
(* time, so any version up to the current one.  Ages are kept as the sets  *)
(* of requests older than each of the three limits.  A request that is     *)
(* refused with an error writes nothing and is left out where the refusal  *)
(* is decided before the first write.                                      *)
(***************************************************************************)
EXTENDS Integers, FiniteSets

CONSTANTS
  Requests,    \* ids of the requests that may be submitted
  Addresses,   \* network addresses the public form is used from
  Members,     \* people of the business who ask from the portal
  Users,       \* people who hold support:requests in the business
  Owners,      \* the Business Owners among them
  Workers,     \* handlers that may be in flight together
  PublicCap,   \* PUBLIC_OPEN_CAP
  PerIpCap,    \* PER_IP_OPEN_CAP
  MaxVersion,  \* bound on the version of a request that is claimed
  MaxSlugs     \* bound on the intake links generated

NoOne == "none"

ASSUME SetsAssumption ==
  /\ Owners \subseteq Users
  /\ NoOne \notin Users /\ NoOne \notin Requests
  /\ Addresses \cap Members = {}

ASSUME BoundsAssumption ==
  /\ PublicCap \in Nat /\ PerIpCap \in Nat
  /\ MaxVersion \in Nat /\ MaxSlugs \in Nat

VARIABLES
  req,         \* the SupportRequest rows
  timeline,    \* how many SupportRequestEvent rows of each kind
  linked,      \* <<technician, request>> of the support sessions created
  intake,      \* supportIntakeEnabled, supportIntakeSlug (0: null)
  minted,      \* slugs generated so far
  dayOld,      \* requests created more than 24 hours ago
  weekOld,     \* requests whose status link has expired
  monthClosed, \* requests closed more than 30 days ago
  pc,          \* where each worker is
  loc          \* its locals

database == <<req, timeline, linked, intake>>
ages     == <<dayOld, weekOld, monthClosed>>
vars     == <<database, minted, ages, pc, loc>>

HELD   == {"CLAIMED", "CONNECTING"}
OPEN   == {"WAITING"} \cup HELD
CLOSED == {"COMPLETED", "CANCELED", "EXPIRED"}

\* What the service writes to the timeline of a request.
EventNames == {"submitted", "claimed", "handed_off", "released", "completed", "canceled"}

\* "NONE": no such row yet.  `from' is the address or the member.
Request == [status : OPEN \cup CLOSED \cup {"NONE"}, version : Nat,
            holder : Users \cup {NoOne},                    \* claimedById
            from   : Addresses \cup Members \cup {NoOne},
            erased : BOOLEAN]                               \* anonymizedAt is set

NoRequest == [status |-> "NONE", version |-> 0, holder |-> NoOne, from |-> NoOne,
              erased |-> FALSE]

PCs == {"idle", "count", "insert", "cancelPublic", "claim", "handoff", "release",
        "close", "event", "connect", "session", "intake", "findOld", "erase"}

Locals == [r : Requests \cup {NoOne}, u : Users \cup {NoOne}, to : Users \cup {NoOne},
           ver : Nat, holder : Users \cup {NoOne},
           from : Addresses \cup Members \cup {NoOne},
           name : EventNames, ids : SUBSET Requests, on : BOOLEAN, slug : Nat]

NoLoc == [r |-> NoOne, u |-> NoOne, to |-> NoOne, ver |-> 0, holder |-> NoOne,
          from |-> NoOne, name |-> "submitted", ids |-> {}, on |-> FALSE, slug |-> 0]

Init ==
  /\ req = [r \in Requests |-> NoRequest]
  /\ timeline = [r \in Requests |-> [n \in EventNames |-> 0]]
  /\ linked = {}
  /\ intake = [enabled |-> FALSE, slug |-> 0]
  /\ minted = 0
  /\ dayOld = {} /\ weekOld = {} /\ monthClosed = {}
  /\ pc = [w \in Workers |-> "idle"]
  /\ loc = [w \in Workers |-> NoLoc]

Goto(w, p, l) == /\ pc' = [pc EXCEPT ![w] = p]
                 /\ loc' = [loc EXCEPT ![w] = l]
Return(w)     == Goto(w, "idle", NoLoc)

\* A handler that has read what it needs and writes next.
Begin(w, p, l) == /\ pc[w] = "idle"
                  /\ Goto(w, p, l)
                  /\ UNCHANGED <<database, minted, ages>>

\* One row of the timeline.
Logged(r, name) == [timeline EXCEPT ![r][name] = @ + 1]

-----------------------------------------------------------------------------
(* The intake link.                                                        *)

\* setIntake(): the slug to write is chosen on the row as read.
setIntake(w, on, regenerate) ==
  LET fresh == regenerate \/ intake.slug = 0 IN
  /\ pc[w] = "idle"
  /\ fresh => minted < MaxSlugs
  /\ minted' = IF fresh THEN minted + 1 ELSE minted
  /\ Goto(w, "intake",
          [NoLoc EXCEPT !.on = on, !.slug = IF fresh THEN minted + 1 ELSE intake.slug])
  /\ UNCHANGED <<database, ages>>

writeIntake(w) ==
  /\ pc[w] = "intake"
  /\ intake' = [enabled |-> loc[w].on, slug |-> loc[w].slug]
  /\ Return(w)
  /\ UNCHANGED <<req, timeline, linked, minted, ages>>

-----------------------------------------------------------------------------
(* Submission: count, then create.                                         *)

\* intakeBusiness(): the link is the active one.
publicSubmit(w, slug, a) ==
  /\ intake.enabled /\ intake.slug = slug
  /\ Begin(w, "count", [NoLoc EXCEPT !.from = a])

portalSubmit(w, m) == Begin(w, "count", [NoLoc EXCEPT !.from = m])

OpenFrom(sources) == {r \in Requests : req[r].from \in sources /\ req[r].status \in OPEN}

\* The counts; the limit per address is also the one per signed-in person.
\* Each limit is judged by itself, so the two counts may be read together.
underCaps(w) ==
  /\ pc[w] = "count"
  /\ IF \/ Cardinality(OpenFrom({loc[w].from})) >= PerIpCap
        \/ loc[w].from \in Addresses /\ Cardinality(OpenFrom(Addresses)) >= PublicCap
     THEN Return(w)
     ELSE Goto(w, "insert", loc[w])
  /\ UNCHANGED <<database, minted, ages>>

\* The row and its "submitted" event, one nested create.
insert(w, r) ==
  /\ pc[w] = "insert"
  /\ req[r].status = "NONE"
  /\ req' = [req EXCEPT ![r] = [NoRequest EXCEPT !.status = "WAITING",
                                                 !.from = loc[w].from]]
  /\ timeline' = Logged(r, "submitted")
  /\ Return(w)
  /\ UNCHANGED <<linked, intake, minted, ages>>

\* Bound: every id is taken.
insertNothing(w) ==
  /\ pc[w] = "insert"
  /\ \A r \in Requests : req[r].status # "NONE"
  /\ Return(w)
  /\ UNCHANGED <<database, minted, ages>>

-----------------------------------------------------------------------------
(* The customer's status link.                                             *)

publicCancel(w, r) ==
  /\ req[r].status # "NONE" /\ ~req[r].erased /\ r \notin weekOld
  /\ Begin(w, "cancelPublic", [NoLoc EXCEPT !.r = r])

\* After a conditional update: the event, or 409.
Commit(w, can, row, name) ==
  LET r == loc[w].r IN
  /\ IF can
     THEN /\ req' = [req EXCEPT ![r] = [row EXCEPT !.version = @ + 1]]
          /\ Goto(w, "event", [loc[w] EXCEPT !.name = name])
     ELSE Return(w) /\ UNCHANGED req
  /\ UNCHANGED <<timeline, linked, intake, minted, ages>>

\* Mutant: the count of the update is not looked at.
commitCancel_Unchecked(w) ==
  LET row == req[loc[w].r] IN
  /\ pc[w] = "cancelPublic"
  /\ req' = IF row.status \in {"WAITING", "CLAIMED"}
            THEN [req EXCEPT ![loc[w].r] = [row EXCEPT !.status = "CANCELED",
                                                       !.version = @ + 1]]
            ELSE req
  /\ Goto(w, "event", [loc[w] EXCEPT !.name = "canceled"])
  /\ UNCHANGED <<timeline, linked, intake, minted, ages>>

commitCancel(w) ==
  LET row == req[loc[w].r] IN
  /\ pc[w] = "cancelPublic"
  /\ Commit(w, row.status \in {"WAITING", "CLAIMED"},
            [row EXCEPT !.status = "CANCELED"], "canceled")

-----------------------------------------------------------------------------
(* The queue.                                                              *)

\* load(): a row the queue shows, as far as a decision needs it.
Visible(r)        == req[r].status # "NONE" /\ ~req[r].erased
ForUser(u, r)     == [NoLoc EXCEPT !.r = r, !.u = u]
Loaded(u, r, ver) == [ForUser(u, r) EXCEPT !.ver = ver, !.holder = req[r].holder]

canManage(u, r) == req[r].holder = u \/ u \in Owners

\* The conditional update finds the version the technician was shown.
Current(w) == req[loc[w].r].version = loc[w].ver

claim(w, u, r, ver) ==
  /\ Visible(r)
  /\ req[r].version < MaxVersion
  /\ Begin(w, "claim", Loaded(u, r, ver))

commitClaim(w) ==
  LET row == req[loc[w].r] IN
  /\ pc[w] = "claim"
  /\ Commit(w, row.status = "WAITING" /\ Current(w),
            [row EXCEPT !.status = "CLAIMED", !.holder = loc[w].u], "claimed")

\* canHandle() of the new holder: Users are the ones who can.
handoff(w, u, r, to, ver) ==
  /\ Visible(r)
  /\ req[r].status \in HELD /\ canManage(u, r) /\ to # req[r].holder
  /\ req[r].version < MaxVersion
  /\ Begin(w, "handoff", [Loaded(u, r, ver) EXCEPT !.to = to])

\* Mutant: the hand-off keeps the version.
commitHandoff_SameVersion(w) ==
  LET row == req[loc[w].r] IN
  /\ pc[w] = "handoff"
  /\ IF row.status \in HELD /\ Current(w) /\ row.holder = loc[w].holder
     THEN /\ req' = [req EXCEPT ![loc[w].r] = [row EXCEPT !.status = "CLAIMED",
                                                          !.holder = loc[w].to]]
          /\ Goto(w, "event", [loc[w] EXCEPT !.name = "handed_off"])
     ELSE Return(w) /\ UNCHANGED req
  /\ UNCHANGED <<timeline, linked, intake, minted, ages>>

commitHandoff(w) ==
  LET row == req[loc[w].r] IN
  /\ pc[w] = "handoff"
  /\ Commit(w, row.status \in HELD /\ Current(w) /\ row.holder = loc[w].holder,
            [row EXCEPT !.status = "CLAIMED", !.holder = loc[w].to], "handed_off")

release(w, u, r, ver) ==
  /\ Visible(r)
  /\ canManage(u, r)
  /\ Begin(w, "release", Loaded(u, r, ver))

\* Mutant: a closed request goes back to the queue.
commitRelease_AnyStatus(w) ==
  /\ pc[w] = "release"
  /\ Commit(w, Current(w),
            [req[loc[w].r] EXCEPT !.status = "WAITING", !.holder = NoOne], "released")

commitRelease(w) ==
  LET row == req[loc[w].r] IN
  /\ pc[w] = "release"
  /\ Commit(w, row.status \in HELD /\ Current(w),
            [row EXCEPT !.status = "WAITING", !.holder = NoOne], "released")

\* close() with kind COMPLETED or CANCELED.
close(w, u, r, ver, name) ==
  /\ Visible(r)
  /\ canManage(u, r)
  /\ Begin(w, "close", [Loaded(u, r, ver) EXCEPT !.name = name])

commitClose(w) ==
  LET row  == req[loc[w].r]
      done == loc[w].name = "completed"
  IN
  /\ pc[w] = "close"
  /\ Commit(w, row.status \in (IF done THEN HELD ELSE OPEN) /\ Current(w),
            [row EXCEPT !.status = IF done THEN "COMPLETED" ELSE "CANCELED"],
            loc[w].name)

\* event(): a statement of its own, after the update.
writeEvent(w) ==
  /\ pc[w] = "event"
  /\ timeline' = Logged(loc[w].r, loc[w].name)
  /\ Return(w)
  /\ UNCHANGED <<req, linked, intake, minted, ages>>

-----------------------------------------------------------------------------
(* Connect hooks: forQuickConnect and supportRequestForConnect.            *)

forConnect(w, u, r) ==
  /\ req[r].holder = u /\ req[r].status \in HELD
  /\ Begin(w, "connect", ForUser(u, r))

\* The update is conditional on the status alone, and keeps the version.
connecting(w) ==
  LET r == loc[w].r IN
  /\ pc[w] = "connect"
  /\ req' = IF req[r].status = "CLAIMED" THEN [req EXCEPT ![r].status = "CONNECTING"]
            ELSE req
  /\ Goto(w, "session", loc[w])
  /\ UNCHANGED <<timeline, linked, intake, minted, ages>>

\* Mutant: the technician of the session is taken from the request row.
createSession_FromRow(w, created) ==
  /\ pc[w] = "session"
  /\ linked' = IF created THEN linked \cup {<<req[loc[w].r].holder, loc[w].r>>} ELSE linked
  /\ Return(w)
  /\ UNCHANGED <<req, timeline, intake, minted, ages>>

\* The session row, or no row: it is best effort on an enrolled computer.
createSession(w, created) ==
  /\ pc[w] = "session"
  /\ linked' = IF created THEN linked \cup {<<loc[w].u, loc[w].r>>} ELSE linked
  /\ Return(w)
  /\ UNCHANGED <<req, timeline, intake, minted, ages>>

-----------------------------------------------------------------------------
(* Retention, every ten minutes.                                           *)

Expired(r) == req[r].status = "WAITING" /\ r \in dayOld

retention(w) ==
  /\ pc[w] = "idle"
  /\ req' = [r \in Requests |->
               IF Expired(r) THEN [req[r] EXCEPT !.status = "EXPIRED", !.version = @ + 1]
               ELSE req[r]]
  /\ Goto(w, "findOld", NoLoc)
  /\ UNCHANGED <<timeline, linked, intake, minted, ages>>

\* Mutant: selected by age, whatever the status.
Erasable_ByAge == {r \in weekOld : ~req[r].erased}

Erasable == {r \in monthClosed : req[r].status \in CLOSED /\ ~req[r].erased}

findOld(w) ==
  /\ pc[w] = "findOld"
  /\ Goto(w, "erase", [NoLoc EXCEPT !.ids = Erasable])
  /\ UNCHANGED <<database, minted, ages>>

\* One update per request, by id alone: contact details, address hash and
\* status link go.
erase(w) ==
  /\ pc[w] = "erase"
  /\ IF loc[w].ids = {} THEN Return(w) /\ UNCHANGED req
     ELSE \E r \in loc[w].ids :
            /\ req' = [req EXCEPT ![r].erased = TRUE,
                                  ![r].from = IF @ \in Addresses THEN NoOne ELSE @]
            /\ Goto(w, "erase", [loc[w] EXCEPT !.ids = @ \ {r}])
  /\ UNCHANGED <<timeline, linked, intake, minted, ages>>

-----------------------------------------------------------------------------
(* Time.                                                                   *)

passDay(r) ==
  /\ req[r].status # "NONE" /\ r \notin dayOld
  /\ dayOld' = dayOld \cup {r}
  /\ UNCHANGED <<database, minted, weekOld, monthClosed, pc, loc>>

passWeek(r) ==
  /\ r \in dayOld \ weekOld
  /\ weekOld' = weekOld \cup {r}
  /\ UNCHANGED <<database, minted, dayOld, monthClosed, pc, loc>>

passMonth(r) ==
  /\ r \in weekOld \ monthClosed
  /\ req[r].status \in CLOSED
  /\ monthClosed' = monthClosed \cup {r}
  /\ UNCHANGED <<database, minted, dayOld, weekOld, pc, loc>>

-----------------------------------------------------------------------------

Customer(w) ==
  \/ \E a \in Addresses, slug \in 1..minted : publicSubmit(w, slug, a)
  \/ \E m \in Members : portalSubmit(w, m)
  \/ \E r \in Requests : publicCancel(w, r)

Technician(w) ==
  \E u \in Users, r \in Requests :
    \/ forConnect(w, u, r)
    \/ \E ver \in 0..req[r].version :
         \/ claim(w, u, r, ver) \/ release(w, u, r, ver)
         \/ \E to \in Users : handoff(w, u, r, to, ver)
         \/ \E name \in {"completed", "canceled"} : close(w, u, r, ver, name)

Owner(w) == \E on, regenerate \in BOOLEAN : setIntake(w, on, regenerate)

Continue(w) ==
  \/ writeIntake(w)
  \/ underCaps(w) \/ insertNothing(w) \/ \E r \in Requests : insert(w, r)
  \/ commitCancel(w) \/ commitClaim(w) \/ commitHandoff(w) \/ commitRelease(w)
  \/ commitClose(w) \/ writeEvent(w)
  \/ connecting(w) \/ \E created \in BOOLEAN : createSession(w, created)
  \/ findOld(w) \/ erase(w)

Next ==
  \/ \E r \in Requests : passDay(r) \/ passWeek(r) \/ passMonth(r)
  \/ \E w \in Workers :
       Customer(w) \/ Technician(w) \/ Owner(w) \/ retention(w) \/ Continue(w)

Spec == Init /\ [][Next]_vars

-----------------------------------------------------------------------------
(* Properties.                                                             *)

TypeOK ==
  /\ req \in [Requests -> Request]
  /\ timeline \in [Requests -> [EventNames -> Nat]]
  /\ linked \subseteq Users \X Requests
  /\ intake \in [enabled : BOOLEAN, slug : Nat]
  /\ minted \in Nat
  /\ dayOld \subseteq Requests /\ weekOld \subseteq Requests /\ monthClosed \subseteq Requests
  /\ pc \in [Workers -> PCs]
  /\ loc \in [Workers -> Locals]

\* A held request has a holder, a waiting one has none: whoever the status
\* link or the queue names is the person who has it.
HolderMatchesStatus ==
  \A r \in Requests : /\ req[r].status \in HELD => req[r].holder # NoOne
                      /\ req[r].status = "WAITING" => req[r].holder = NoOne

\* The worker that takes the step.
Acts(w) == pc'[w] # pc[w]

\* "Nobody is silently overwritten": a request leaves the hands of its
\* holder only by the holder, an owner, or the customer's own cancelation,
\* although release and close are conditional on the version alone.
TakenOnlyByEntitled ==
  [][\A r \in Requests :
       /\ req[r].status \in HELD
       /\ req'[r].status \notin HELD \/ req'[r].holder # req[r].holder
       => \E w \in Workers :
            /\ Acts(w) /\ loc[w].r = r
            /\ loc[w].u \in Owners \cup {req[r].holder} \/ pc[w] = "cancelPublic"]_vars

\* A closed request stays as it was closed; only retention touches it again.
ClosedIsFinal ==
  [][\A r \in Requests : req[r].status \in CLOSED =>
       [req'[r] EXCEPT !.erased = FALSE, !.from = NoOne]
         = [req[r] EXCEPT !.erased = FALSE, !.from = NoOne]]_vars

\* What retention erases is closed: the erasing updates go by id alone, long
\* after the query that chose them.
ErasedIsClosed == \A r \in Requests : req[r].erased => req[r].status \in CLOSED

\* When the customer cancels while a technician completes or two people
\* close at once, one of them wins and the timeline names only that one.
OneClosingEvent ==
  \A r \in Requests :
    /\ timeline[r]["completed"] + timeline[r]["canceled"] <= 1
    /\ timeline[r]["completed"] > 0 => req[r].status = "COMPLETED"
    /\ timeline[r]["canceled"] > 0 => req[r].status = "CANCELED"
=============================================================================
