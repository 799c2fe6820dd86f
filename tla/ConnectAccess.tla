---------------------------- MODULE ConnectAccess ----------------------------
(***************************************************************************)
(* Who may connect to a computer, and with what: connection grants         *)
(* (endpoints/endpoints.service.ts) and launcher tokens                    *)
(* (launcher/launcher.service.ts), the authorization they re-run when they *)
(* are redeemed (rbac/), and the people who change it meanwhile:           *)
(* technicians.service.ts, users.service.ts, businesses.service.ts and     *)
(* offboarding.service.ts.                                                 *)
(*                                                                         *)
(* One person and one business.  A worker is one request in flight; every  *)
(* database statement is atomic and other requests run between two of      *)
(* them.  Every assignment carries the connect capability, and every       *)
(* computer is in access mode ASSIGNED_USERS.  Whether a scheduled row is  *)
(* open at a given minute is AccessSchedule's.                             *)
(***************************************************************************)
EXTENDS Naturals, FiniteSets, AccessSchedule

CONSTANTS
  Workers,      \* requests that may be in flight together
  Computers,    \* of the business
  Assignments,  \* ids of technician assignments
  Tokens,       \* ids of connection grants and launcher tokens
  MaxChanges    \* bound on the changes made by administrators and by time

ASSUME AccessAssumption == MaxChanges \in Nat /\ "none" \notin Tokens

VARIABLES
  status,            \* User.status
  member,            \* the person's membership of the business
  access,            \* ComputerAccess rows, by computer
  inGroup,           \* the person is in the technician group
  approvalRequired,  \* Customer.technicianApprovalRequired
  businessOn,        \* the business is active and not archived
  archived,          \* archived computers
  asg,               \* TechnicianAssignment rows
  toks,              \* ConnectionGrant and LauncherToken rows
  handed,            \* history: how often each token bought a connection
  left,              \* history: assignments the last finished offboarding found
  stale,             \* history: what was untrue since each redemption began
  changes,           \* how many changes were made
  pc,                \* where each worker is
  loc                \* its locals

person   == <<status, member, access, inGroup>>
business == <<approvalRequired, businessOn, archived>>
history  == <<handed, left>>
vars     == <<person, business, asg, toks, history, stale, changes, pc, loc>>

\* How a dated, scheduled row stands: not yet, now, outside its hours, over.
Windows == {"early", "open", "shut", "over"}

Assignment == [via : {"DIRECT", "GROUP"},
               ends : SUBSET Computers,      \* endpointIds; {} is the whole business
               approval : {"NOT_REQUIRED", "PENDING", "APPROVED", "DENIED"},
               revoked : BOOLEAN,
               window : Windows]
NoAssignment == [via |-> "NONE"]

Token == [kind : {"grant", "launcher"}, e : Computers,
          used : BOOLEAN, revoked : BOOLEAN, expired : BOOLEAN]
NoToken == [kind |-> "none"]

Present(rows) == {x \in DOMAIN rows : rows[x] # NoAssignment /\ rows[x] # NoToken}

Facts == {"user", "member", "access", "scope", "business", "endpoint"}

PCs == {"idle", "user", "member", "scope", "endpoint", "business", "reach", "mint",
        "claim", "refuse", "assign", "decide", "revoke", "revokeTokens", "grantAccess",
        "setMember", "clearAccess", "suspend", "delete", "endAssignments",
        "leaveGroups", "voidTokens", "expireGrants", "addUser", "setStatus", "reset",
        "dropAccess", "dropMember", "count", "dropAccount"}

NoId == "none"

\* t: the token redeemed; kind: the one to mint; a: an assignment; e: a
\* computer; ends: computers read or asked for; flag, to: what to write.
Locals == [t : Tokens \cup {NoId}, kind : {"none", "grant", "launcher"},
           a : Assignments \cup {NoId}, e : Computers \cup {NoId},
           ends : SUBSET Computers, flag : BOOLEAN,
           to : {"none", "NOT_REQUIRED", "PENDING", "APPROVED", "DENIED",
                 "DIRECT", "GROUP", "active", "inactive"},
           old : SUBSET Assignments]
NoLoc == [t |-> NoId, kind |-> "none", a |-> NoId, e |-> NoId, ends |-> {},
          flag |-> FALSE, to |-> "none", old |-> {}]

\* An active technician account without access yet.
Init ==
  /\ status = "ACTIVE" /\ member = "none" /\ inGroup = FALSE
  /\ access = [e \in Computers |-> "none"]
  /\ approvalRequired = FALSE /\ businessOn = TRUE /\ archived = {}
  /\ asg = [a \in Assignments |-> NoAssignment]
  /\ toks = [t \in Tokens |-> NoToken]
  /\ handed = [t \in Tokens |-> 0] /\ left = {} /\ changes = 0
  /\ stale = [w \in Workers |-> {}]
  /\ pc = [w \in Workers |-> "idle"]
  /\ loc = [w \in Workers |-> NoLoc]

-----------------------------------------------------------------------------
(* What a person may reach.                                                *)

\* resolve(): the grants that count now.
Counts(a) ==
  /\ a # NoAssignment /\ ~a.revoked
  /\ a.approval \in {"NOT_REQUIRED", "APPROVED"} /\ a.window = "open"
  /\ a.via = "GROUP" => inGroup

\* toSource(): no computers listed means all of them.
Reach(ends) == IF ends = {} THEN Computers ELSE ends

Scope == IF businessOn
         THEN UNION {Reach(asg[a].ends) : a \in {b \in Assignments : Counts(asg[b])}}
         ELSE {}

\* The facts that worker w's decision rests on and that do not hold now.
Untrue(w) ==
  {f \in Facts :
     CASE f = "user"     -> status # "ACTIVE"
       [] f = "member"   -> member # "active"
       [] f = "access"   -> access[loc[w].e] # "open"
       [] f = "scope"    -> loc[w].e \notin Scope
       [] f = "business" -> ~businessOn
       [] f = "endpoint" -> loc[w].e \in archived}

-----------------------------------------------------------------------------
Goto(w, p, l) == /\ pc' = [pc EXCEPT ![w] = p]
                 /\ loc' = [loc EXCEPT ![w] = l]
Return(w)     == Goto(w, "idle", NoLoc)
Step(w, p)    == Goto(w, p, loc[w])
\* An id is left for one more row (a bound).
Room(free, taking) == Cardinality(taking) < Cardinality(free)
Change        == changes < MaxChanges /\ changes' = changes + 1

-----------------------------------------------------------------------------
(* authorizeConnect() for a live actor, statement by statement, shared by  *)
(* minting and redeeming.                                                  *)

\* createConnectionGrant() and issueToken() of a signed-in person.
createConnectionGrant(w, kind, e) ==
  /\ pc[w] = "idle"
  /\ Room(Tokens \ Present(toks), {v \in Workers : loc[v].kind # "none"})
  /\ Goto(w, "user", [NoLoc EXCEPT !.kind = kind, !.e = e])
  /\ UNCHANGED <<person, business, asg, toks, history, changes>>

Dead(t) == t.revoked \/ t.used \/ t.expired

\* Mutant: what was decided when the token was minted still counts.
find_Trust(w, t) ==
  /\ pc[w] = "idle" /\ toks[t] # NoToken
  /\ IF ~Dead(toks[t]) THEN Goto(w, "claim", [NoLoc EXCEPT !.t = t, !.e = toks[t].e])
     ELSE UNCHANGED <<pc, loc>>
  /\ UNCHANGED <<person, business, asg, toks, history, changes>>

\* redeemConnectionGrant() and validateToken(): the row as it is now.
find(w, t) ==
  /\ pc[w] = "idle" /\ toks[t] # NoToken
  /\ IF ~Dead(toks[t]) /\ (toks[t].kind = "grant" => status = "ACTIVE")
     THEN Goto(w, "user", [NoLoc EXCEPT !.t = t, !.e = toks[t].e])
     ELSE UNCHANGED <<pc, loc>>
  /\ UNCHANGED <<person, business, asg, toks, history, changes>>

\* Where a refused authorization ends: validateToken() revokes the token.
Refuse(w) ==
  IF loc[w].t # NoId /\ toks[loc[w].t].kind = "launcher" THEN Step(w, "refuse") ELSE Return(w)

\* Where it goes on: a signed-in person gets a token, a redemption claims it.
Allow(w) == Step(w, IF loc[w].t = NoId THEN "mint" ELSE "claim")

\* actorForBusiness(): the user row.
user(w) ==
  /\ pc[w] = "user"
  /\ IF status = "ACTIVE" THEN Step(w, "member") ELSE Refuse(w)
  /\ UNCHANGED <<person, business, asg, toks, history, changes>>

\* The membership: a member of the business acts as one.
membership(w) ==
  /\ pc[w] = "member"
  /\ IF member = "active" /\ businessOn
     THEN Goto(w, "endpoint", [loc[w] EXCEPT !.to = "active"])
     ELSE Step(w, "scope")
  /\ UNCHANGED <<person, business, asg, toks, history, changes>>

\* Anyone else acts as a technician, if an assignment counts.
resolveExtras(w) ==
  /\ pc[w] = "scope"
  /\ IF Scope # {} THEN Goto(w, "endpoint", [loc[w] EXCEPT !.ends = Scope]) ELSE Refuse(w)
  /\ UNCHANGED <<person, business, asg, toks, history, changes>>

endpoint(w) ==
  /\ pc[w] = "endpoint"
  /\ IF loc[w].e \in archived THEN Goto(w, "business", [loc[w] EXCEPT !.flag = TRUE])
     ELSE Step(w, "business")
  /\ UNCHANGED <<person, business, asg, toks, history, changes>>

\* The business, the archived computer as read, and a technician's computers.
authorizeConnect(w) ==
  LET l == loc[w] IN
  /\ pc[w] = "business"
  /\ IF ~businessOn \/ l.flag THEN Refuse(w)
     ELSE IF l.to = "active" THEN Step(w, "reach")
     ELSE IF l.e \in l.ends THEN Allow(w) ELSE Refuse(w)
  /\ UNCHANGED <<person, business, asg, toks, history, changes>>

\* canReachEndpoint() of a Business User: the ComputerAccess row.
canReachEndpoint(w) ==
  /\ pc[w] = "reach"
  /\ IF access[loc[w].e] = "open" THEN Allow(w) ELSE Refuse(w)
  /\ UNCHANGED <<person, business, asg, toks, history, changes>>

\* The row is inserted on what was decided before.
mint(w) ==
  /\ pc[w] = "mint"
  /\ \E t \in Tokens :
       /\ toks[t] = NoToken
       /\ toks' = [toks EXCEPT ![t] = [kind |-> loc[w].kind, e |-> loc[w].e, used |-> FALSE,
                                       revoked |-> FALSE, expired |-> FALSE]]
  /\ Return(w)
  /\ UNCHANGED <<person, business, asg, history, changes>>

\* Mutant: the row was checked when it was read.
claimable_AsRead(t) == TRUE

\* The condition of the claiming update.
claimable(t) == ~t.used /\ (t.kind = "launcher" => ~t.revoked)

claim(w) ==
  LET t == loc[w].t IN
  /\ pc[w] = "claim"
  /\ IF claimable(toks[t])
     THEN /\ toks' = [toks EXCEPT ![t].used = TRUE]
          /\ handed' = [handed EXCEPT ![t] = @ + 1]
     ELSE UNCHANGED <<toks, handed>>
  /\ Return(w)
  /\ UNCHANGED <<person, business, asg, left, changes>>

\* The token is of no use any more.
refuse(w) ==
  /\ pc[w] = "refuse"
  /\ toks' = [toks EXCEPT ![loc[w].t].revoked = @ \/ ~toks[loc[w].t].used]
  /\ Return(w)
  /\ UNCHANGED <<person, business, asg, history, changes>>

-----------------------------------------------------------------------------
(* Technician assignments.                                                 *)

\* createAssignment(): whether approval is needed is read first.  A person's
\* own request always needs it.
createAssignment(w, via, ends, own) ==
  /\ pc[w] = "idle" /\ businessOn
  /\ Room(Assignments \ Present(asg), {v \in Workers : pc[v] = "assign"})
  /\ via = "DIRECT" => status # "DELETED"
  /\ own => via = "DIRECT" /\ status = "ACTIVE" /\ (inGroup \/ \E a \in Present(asg) : asg[a].via = "DIRECT")
  /\ Goto(w, "assign", [NoLoc EXCEPT !.ends = ends, !.to = via, !.flag = own \/ approvalRequired])
  /\ UNCHANGED <<person, business, asg, toks, history, changes>>

assign(w) ==
  LET l == loc[w] IN
  /\ pc[w] = "assign"
  /\ \E a \in Assignments, window \in {"early", "open"} :
       /\ asg[a] = NoAssignment
       /\ asg' = [asg EXCEPT ![a] =
            [via |-> l.to, ends |-> l.ends, revoked |-> FALSE,
             window |-> window, approval |-> IF l.flag THEN "PENDING" ELSE "NOT_REQUIRED"]]
  /\ Return(w)
  /\ UNCHANGED <<person, business, toks, history, changes>>

\* decide(), up to its last check.  `ends' {} stands for a decision that
\* leaves the computers alone as well as for one that lists none of them.
decide(w, a, to, ends, listed) ==
  /\ pc[w] = "idle" /\ asg[a] # NoAssignment
  /\ ~asg[a].revoked /\ asg[a].approval = "PENDING"
  /\ ends \subseteq Reach(asg[a].ends)
  /\ to = "DENIED" => ~listed
  /\ ~listed => ends = {}
  /\ Goto(w, "decide", [NoLoc EXCEPT !.a = a, !.to = to, !.ends = ends, !.flag = listed])
  /\ UNCHANGED <<person, business, asg, toks, history, changes>>

\* Mutant: the last decision wins.
decided_Anyway(w) ==
  asg' = [asg EXCEPT ![loc[w].a].approval = loc[w].to,
                     ![loc[w].a].ends = IF loc[w].flag THEN loc[w].ends ELSE @]

\* The conditional update: still PENDING, whatever else happened to the row.
decided(w) ==
  LET l == loc[w] IN
  IF asg[l.a].approval = "PENDING"
  THEN asg' = [asg EXCEPT ![l.a].approval = l.to,
                          ![l.a].ends = IF l.flag THEN l.ends ELSE @]
  ELSE UNCHANGED asg

recordDecision(w) ==
  /\ pc[w] = "decide"
  /\ decided(w)
  /\ Return(w)
  /\ UNCHANGED <<person, business, toks, history, changes>>

revokeAssignment(w, a) ==
  /\ pc[w] = "idle" /\ asg[a] # NoAssignment /\ ~asg[a].revoked
  /\ Goto(w, "revoke", [NoLoc EXCEPT !.a = a])
  /\ UNCHANGED <<person, business, asg, toks, history, changes>>

revoke(w) ==
  /\ pc[w] = "revoke"
  /\ asg' = [asg EXCEPT ![loc[w].a].revoked = TRUE]
  /\ IF asg[loc[w].a].via = "GROUP" /\ ~inGroup THEN Return(w) ELSE Goto(w, "revokeTokens", NoLoc)
  /\ UNCHANGED <<person, business, toks, history, changes>>

\* Every unused launcher token of the person.
VoidLaunchers ==
  toks' = [t \in Tokens |->
             IF toks[t] # NoToken /\ toks[t].kind = "launcher" /\ ~Dead(toks[t])
             THEN [toks[t] EXCEPT !.revoked = TRUE] ELSE toks[t]]

revokeTokens(w) ==
  /\ pc[w] = "revokeTokens"
  /\ VoidLaunchers
  /\ Return(w)
  /\ UNCHANGED <<person, business, asg, history, changes>>

setApprovalRequired ==
  /\ Change /\ approvalRequired' = ~approvalRequired
  /\ UNCHANGED <<person, businessOn, archived, asg, toks, history, pc, loc>>

addMember ==
  /\ ~inGroup /\ status # "DELETED" /\ Change /\ inGroup' = TRUE
  /\ UNCHANGED <<status, member, access, business, asg, toks, history, pc, loc>>

removeMember(w) ==
  /\ pc[w] = "idle" /\ inGroup /\ Change /\ inGroup' = FALSE
  /\ Goto(w, "revokeTokens", NoLoc)
  /\ UNCHANGED <<status, member, access, business, asg, toks, history>>

-----------------------------------------------------------------------------
(* Members of the business, its computers, and time.                       *)

\* addUser(): the account has no membership, as read.  Its status stays.
addUser(w) ==
  /\ pc[w] = "idle" /\ member = "none" /\ Change
  /\ Goto(w, "addUser", NoLoc)
  /\ UNCHANGED <<person, business, asg, toks, history>>

\* An account has one membership (a unique index).
createMembership(w) ==
  /\ pc[w] = "addUser"
  /\ member' = IF member = "none" THEN "active" ELSE member
  /\ Return(w)
  /\ UNCHANGED <<status, access, inGroup, business, asg, toks, history, changes>>

\* suspend() and activate() write the account and then the membership they
\* read (account first), setUserActive() the other way round; resetPassword()
\* activates the account only.
setActive(w, on, first) ==
  /\ pc[w] = "idle" /\ member # "none" /\ Change
  /\ first = "alone" => on
  /\ Goto(w, IF first = "member" THEN "setMember" ELSE "setStatus",
          [NoLoc EXCEPT !.to = IF on THEN "active" ELSE "inactive", !.flag = first # "alone"])
  /\ UNCHANGED <<person, business, asg, toks, history>>

\* flag: the other row is still to be written.
setStatus(w) ==
  /\ pc[w] = "setStatus"
  /\ status' = IF loc[w].to = "active" THEN "ACTIVE" ELSE "SUSPENDED"
  /\ IF loc[w].flag THEN Goto(w, "setMember", [loc[w] EXCEPT !.flag = FALSE]) ELSE Return(w)
  /\ UNCHANGED <<member, access, inGroup, business, asg, toks, history, changes>>

\* The update names the row that was read: it throws when that row is gone,
\* also when the person has another one by now.
setMember(w) ==
  /\ pc[w] = "setMember"
  /\ \/ /\ member # "none" /\ member' = loc[w].to
        /\ IF loc[w].flag THEN Goto(w, "setStatus", [loc[w] EXCEPT !.flag = FALSE]) ELSE Return(w)
     \/ member' = member /\ Return(w)
  /\ UNCHANGED <<status, access, inGroup, business, asg, toks, history, changes>>

\* resetUserAccess(): one transaction, after the membership was read.
resetUserAccess(w) ==
  /\ pc[w] = "idle" /\ member # "none" /\ Change
  /\ Goto(w, "reset", NoLoc)
  /\ UNCHANGED <<person, business, asg, toks, history>>

invited(w) ==
  /\ pc[w] = "reset"
  /\ status' = "INVITED"
  /\ Return(w)
  /\ UNCHANGED <<member, access, inGroup, business, asg, toks, history, changes>>

\* removeUser() and remove(): the access rows, the membership, and the
\* account if it has no other.
removeUser(w) ==
  /\ pc[w] = "idle" /\ member # "none" /\ Change
  /\ Goto(w, "dropAccess", NoLoc)
  /\ UNCHANGED <<person, business, asg, toks, history>>

dropAccess(w) ==
  /\ pc[w] = "dropAccess"
  /\ access' = [e \in Computers |-> "none"]
  /\ Goto(w, "dropMember", NoLoc)
  /\ UNCHANGED <<status, member, inGroup, business, asg, toks, history, changes>>

\* Throws as setMember does.
dropMember(w) ==
  /\ pc[w] = "dropMember"
  /\ \/ member # "none" /\ member' = "none" /\ Goto(w, "count", NoLoc)
     \/ member' = member /\ Return(w)
  /\ UNCHANGED <<status, access, inGroup, business, asg, toks, history, changes>>

countMembers(w) ==
  /\ pc[w] = "count"
  /\ IF member = "none" THEN Goto(w, "dropAccount", NoLoc) ELSE Return(w)
  /\ UNCHANGED <<person, business, asg, toks, history, changes>>

dropAccount(w) ==
  /\ pc[w] = "dropAccount"
  /\ status' = "DELETED"
  /\ Return(w)
  /\ UNCHANGED <<member, access, inGroup, business, asg, toks, history, changes>>

\* grantAccess() looks the membership up first.
grantAccess(w, e) ==
  /\ pc[w] = "idle" /\ member = "active"
  /\ Goto(w, "grantAccess", [NoLoc EXCEPT !.e = e])
  /\ UNCHANGED <<person, business, asg, toks, history, changes>>

upsertAccess(w) ==
  /\ pc[w] = "grantAccess"
  /\ access' = [access EXCEPT ![loc[w].e] = "open"]
  /\ Return(w)
  /\ UNCHANGED <<status, member, inGroup, business, asg, toks, history, changes>>

revokeAccess(e) ==
  /\ access[e] # "none" /\ Change
  /\ access' = [access EXCEPT ![e] = "none"]
  /\ UNCHANGED <<status, member, inGroup, business, asg, toks, history, pc, loc>>

\* archive() of a computer also deletes its access rows, a statement later.
archive(w, e) ==
  /\ pc[w] = "idle" /\ e \notin archived /\ Change
  /\ archived' = archived \cup {e}
  /\ Goto(w, "delete", [NoLoc EXCEPT !.e = e])
  /\ UNCHANGED <<person, approvalRequired, businessOn, asg, toks, history>>

deleteAccess(w) ==
  /\ pc[w] = "delete"
  /\ access' = [access EXCEPT ![loc[w].e] = "none"]
  /\ Return(w)
  /\ UNCHANGED <<status, member, inGroup, business, asg, toks, history, changes>>

restore(e) ==
  /\ e \in archived /\ Change
  /\ archived' = archived \ {e}
  /\ UNCHANGED <<person, approvalRequired, businessOn, asg, toks, history, pc, loc>>

setBusiness ==
  /\ Change /\ businessOn' = ~businessOn
  /\ UNCHANGED <<person, approvalRequired, archived, asg, toks, history, pc, loc>>

\* revokeToken() of a launcher token writes whatever the row is by then.
revokeToken(t) ==
  /\ toks[t] # NoToken /\ toks[t].kind = "launcher" /\ ~toks[t].revoked /\ Change
  /\ toks' = [toks EXCEPT ![t].revoked = TRUE]
  /\ UNCHANGED <<person, business, asg, history, pc, loc>>

Moves == {<<"early", "open">>, <<"open", "shut">>, <<"shut", "open">>, <<"open", "over">>}

\* isWithinDates() and isWithinSchedule() of an assignment, as time passes.
passWindow(a, to) ==
  /\ asg[a] # NoAssignment /\ <<asg[a].window, to>> \in Moves /\ Change
  /\ asg' = [asg EXCEPT ![a].window = to]
  /\ UNCHANGED <<person, business, toks, history, pc, loc>>

\* computerAccessActive(): the row's end has come.
lapse(e) ==
  /\ access[e] = "open" /\ Change
  /\ access' = [access EXCEPT ![e] = "over"]
  /\ UNCHANGED <<status, member, inGroup, business, asg, toks, history, pc, loc>>

expireToken(t) ==
  /\ toks[t] # NoToken /\ ~toks[t].expired
  /\ toks' = [toks EXCEPT ![t].expired = TRUE]
  /\ UNCHANGED <<person, business, asg, history, changes, pc, loc>>

-----------------------------------------------------------------------------
(* Offboarding across the platform: execute(), statement by statement.     *)

execute(w, suspended) ==
  /\ pc[w] = "idle" /\ Change
  /\ member' = IF member = "active" THEN "inactive" ELSE member
  /\ Goto(w, IF suspended THEN "suspend" ELSE "clearAccess",
          [NoLoc EXCEPT !.old = Present(asg)])
  /\ UNCHANGED <<status, access, inGroup, business, asg, toks, history>>

suspendAccount(w) ==
  /\ pc[w] = "suspend"
  /\ status' = "SUSPENDED"
  /\ Step(w, "clearAccess")
  /\ UNCHANGED <<member, access, inGroup, business, asg, toks, history, changes>>

clearAccess(w) ==
  /\ pc[w] = "clearAccess"
  /\ access' = [e \in Computers |-> "none"]
  /\ Step(w, "endAssignments")
  /\ UNCHANGED <<status, member, inGroup, business, asg, toks, history, changes>>

\* Mutant: only assignments that give access now are revoked.
ended_Counting(a) == Counts(a)

\* The assignments that offboarding revokes.
ended(a) == a # NoAssignment /\ a.via = "DIRECT" /\ ~a.revoked

endAssignments(w) ==
  /\ pc[w] = "endAssignments"
  /\ asg' = [a \in Assignments |->
               IF ended(asg[a]) THEN [asg[a] EXCEPT !.revoked = TRUE] ELSE asg[a]]
  /\ Step(w, "leaveGroups")
  /\ UNCHANGED <<person, business, toks, history, changes>>

leaveGroups(w) ==
  /\ pc[w] = "leaveGroups"
  /\ inGroup' = FALSE
  /\ Step(w, "voidTokens")
  /\ UNCHANGED <<status, member, access, business, asg, toks, history, changes>>

voidTokens(w) ==
  /\ pc[w] = "voidTokens"
  /\ VoidLaunchers
  /\ Step(w, "expireGrants")
  /\ UNCHANGED <<person, business, asg, history, changes>>

expireGrants(w) ==
  /\ pc[w] = "expireGrants"
  /\ toks' = [t \in Tokens |->
                IF toks[t] # NoToken /\ toks[t].kind = "grant" /\ ~toks[t].used
                THEN [toks[t] EXCEPT !.expired = TRUE] ELSE toks[t]]
  /\ left' = left \cup loc[w].old
  /\ Return(w)
  /\ UNCHANGED <<person, business, asg, handed, changes>>

-----------------------------------------------------------------------------
Handler(w) ==
  \/ \E e \in Computers, k \in {"grant", "launcher"} : createConnectionGrant(w, k, e)
  \/ \E t \in Tokens : find(w, t)
  \/ user(w) \/ membership(w) \/ resolveExtras(w) \/ endpoint(w) \/ authorizeConnect(w)
  \/ canReachEndpoint(w) \/ mint(w) \/ claim(w) \/ refuse(w)

Manage(w) ==
  \/ \E via \in {"DIRECT", "GROUP"}, ends \in SUBSET Computers, own \in BOOLEAN :
       createAssignment(w, via, ends, own)
  \/ \E a \in Assignments, to \in {"APPROVED", "DENIED"}, ends \in SUBSET Computers,
        listed \in BOOLEAN : decide(w, a, to, ends, listed)
  \/ \E a \in Assignments : revokeAssignment(w, a)
  \/ assign(w) \/ recordDecision(w) \/ revoke(w) \/ revokeTokens(w)
  \/ removeMember(w)
  \/ \E e \in Computers : grantAccess(w, e) \/ archive(w, e)
  \/ upsertAccess(w) \/ deleteAccess(w)

People(w) ==
  \/ \E on \in BOOLEAN, first \in {"account", "member", "alone"} : setActive(w, on, first)
  \/ setStatus(w) \/ setMember(w)
  \/ addUser(w) \/ createMembership(w) \/ resetUserAccess(w) \/ invited(w)
  \/ removeUser(w) \/ dropAccess(w) \/ dropMember(w) \/ countMembers(w) \/ dropAccount(w)

Offboard(w) ==
  \/ \E suspended \in BOOLEAN : execute(w, suspended)
  \/ suspendAccount(w) \/ clearAccess(w) \/ endAssignments(w) \/ leaveGroups(w)
  \/ voidTokens(w) \/ expireGrants(w)

Environment ==
  \/ setApprovalRequired \/ addMember \/ setBusiness
  \/ \E e \in Computers : revokeAccess(e) \/ restore(e) \/ lapse(e)
  \/ \E a \in Assignments, to \in Windows : passWindow(a, to)
  \/ \E t \in Tokens : revokeToken(t) \/ expireToken(t)

\* Keeps `stale' up to date: what was untrue when a redemption began and has
\* been ever since.
Witness ==
  stale' = [w \in Workers |->
              CASE loc'[w].t = NoId -> {}
                [] loc[w].t = NoId  -> Untrue(w)'
                [] OTHER            -> stale[w] \cap Untrue(w)']

Next ==
  /\ Environment \/ \E w \in Workers : Handler(w) \/ Manage(w) \/ People(w) \/ Offboard(w)
  /\ Witness

Spec == Init /\ [][Next]_vars

-----------------------------------------------------------------------------
(* Properties.                                                             *)

TypeOK ==
  /\ status \in {"INVITED", "ACTIVE", "SUSPENDED", "DELETED"}
  /\ member \in {"none", "active", "inactive"}
  /\ access \in [Computers -> {"none", "open", "over"}] /\ inGroup \in BOOLEAN
  /\ approvalRequired \in BOOLEAN /\ businessOn \in BOOLEAN /\ archived \in SUBSET Computers
  /\ asg \in [Assignments -> Assignment \cup {NoAssignment}]
  /\ toks \in [Tokens -> Token \cup {NoToken}]
  /\ handed \in [Tokens -> Nat] /\ left \in SUBSET Assignments
  /\ stale \in [Workers -> SUBSET Facts] /\ changes \in 0..MaxChanges
  /\ pc \in [Workers -> PCs] /\ loc \in [Workers -> Locals]

Standing(t) ==
  CASE t = NoToken -> "none"
    [] t # NoToken /\ t.used -> "spent"
    [] t # NoToken /\ ~t.used /\ t.revoked -> "void"
    [] OTHER -> "live"

\* Grants and launcher tokens are single use: claims, revocations and refusals
\* of several requests together never hand out more than SingleUse allows.
Abstract == INSTANCE SingleUse WITH status <- [t \in Tokens |-> Standing(toks[t])]
ImplementsSingleUse == Abstract!Spec

\* Redemption re-runs authorization: a connection is only handed out when
\* every fact it rests on was true at some moment since the request arrived,
\* whatever the token was minted on.
RedeemedWasAuthorized ==
  [][\A w \in Workers :
       pc[w] = "claim" /\ handed'[loc[w].t] # handed[loc[w].t] =>
         /\ {"user", "business", "endpoint"} \cap stale[w] = {}
         /\ \/ {"member", "access"} \cap stale[w] = {}
            \/ "scope" \notin stale[w]]_vars

\* decide() decides once, and what it decided or revoked is final: nothing
\* makes an assignment count again that was denied or revoked.
DecisionsStand ==
  [][\A a \in Assignments :
       asg[a] # NoAssignment =>
         /\ asg[a].approval # "PENDING" => asg'[a].approval = asg[a].approval
         /\ asg[a].revoked => asg'[a].revoked]_vars

\* Offboarding is final: an assignment the person held when it began never
\* counts once it is done, not even one approved while it ran.
OffboardedStaysOut ==
  \A a \in left : asg[a].via = "DIRECT" => ~Counts(asg[a])

\* An assignment is in force at the minutes of the week its windows cover,
\* whichever windows it was given.
ScheduleMatchesClock == Present(asg) # {} => WindowsMatchClock
=============================================================================
