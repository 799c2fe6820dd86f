----------------------------- MODULE Enrollment -----------------------------
(***************************************************************************)
(* How a computer comes to be known: claim tokens and the claims that      *)
(* redeem them, computers that heartbeat in on their own                   *)
(* (apps/api/src/enrollment/enrollment.service.ts), and computers that an  *)
(* administrator types in (endpoints.service.ts, create).                  *)
(*                                                                         *)
(* A worker is one request in flight; every database statement is atomic,  *)
(* may fail, and other requests run between two of them.  There is no      *)
(* transaction around a claim: what it wrote before it failed stays.       *)
(*                                                                         *)
(* An endpoint row is named by the number of the request that created it,  *)
(* 0 is none.  A node row is found by its RustDesk ID, which an upsert may *)
(* change, or by its id, which nothing changes: the endpoint it belongs to *)
(* and the request that created it.  Secrets are numbers, 0 for none.      *)
(* What a token says about the computer (business, group, users) is copied *)
(* and never read back, so only its endpoint is kept.  The operator's way  *)
(* of binding a secret, acceptDeviceSecret, is in DeviceCredentials.       *)
(***************************************************************************)
EXTENDS Naturals

CONSTANTS
  Ids,          \* RustDesk IDs
  Tokens,       \* claim tokens
  Workers,      \* requests that may be in flight together
  MaxSecrets,   \* bound on the device secrets
  MaxRequests   \* bound on the requests that may create a row

ASSUME EnrollmentAssumption ==
  MaxSecrets \in Nat \ {0} /\ MaxRequests \in Nat /\ "none" \notin Ids \cup Tokens

VARIABLES
  rows,      \* the endpoint rows there are
  node,      \* the RustdeskNode row of each RustDesk ID
  tok,       \* the DeviceClaimToken rows
  handed,    \* history: how often a claim with the token was answered with 200
  requests,  \* how many requests were made
  pc,        \* where each worker is
  loc        \* its locals

database == <<rows, node, tok>>
vars     == <<database, handed, requests, pc, loc>>

Rows    == 1..MaxRequests
Secrets == 0..MaxSecrets

\* ep, by: its endpoint and the request that created it; tenant: the node
\* belongs to an account and is not in the pending pool.
Node   == [ep : Rows \cup {0}, by : Rows \cup {0}, tenant : BOOLEAN, secret : Secrets]
NoNode == [ep |-> 0, by |-> 0, tenant |-> FALSE, secret |-> 0]

Token   == [status : {"none", "live", "gone"}, target : Rows \cup {0},
            claimed : BOOLEAN, expired : BOOLEAN]
NoToken == [status |-> "none", target |-> 0, claimed |-> FALSE, expired |-> FALSE]

\* A claim that has consumed its token and has not answered.
ClaimPCs == {"node", "adopt", "activate", "recordAdopted", "reread", "drop", "dropEndpoint",
             "load", "update", "create", "upsert", "assign", "record", "handBack"}
PCs == {"idle", "consume", "pool", "poolNode", "typeIn", "delete"} \cup ClaimPCs

\* n: the number of the request; t, id, secret: what it names; target: the
\* token's endpoint as read; ep: the endpoint it works on; seen: the node as
\* read.
Locals == [n : 0..MaxRequests, t : Tokens \cup {"none"}, id : Ids \cup {"none"},
           secret : Secrets, target : Rows \cup {0}, ep : Rows \cup {0}, seen : Node]
NoLoc  == [n |-> 0, t |-> "none", id |-> "none", secret |-> 0, target |-> 0, ep |-> 0,
           seen |-> NoNode]

Init ==
  /\ rows = {}
  /\ node = [id \in Ids |-> NoNode]
  /\ tok = [t \in Tokens |-> NoToken]
  /\ handed = [t \in Tokens |-> 0]
  /\ requests = 0
  /\ pc = [w \in Workers |-> "idle"]
  /\ loc = [w \in Workers |-> NoLoc]

Goto(w, p)   == pc' = [pc EXCEPT ![w] = p] /\ UNCHANGED loc
Return(w)    == pc' = [pc EXCEPT ![w] = "idle"] /\ loc' = [loc EXCEPT ![w] = NoLoc]

\* A new request, at program point p.
Begin(w, p, l) ==
  /\ pc[w] = "idle"
  /\ requests < MaxRequests
  /\ requests' = requests + 1
  /\ pc' = [pc EXCEPT ![w] = p]
  /\ loc' = [loc EXCEPT ![w] = [l EXCEPT !.n = requests + 1]]

-----------------------------------------------------------------------------
(* Tokens.                                                                 *)

\* For a computer that is known, or for one that is not yet.
createClaimToken(t, target) ==
  /\ tok[t].status = "none"
  /\ target \in rows \cup {0}
  /\ tok' = [tok EXCEPT ![t] = [NoToken EXCEPT !.status = "live", !.target = target]]
  /\ UNCHANGED <<rows, node, handed, requests, pc, loc>>

expire(t) ==
  /\ tok[t].status = "live" /\ ~tok[t].expired
  /\ tok' = [tok EXCEPT ![t].expired = TRUE]
  /\ UNCHANGED <<rows, node, handed, requests, pc, loc>>

\* revokeClaimToken(): not when claimed, as read.
revokeClaimToken(w, t) ==
  /\ pc[w] = "idle"
  /\ tok[t].status = "live" /\ ~tok[t].claimed
  /\ pc' = [pc EXCEPT ![w] = "delete"]
  /\ loc' = [loc EXCEPT ![w] = [NoLoc EXCEPT !.t = t]]
  /\ UNCHANGED <<database, handed, requests>>

\* The delete is by id only.
delete(w) ==
  /\ pc[w] = "delete"
  /\ tok' = IF tok[loc[w].t].status = "live"
            THEN [tok EXCEPT ![loc[w].t].status = "gone"] ELSE tok
  /\ Return(w)
  /\ UNCHANGED <<rows, node, handed, requests>>

-----------------------------------------------------------------------------
(* claimEndpoint().                                                        *)

Redeemable(t) == tok[t].status = "live" /\ ~tok[t].claimed /\ ~tok[t].expired

\* The token is read and refused at once, or its endpoint remembered.
claimEndpoint(w, t, id, secret) ==
  /\ Redeemable(t)
  /\ Begin(w, "consume", [NoLoc EXCEPT !.t = t, !.id = id, !.secret = secret,
                                       !.target = tok[t].target])
  /\ UNCHANGED <<database, handed>>

\* Mutant: the token is marked whoever marked it before.
consume_Unchecked(w) ==
  LET t == loc[w].t IN
  /\ pc[w] = "consume"
  /\ IF tok[t].status = "live" /\ ~tok[t].expired
     THEN tok' = [tok EXCEPT ![t].claimed = TRUE] /\ Goto(w, "node")
     ELSE UNCHANGED tok /\ Return(w)
  /\ UNCHANGED <<rows, node, handed, requests>>

\* "A conditional update is the single-use guarantee; the reads above only
\* pick the error message."
consume(w) ==
  LET t == loc[w].t IN
  /\ pc[w] = "consume"
  /\ IF Redeemable(t)
     THEN tok' = [tok EXCEPT ![t].claimed = TRUE] /\ Goto(w, "node")
     ELSE UNCHANGED tok /\ Return(w)
  /\ UNCHANGED <<rows, node, handed, requests>>

\* Mutant: the token is left as it is.
handBack_Keep(w) ==
  /\ pc[w] = "handBack"
  /\ Return(w)
  /\ UNCHANGED <<database, handed, requests>>

\* The claim failed: the token may be used again.
handBack(w) ==
  LET t == loc[w].t IN
  /\ pc[w] = "handBack"
  /\ tok' = IF tok[t].status = "live" THEN [tok EXCEPT ![t].claimed = FALSE] ELSE tok
  /\ Return(w)
  /\ UNCHANGED <<rows, node, handed, requests>>

\* The very computer this token was minted for.
reEnrolling(seen, target) == seen # NoNode /\ target # 0 /\ seen.ep = target

\* Mutant: the pending pool is open to every token.
Route_NoProof(seen, target, secret) ==
  IF seen = NoNode \/ reEnrolling(seen, target) THEN "load"
  ELSE IF seen.tenant THEN "handBack"
  ELSE IF target = 0 THEN "adopt" ELSE "drop"

\* Where a claim goes once it knows the node.  A node of an account is never
\* taken over, and one of the pending pool only by who proves its secret.
Route(seen, target, secret) ==
  IF seen = NoNode \/ reEnrolling(seen, target) THEN "load"
  ELSE IF seen.tenant \/ (seen.secret # 0 /\ secret # seen.secret) THEN "handBack"
  ELSE IF target = 0 THEN "adopt" ELSE "drop"

readNode(w) ==
  LET l == loc[w]  seen == node[l.id] IN
  /\ pc[w] = "node"
  /\ pc' = [pc EXCEPT ![w] = Route(seen, l.target, l.secret)]
  /\ loc' = [loc EXCEPT ![w].seen = seen, ![w].ep = seen.ep]
  /\ UNCHANGED <<database, handed, requests>>

\* One statement of a claim: it goes on to p, or throws.
Statement(w, at, works, p) ==
  /\ pc[w] = at
  /\ Goto(w, IF works THEN p ELSE "handBack")
  /\ UNCHANGED <<handed, requests>>

\* Where the node row that was read is now: its RustDesk ID may have changed.
RowOf(seen) == {id \in Ids : node[id].ep = seen.ep /\ node[id].by = seen.by}

Bound(l, row) == IF l.secret # 0 THEN [row EXCEPT !.secret = l.secret] ELSE row

\* Adopt: the node, its endpoint, the token, each by id.
adopt(w) ==
  LET l == loc[w]  found == RowOf(l.seen) IN
  /\ Statement(w, "adopt", found # {}, "activate")
  /\ node' = [id \in Ids |-> IF id \in found THEN Bound(l, [node[id] EXCEPT !.tenant = TRUE])
                             ELSE node[id]]
  /\ UNCHANGED <<rows, tok>>

activate(w) ==
  /\ Statement(w, "activate", loc[w].ep \in rows, "recordAdopted")
  /\ UNCHANGED database

\* What the token enrolled, while both rows are there.
Recordable(w) == tok[loc[w].t].status = "live" /\ loc[w].ep \in rows
Recorded(w) ==
  tok' = IF Recordable(w) THEN [tok EXCEPT ![loc[w].t].target = loc[w].ep] ELSE tok

recordAdopted(w) ==
  /\ Statement(w, "recordAdopted", Recordable(w), "reread")
  /\ Recorded(w)
  /\ UNCHANGED <<rows, node>>

Answer(w) ==
  /\ Return(w)
  /\ handed' = [handed EXCEPT ![loc[w].t] = @ + 1]
  /\ UNCHANGED requests

reread(w) ==
  /\ pc[w] = "reread"
  /\ Answer(w)
  /\ UNCHANGED database

\* The unassigned duplicate is deleted, each row by id: the node, then the
\* endpoint, which takes a node it has got since with it; tokens that named
\* it name none.
drop(w) ==
  LET found == RowOf(loc[w].seen) IN
  /\ Statement(w, "drop", found # {}, "dropEndpoint")
  /\ node' = [id \in Ids |-> IF id \in found THEN NoNode ELSE node[id]]
  /\ UNCHANGED <<rows, tok>>

dropEndpoint(w) ==
  LET ep == loc[w].ep IN
  /\ Statement(w, "dropEndpoint", ep \in rows, "load")
  /\ rows' = rows \ {ep}
  /\ node' = [id \in Ids |-> IF node[id].ep = ep THEN NoNode ELSE node[id]]
  /\ tok' = [t \in Tokens |-> IF tok[t].target = ep THEN [tok[t] EXCEPT !.target = 0] ELSE tok[t]]

\* The token's endpoint is updated, or a new one is created.
load(w) ==
  LET l == loc[w]  known == l.target \in rows IN
  /\ pc[w] = "load"
  /\ pc' = [pc EXCEPT ![w] = IF known THEN "update" ELSE "create"]
  /\ loc' = [loc EXCEPT ![w].ep = IF known THEN l.target ELSE l.n]
  /\ UNCHANGED <<database, handed, requests>>

update(w) ==
  /\ Statement(w, "update", loc[w].ep \in rows, "upsert")
  /\ UNCHANGED database

create(w) ==
  /\ Statement(w, "create", TRUE, "upsert")
  /\ rows' = rows \cup {loc[w].ep}
  /\ UNCHANGED <<node, tok>>

\* Both columns of a node are unique: its endpoint and its RustDesk ID.
Taken(id, ep) == node[id] # NoNode /\ node[id].ep # ep

\* The node of the endpoint is updated, its RustDesk ID too, or created.
upsert(w) ==
  LET l    == loc[w]
      mine == {id \in Ids : node[id].ep = l.ep}
      ok   == l.ep \in rows /\ ~Taken(l.id, l.ep)
      row  == IF mine # {} THEN node[CHOOSE id \in mine : TRUE]
              ELSE [ep |-> l.ep, by |-> l.n, tenant |-> TRUE, secret |-> 0]
  IN
  /\ Statement(w, "upsert", ok, "assign")
  /\ node' = IF ok THEN [id \in Ids |-> IF id = l.id THEN Bound(l, row)
                                        ELSE IF id \in mine THEN NoNode ELSE node[id]]
             ELSE node
  /\ UNCHANGED <<rows, tok>>

\* The users of the token, if it names any, get access, which refers to the
\* endpoint.
assign(w) ==
  /\ \E users \in BOOLEAN : Statement(w, "assign", users => loc[w].ep \in rows, "record")
  /\ UNCHANGED database

record(w) ==
  /\ pc[w] = "record"
  /\ Recorded(w)
  /\ IF Recordable(w) THEN Answer(w)
     ELSE Goto(w, "handBack") /\ UNCHANGED <<handed, requests>>
  /\ UNCHANGED <<rows, node>>

-----------------------------------------------------------------------------
(* Computers without a token.                                              *)

\* heartbeat() of an unknown computer: an endpoint and a node in the pool.
heartbeat(w, id, secret) ==
  /\ node[id] = NoNode /\ secret # 0
  /\ Begin(w, "pool", [NoLoc EXCEPT !.id = id, !.secret = secret])
  /\ UNCHANGED <<database, handed>>

poolEndpoint(w) ==
  /\ pc[w] = "pool"
  /\ rows' = rows \cup {loc[w].n}
  /\ Goto(w, "poolNode")
  /\ UNCHANGED <<node, tok, handed, requests>>

\* By then a token minted for the new endpoint may have got it a node.
poolNode(w) ==
  LET l    == loc[w]
      free == l.n \in rows /\ node[l.id] = NoNode /\ \A id \in Ids : node[id].ep # l.n
  IN
  /\ pc[w] = "poolNode"
  /\ node' = IF free
             THEN [node EXCEPT ![l.id] = [ep |-> l.n, by |-> l.n, tenant |-> FALSE,
                                          secret |-> l.secret]]
             ELSE node
  /\ Return(w)
  /\ UNCHANGED <<rows, tok, handed, requests>>

\* endpoints.create() with a RustDesk ID, by an administrator: both rows in
\* one nested create, without a secret.
typeIn(w, id) ==
  /\ node[id] = NoNode
  /\ Begin(w, "typeIn", [NoLoc EXCEPT !.id = id])
  /\ UNCHANGED <<database, handed>>

typedIn(w) ==
  LET l == loc[w]  free == node[l.id] = NoNode IN
  /\ pc[w] = "typeIn"
  /\ node' = IF free THEN [node EXCEPT ![l.id] = [ep |-> l.n, by |-> l.n, tenant |-> TRUE, secret |-> 0]]
             ELSE node
  /\ rows' = IF free THEN rows \cup {l.n} ELSE rows
  /\ Return(w)
  /\ UNCHANGED <<tok, handed, requests>>

-----------------------------------------------------------------------------
\* A statement fails for a reason of its own (the connection, a timeout).
\* The one that hands the token back is taken to succeed.
dbError(w) ==
  /\ pc[w] \notin {"idle", "handBack"}
  /\ IF pc[w] \in ClaimPCs THEN Goto(w, "handBack") ELSE Return(w)
  /\ UNCHANGED <<database, handed, requests>>

Continue(w) ==
  \/ delete(w) \/ consume(w) \/ handBack(w) \/ readNode(w)
  \/ adopt(w) \/ activate(w) \/ recordAdopted(w) \/ reread(w)
  \/ drop(w) \/ dropEndpoint(w) \/ load(w) \/ update(w) \/ create(w)
  \/ upsert(w) \/ assign(w) \/ record(w)
  \/ poolEndpoint(w) \/ poolNode(w) \/ typedIn(w)
  \/ dbError(w)

Next ==
  \/ \E t \in Tokens : expire(t) \/ \E target \in Rows \cup {0} : createClaimToken(t, target)
  \/ \E w \in Workers :
       \/ Continue(w)
       \/ \E t \in Tokens : revokeClaimToken(w, t)
       \/ \E t \in Tokens, id \in Ids, secret \in Secrets : claimEndpoint(w, t, id, secret)
       \/ \E id \in Ids, secret \in Secrets : heartbeat(w, id, secret)
       \/ \E id \in Ids : typeIn(w, id)

Spec == Init /\ [][Next]_vars

-----------------------------------------------------------------------------
(* Properties.                                                             *)

TypeOK ==
  /\ rows \subseteq Rows
  /\ node \in [Ids -> Node]
  /\ tok \in [Tokens -> Token]
  /\ handed \in [Tokens -> Nat]
  /\ requests \in 0..MaxRequests
  /\ pc \in [Workers -> PCs]
  /\ loc \in [Workers -> Locals]

\* The claims that work with a token.
Holders(t) == {w \in Workers : pc[w] \in ClaimPCs /\ loc[w].t = t}

\* However many installers race with one token, and however often a failed
\* claim hands it back: one claim at a time works with it, one is answered
\* with 200, and none works with it after that.
ClaimsAreSingleUse ==
  \A t \in Tokens :
    /\ handed[t] <= 1
    /\ \A w \in Holders(t) : handed[t] = 0 /\ Holders(t) = {w}

\* "Hand the token back so the operator is not forced to mint another": a
\* token counts as used only while a claim works with it or after one was
\* answered, whichever statement of whichever claim failed.
NoTokenIsLost ==
  \A t \in Tokens :
    tok[t].status = "live" /\ tok[t].claimed => handed[t] = 1 \/ Holders(t) # {}

\* The secret a computer is bound to, under whatever RustDesk ID it has, is
\* replaced or removed only by a claim that proved the secret that computer
\* had when the claim looked, whose token an operator minted for that very
\* computer, or that created its row: however computers are adopted, renamed,
\* bound anew and deleted between the look and the update or delete by id.
\* It is the computer that was proved, not the RustDesk ID it goes by since.
IdentityIsProved ==
  [][\A id \in Ids :
       node[id].secret # 0 /\ node'[id].secret # node[id].secret =>
         \E w \in Workers :
           /\ pc[w] \in ClaimPCs /\ pc'[w] # pc[w]
           /\ \/ loc[w].seen.ep = node[id].ep /\ loc[w].secret = loc[w].seen.secret
              \/ node[id].ep \in {loc[w].target, loc[w].n}]_vars
=============================================================================
