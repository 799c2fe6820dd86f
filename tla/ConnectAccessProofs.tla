------------------------- MODULE ConnectAccessProofs -------------------------
(***************************************************************************)
(* Theorems about ConnectAccess, for every set of computers, assignments,  *)
(* tokens and handlers and every bound.                                    *)
(***************************************************************************)
EXTENDS ConnectAccess, TLAPS

-----------------------------------------------------------------------------
(* The inductive invariant.                                                *)

\* The statements of minting and redeeming.
Authorizing == {"user", "member", "scope", "endpoint", "business", "reach", "mint", "claim",
                "refuse"}

\* What a request at p with the locals l may rely on, given the tokens and
\* the assignments.
Fits(p, l, tk, as) ==
  /\ p \in PCs /\ l \in Locals
  /\ l.t # NoId => p \in Authorizing /\ tk[l.t] # NoToken
  /\ p \in Authorizing \cup {"grantAccess", "delete"} => l.e \in Computers
  /\ p \in Authorizing /\ l.t = NoId => l.kind # "none"
  /\ p \in {"user", "member", "scope"} => l.to # "active"
  /\ p \in {"claim", "refuse"} => l.t # NoId
  /\ p = "refuse" => tk[l.t].kind = "launcher"
  /\ p = "mint" => l.t = NoId
  /\ p = "assign" => l.to \in {"DIRECT", "GROUP"}
  /\ p \in {"decide", "revoke"} => l.a \in Assignments /\ as[l.a] # NoAssignment
  /\ p = "decide" => l.to \in {"APPROVED", "DENIED"}
  /\ p \in {"setStatus", "setMember"} => l.to \in {"active", "inactive"}
  /\ \A a \in l.old : as[a] # NoAssignment
  /\ p \in {"leaveGroups", "voidTokens", "expireGrants"} =>
       \A a \in l.old : as[a].via = "DIRECT" => as[a].revoked

\* What a redemption has made sure of: s are the facts untrue all along.
Sure(p, l, s) ==
  l.t # NoId =>
    /\ p \in Authorizing \ {"user", "refuse"} => "user" \notin s
    /\ p \in {"endpoint", "business", "reach"} /\ l.to = "active" => "member" \notin s
    /\ p \in {"endpoint", "business"} /\ l.to # "active" /\ l.e \in l.ends => "scope" \notin s
    /\ p = "business" /\ ~l.flag => "endpoint" \notin s
    /\ p = "reach" => l.to = "active"
    /\ p \in {"reach", "claim"} => "business" \notin s /\ "endpoint" \notin s
    /\ p = "claim" => \/ "member" \notin s /\ "access" \notin s
                      \/ "scope" \notin s

\* A token that was not used bought nothing, and grants are never revoked.
TokInv ==
  \A t \in Tokens :
    /\ toks[t] = NoToken => handed[t] = 0
    /\ toks[t] # NoToken => /\ ~toks[t].used => handed[t] = 0
                            /\ toks[t].kind = "grant" => ~toks[t].revoked

\* What offboarding found is revoked when it is done.
LeftInv ==
  \A a \in left : asg[a] # NoAssignment /\ (asg[a].via = "DIRECT" => asg[a].revoked)

IInv ==
  /\ TypeOK /\ TokInv /\ LeftInv
  /\ \A w \in Workers : Fits(pc[w], loc[w], toks, asg) /\ Sure(pc[w], loc[w], stale[w])

-----------------------------------------------------------------------------
(* Assignments.                                                            *)

AsgType == [Assignments -> Assignment \cup {NoAssignment}]

\* What may become of an assignment: it stays there for the same person or
\* group, and what was decided or revoked stays so.
AsgStep(p, q) ==
  p # NoAssignment =>
    /\ q # NoAssignment /\ q.via = p.via
    /\ p.revoked => q.revoked
    /\ p.approval # "PENDING" => q.approval = p.approval

AsgKept == asg' \in AsgType /\ \A a \in Assignments : AsgStep(asg[a], asg'[a])

\* A row is an assignment or no row, never both.
LEMMA AsgRows ==
  ASSUME IInv
  PROVE  /\ asg \in AsgType /\ NoAssignment \notin Assignment
         /\ \A a \in Assignments : asg[a] # NoAssignment => asg[a] \in Assignment
  BY DEF IInv, TypeOK, AsgType, NoAssignment, Assignment

\* Nothing happens to assignments.
LEMMA AsgSame ==
  ASSUME IInv, asg' = asg
  PROVE  AsgKept
  BY AsgRows DEF AsgKept, AsgStep

\* One assignment is changed.
LEMMA AsgOne ==
  ASSUME IInv, NEW x \in Assignments, NEW row \in Assignment,
         AsgStep(asg[x], row), asg' = [asg EXCEPT ![x] = row]
  PROVE  AsgKept
  BY AsgRows DEF AsgKept, AsgStep, AsgType

\* What is done to members touches no assignment, group, business or token.
LEMMA PeopleQuiet ==
  ASSUME NEW w \in Workers, People(w)
  PROVE  UNCHANGED <<inGroup, business, asg, toks, history>> /\ (changes' = changes \/ Change)
  BY DEF People, setActive, setStatus, setMember, addUser, createMembership, resetUserAccess, invited,
         removeUser, dropAccess, dropMember, countMembers, dropAccount, person

\* Every step does no more than that.
LEMMA AsgMoves ==
  ASSUME IInv, Next
  PROVE  AsgKept
  <1>1. ASSUME NEW w \in Workers, Handler(w) PROVE AsgKept
    <2>1. asg' = asg
      BY <1>1 DEF Handler, createConnectionGrant, find, user, membership, resolveExtras, endpoint,
                  authorizeConnect, canReachEndpoint, mint, claim, refuse
    <2>2. QED
      BY <2>1, AsgSame
  <1>2. ASSUME NEW w \in Workers, Manage(w) PROVE AsgKept
    <2>0. Fits(pc[w], loc[w], toks, asg) /\ loc[w] \in Locals
      BY DEF IInv, TypeOK
    <2>1. CASE assign(w)
      <3>1. PICK a \in Assignments, window \in {"early", "open"} :
              /\ asg[a] = NoAssignment
              /\ asg' = [asg EXCEPT ![a] =
                   [via |-> loc[w].to, ends |-> loc[w].ends, revoked |-> FALSE, window |-> window,
                    approval |-> IF loc[w].flag THEN "PENDING" ELSE "NOT_REQUIRED"]]
        BY <2>1 DEF assign
      <3> DEFINE row == [via |-> loc[w].to, ends |-> loc[w].ends, revoked |-> FALSE, window |-> window,
                         approval |-> IF loc[w].flag THEN "PENDING" ELSE "NOT_REQUIRED"]
      <3>2. loc[w].to \in {"DIRECT", "GROUP"} /\ loc[w].ends \in SUBSET Computers
        BY <2>0, <2>1 DEF assign, Fits, Locals
      <3>3. row \in Assignment
        BY <3>2 DEF Assignment, Windows
      <3> HIDE DEF row
      <3>4. QED
        BY <3>1, <3>3, AsgOne DEF AsgStep, row
    <2>2. CASE recordDecision(w)
      <3> DEFINE l == loc[w]
      <3>1. /\ l.a \in Assignments /\ asg[l.a] \in Assignment /\ l.to \in {"APPROVED", "DENIED"}
            /\ l.ends \in SUBSET Computers
        BY <2>0, <2>2, AsgRows DEF recordDecision, Fits, Locals
      <3>2. CASE asg[l.a].approval = "PENDING"
        <4> DEFINE row == [asg[l.a] EXCEPT !.approval = l.to,
                                           !.ends = IF l.flag THEN l.ends ELSE asg[l.a].ends]
        <4>1. asg' = [asg EXCEPT ![l.a] = row]
          BY <2>2, <3>1, <3>2, AsgRows DEF recordDecision, decided, AsgType
        <4>2. row \in Assignment /\ row.via = asg[l.a].via /\ row.revoked = asg[l.a].revoked
          BY <3>1 DEF Assignment
        <4>3. row # NoAssignment
          BY <4>2, AsgRows
        <4> HIDE DEF row, l
        <4>4. QED
          BY <3>1, <3>2, <4>1, <4>2, <4>3, AsgOne DEF AsgStep
      <3>3. CASE asg[l.a].approval # "PENDING"
        BY <2>2, <3>3, AsgSame DEF recordDecision, decided
      <3>4. QED
        BY <3>2, <3>3
    <2>3. CASE revoke(w)
      <3> DEFINE x   == loc[w].a
                 row == [asg[x] EXCEPT !.revoked = TRUE]
      <3>1. x \in Assignments /\ asg[x] \in Assignment
        BY <2>0, <2>3, AsgRows DEF revoke, Fits
      <3>2. asg' = [asg EXCEPT ![x] = row]
        BY <2>3, <3>1, AsgRows DEF revoke, AsgType
      <3>3. /\ row \in Assignment /\ row.via = asg[x].via /\ row.revoked
            /\ row.approval = asg[x].approval
        BY <3>1 DEF Assignment
      <3>4. row # NoAssignment
        BY <3>3, AsgRows
      <3> HIDE DEF row, x
      <3>5. QED
        BY <3>1, <3>2, <3>3, <3>4, AsgOne DEF AsgStep
    <2>4. CASE asg' = asg
      BY <2>4, AsgSame
    <2>5. QED
      BY <1>2, <2>1, <2>2, <2>3, <2>4
         DEF Manage, createAssignment, decide, revokeAssignment, revokeTokens, removeMember,
             grantAccess, archive, upsertAccess, deleteAccess
  <1>3. ASSUME NEW w \in Workers, Offboard(w) PROVE AsgKept
    <2>1. CASE endAssignments(w)
      <3>1. asg' = [a \in Assignments |->
                      IF ended(asg[a]) THEN [asg[a] EXCEPT !.revoked = TRUE] ELSE asg[a]]
        BY <2>1 DEF endAssignments
      <3>2. ASSUME NEW a \in Assignments, asg[a] # NoAssignment
            PROVE  /\ [asg[a] EXCEPT !.revoked = TRUE] \in Assignment
                   /\ [asg[a] EXCEPT !.revoked = TRUE].via = asg[a].via
                   /\ [asg[a] EXCEPT !.revoked = TRUE].revoked
                   /\ [asg[a] EXCEPT !.revoked = TRUE].approval = asg[a].approval
        <4>1. asg[a] \in Assignment
          BY <3>2, AsgRows
        <4>2. QED
          BY <4>1 DEF Assignment
      <3>3. ASSUME NEW a \in Assignments
            PROVE  asg'[a] \in Assignment \cup {NoAssignment} /\ AsgStep(asg[a], asg'[a])
        <4>1. CASE ended(asg[a])
          <5>1. asg[a] # NoAssignment /\ asg'[a] = [asg[a] EXCEPT !.revoked = TRUE]
            BY <3>1, <4>1 DEF ended
          <5>2. asg'[a] # NoAssignment
            BY <3>2, <5>1, AsgRows
          <5>3. QED
            BY <3>2, <5>1, <5>2 DEF AsgStep
        <4>2. CASE ~ended(asg[a])
          BY <3>1, <4>2, AsgRows DEF AsgStep, AsgType
        <4>3. QED
          BY <4>1, <4>2
      <3>4. QED
        BY <3>1, <3>3 DEF AsgKept, AsgType
    <2>2. CASE asg' = asg
      BY <2>2, AsgSame
    <2>3. QED
      BY <1>3, <2>1, <2>2 DEF Offboard, execute, suspendAccount, clearAccess, leaveGroups, voidTokens,
                              expireGrants
  <1>4. CASE Environment
    <2>1. ASSUME NEW x \in Assignments, NEW to \in Windows, passWindow(x, to) PROVE AsgKept
      <3> DEFINE row == [asg[x] EXCEPT !.window = to]
      <3>1. asg[x] \in Assignment /\ asg' = [asg EXCEPT ![x] = row]
        BY <2>1, AsgRows DEF passWindow, AsgType
      <3>2. /\ row \in Assignment /\ row.via = asg[x].via /\ row.revoked = asg[x].revoked
            /\ row.approval = asg[x].approval
        BY <3>1 DEF Assignment
      <3>3. row # NoAssignment
        BY <3>2, AsgRows
      <3> HIDE DEF row
      <3>4. QED
        BY <3>1, <3>2, <3>3, AsgOne DEF AsgStep
    <2>2. CASE asg' = asg
      BY <2>2, AsgSame
    <2>3. QED
      BY <1>4, <2>1, <2>2 DEF Environment, setApprovalRequired, addMember, setBusiness,
                              revokeAccess, restore, lapse, revokeToken, expireToken
  <1>5. ASSUME NEW w \in Workers, People(w) PROVE AsgKept
    BY <1>5, PeopleQuiet, AsgSame
  <1>6. QED
    BY <1>1, <1>2, <1>3, <1>4, <1>5 DEF Next

-----------------------------------------------------------------------------
(* Tokens.                                                                 *)

TokType == [Tokens -> Token \cup {NoToken}]

\* Everything a step may do to tokens.
TokMove ==
  \/ UNCHANGED <<toks, handed>>
  \/ /\ \E t \in Tokens, row \in Token :
          /\ toks[t] = NoToken /\ ~row.used /\ ~row.revoked
          /\ toks' = [toks EXCEPT ![t] = row]
     /\ UNCHANGED handed
  \/ \E t \in Tokens :
       /\ toks[t] # NoToken /\ claimable(toks[t])
       /\ toks' = [toks EXCEPT ![t] = [toks[t] EXCEPT !.used = TRUE]]
       /\ handed' = [handed EXCEPT ![t] = handed[t] + 1]
  \/ /\ \E S \in SUBSET {t \in Tokens : toks[t] # NoToken /\ toks[t].kind = "launcher"} :
          toks' = [t \in Tokens |-> IF t \in S THEN [toks[t] EXCEPT !.revoked = TRUE] ELSE toks[t]]
     /\ UNCHANGED handed
  \/ /\ \E S \in SUBSET {t \in Tokens : toks[t] # NoToken} :
          toks' = [t \in Tokens |-> IF t \in S THEN [toks[t] EXCEPT !.expired = TRUE] ELSE toks[t]]
     /\ UNCHANGED handed

\* A token that was minted stays a token of its kind.
TokStable ==
  \A t \in Tokens : toks[t] # NoToken => toks'[t] # NoToken /\ toks'[t].kind = toks[t].kind

\* A row is a token or no row, never both.
LEMMA TokRows ==
  ASSUME IInv
  PROVE  /\ toks \in TokType /\ handed \in [Tokens -> Nat] /\ TokInv /\ NoToken \notin Token
         /\ \A t \in Tokens : toks[t] # NoToken => toks[t] \in Token
  BY DEF IInv, TypeOK, TokType, NoToken, Token

\* What the writes leave of a token.
LEMMA TokWrites ==
  ASSUME NEW row \in Token
  PROVE  /\ [row EXCEPT !.used = TRUE] \in Token /\ [row EXCEPT !.revoked = TRUE] \in Token
         /\ [row EXCEPT !.expired = TRUE] \in Token
         /\ [row EXCEPT !.used = TRUE].kind = row.kind
         /\ [row EXCEPT !.used = TRUE].revoked = row.revoked
         /\ [row EXCEPT !.used = TRUE].used
         /\ [row EXCEPT !.revoked = TRUE].kind = row.kind
         /\ [row EXCEPT !.revoked = TRUE].used = row.used
         /\ [row EXCEPT !.revoked = TRUE].revoked
         /\ [row EXCEPT !.expired = TRUE].kind = row.kind
         /\ [row EXCEPT !.expired = TRUE].used = row.used
         /\ [row EXCEPT !.expired = TRUE].revoked = row.revoked
  BY DEF Token

\* Revoking some launcher tokens, one or all of them.
LEMMA TokRevokes ==
  ASSUME IInv, handed' = handed, VoidLaunchers \/ \E x \in Tokens :
           /\ toks[x] # NoToken /\ toks[x].kind = "launcher"
           /\ toks' = [toks EXCEPT ![x].revoked = TRUE]
  PROVE  TokMove
  <1>1. CASE VoidLaunchers
    <2> DEFINE S == {t \in Tokens : toks[t] # NoToken /\ toks[t].kind = "launcher" /\ ~Dead(toks[t])}
    <2>1. toks' = [t \in Tokens |-> IF t \in S THEN [toks[t] EXCEPT !.revoked = TRUE] ELSE toks[t]]
      BY <1>1 DEF VoidLaunchers
    <2>2. S \in SUBSET {t \in Tokens : toks[t] # NoToken /\ toks[t].kind = "launcher"}
      OBVIOUS
    <2> HIDE DEF S
    <2>3. QED
      BY <2>1, <2>2 DEF TokMove
  <1>2. ASSUME NEW x \in Tokens, toks[x] # NoToken, toks[x].kind = "launcher",
               toks' = [toks EXCEPT ![x].revoked = TRUE]
        PROVE  TokMove
    <2> DEFINE S == {x}
    <2>1. toks' = [t \in Tokens |-> IF t \in S THEN [toks[t] EXCEPT !.revoked = TRUE] ELSE toks[t]]
      BY <1>2, TokRows DEF TokType
    <2>2. S \in SUBSET {t \in Tokens : toks[t] # NoToken /\ toks[t].kind = "launcher"}
      BY <1>2
    <2> HIDE DEF S
    <2>3. QED
      BY <2>1, <2>2 DEF TokMove
  <1>3. QED
    BY <1>1, <1>2

\* Every step is one of these.
LEMMA TokMoves ==
  ASSUME IInv, Next
  PROVE  TokMove
  <1>1. ASSUME NEW w \in Workers, Handler(w) PROVE TokMove
    <2>0. Fits(pc[w], loc[w], toks, asg) /\ loc[w] \in Locals
      BY DEF IInv, TypeOK
    <2>1. CASE mint(w)
      <3> DEFINE row == [kind |-> loc[w].kind, e |-> loc[w].e, used |-> FALSE,
                         revoked |-> FALSE, expired |-> FALSE]
      <3>1. PICK t \in Tokens : toks[t] = NoToken /\ toks' = [toks EXCEPT ![t] = row]
        BY <2>1 DEF mint
      <3>2. row \in Token /\ ~row.used /\ ~row.revoked /\ handed' = handed
        BY <2>0, <2>1 DEF mint, history, Fits, Locals, Token, Authorizing
      <3> HIDE DEF row
      <3>3. QED
        BY <3>1, <3>2 DEF TokMove
    <2>2. CASE claim(w)
      <3> DEFINE t == loc[w].t
      <3>1. t \in Tokens /\ toks[t] # NoToken /\ toks[t] \in Token
        BY <2>0, <2>2, TokRows DEF claim, Fits, Locals
      <3>2. CASE claimable(toks[t])
        <4>1. /\ toks' = [toks EXCEPT ![t] = [toks[t] EXCEPT !.used = TRUE]]
              /\ handed' = [handed EXCEPT ![t] = handed[t] + 1]
          BY <2>2, <3>1, <3>2 DEF claim
        <4> HIDE DEF t
        <4>2. QED
          BY <3>1, <3>2, <4>1 DEF TokMove
      <3>3. CASE ~claimable(toks[t])
        BY <2>2, <3>3 DEF claim, TokMove
      <3>4. QED
        BY <3>2, <3>3
    <2>3. CASE refuse(w)
      <3> DEFINE x == loc[w].t
      <3>1. /\ x \in Tokens /\ toks[x] # NoToken /\ toks[x] \in Token
            /\ toks[x].kind = "launcher" /\ handed' = handed
        BY <2>0, <2>3, TokRows DEF refuse, Fits, Locals, history
      <3>2. toks' = [toks EXCEPT ![x] = [toks[x] EXCEPT !.revoked = toks[x].revoked \/ ~toks[x].used]]
        BY <2>3 DEF refuse
      <3>3. CASE ~toks[x].used
        <4>1. (toks[x].revoked \/ ~toks[x].used) = TRUE
          BY <3>3
        <4>2. toks' = [toks EXCEPT ![x].revoked = TRUE]
          BY <3>2, <4>1
        <4>3. QED
          BY <3>1, <4>2, TokRevokes
      <3>4. CASE toks[x].used
        <4>1. toks[x].revoked \in BOOLEAN
          BY <3>1 DEF Token
        <4>2. (toks[x].revoked \/ ~toks[x].used) = toks[x].revoked
          BY <3>4, <4>1
        <4>3. [toks[x] EXCEPT !.revoked = toks[x].revoked] = toks[x]
          BY <3>1 DEF Token
        <4>4. toks' = toks
          BY <3>1, <3>2, <4>2, <4>3, TokRows DEF TokType
        <4>5. QED
          BY <3>1, <4>4 DEF TokMove
      <3>5. QED
        BY <3>3, <3>4
    <2>4. CASE UNCHANGED <<toks, handed>>
      BY <2>4 DEF TokMove
    <2>5. QED
      BY <1>1, <2>1, <2>2, <2>3, <2>4
         DEF Handler, createConnectionGrant, find, user, membership, resolveExtras, endpoint,
             authorizeConnect, canReachEndpoint, history
  <1>2. ASSUME NEW w \in Workers, Manage(w) PROVE TokMove
    <2>1. CASE revokeTokens(w)
      BY <2>1, TokRevokes DEF revokeTokens, history
    <2>2. CASE UNCHANGED <<toks, handed>>
      BY <2>2 DEF TokMove
    <2>3. QED
      BY <1>2, <2>1, <2>2
         DEF Manage, createAssignment, decide, revokeAssignment, assign, recordDecision, revoke,
             removeMember, grantAccess, archive, upsertAccess, deleteAccess, history
  <1>3. ASSUME NEW w \in Workers, Offboard(w) PROVE TokMove
    <2>1. CASE voidTokens(w)
      BY <2>1, TokRevokes DEF voidTokens, history
    <2>2. CASE expireGrants(w)
      <3> DEFINE S == {t \in Tokens : toks[t] # NoToken /\ toks[t].kind = "grant" /\ ~toks[t].used}
      <3>1. toks' = [t \in Tokens |-> IF t \in S THEN [toks[t] EXCEPT !.expired = TRUE] ELSE toks[t]]
        BY <2>2 DEF expireGrants
      <3>2. S \in SUBSET {t \in Tokens : toks[t] # NoToken} /\ handed' = handed
        BY <2>2 DEF expireGrants
      <3> HIDE DEF S
      <3>3. QED
        BY <3>1, <3>2 DEF TokMove
    <2>3. CASE UNCHANGED <<toks, handed>>
      BY <2>3 DEF TokMove
    <2>4. QED
      BY <1>3, <2>1, <2>2, <2>3 DEF Offboard, execute, suspendAccount, clearAccess, endAssignments,
                                    leaveGroups, history
  <1>4. CASE Environment
    <2>1. ASSUME NEW t \in Tokens, revokeToken(t) PROVE TokMove
      BY <2>1, TokRevokes DEF revokeToken, history
    <2>2. ASSUME NEW x \in Tokens, expireToken(x) PROVE TokMove
      <3> DEFINE S == {x}
      <3>1. toks' = [t \in Tokens |-> IF t \in S THEN [toks[t] EXCEPT !.expired = TRUE] ELSE toks[t]]
        BY <2>2, TokRows DEF expireToken, TokType
      <3>2. S \in SUBSET {t \in Tokens : toks[t] # NoToken} /\ handed' = handed
        BY <2>2 DEF expireToken, history
      <3> HIDE DEF S
      <3>3. QED
        BY <3>1, <3>2 DEF TokMove
    <2>3. CASE UNCHANGED <<toks, handed>>
      BY <2>3 DEF TokMove
    <2>4. QED
      BY <1>4, <2>1, <2>2, <2>3 DEF Environment, setApprovalRequired, addMember, setBusiness,
                                    revokeAccess, restore, lapse, passWindow, history
  <1>5. ASSUME NEW w \in Workers, People(w) PROVE TokMove
    BY <1>5, PeopleQuiet DEF TokMove, history
  <1>6. QED
    BY <1>1, <1>2, <1>3, <1>4, <1>5 DEF Next

\* They keep the types and TokInv.
LEMMA TokKept ==
  ASSUME IInv, TokMove
  PROVE  toks' \in TokType /\ handed' \in [Tokens -> Nat] /\ TokInv' /\ TokStable
  <1> DEFINE Fine(row, n) == /\ row = NoToken => n = 0
                             /\ row # NoToken => /\ ~row.used => n = 0
                                                 /\ row.kind = "grant" => ~row.revoked
  <1>0. \A t \in Tokens : Fine(toks[t], handed[t])
    BY TokRows DEF TokInv
  <1> SUFFICES ASSUME NEW t \in Tokens
               PROVE  /\ toks'[t] \in Token \cup {NoToken} /\ handed'[t] \in Nat
                      /\ Fine(toks'[t], handed'[t])
                      /\ toks[t] # NoToken => toks'[t] # NoToken /\ toks'[t].kind = toks[t].kind
    <2>1. (\E f : toks' = [t \in Tokens |-> f[t]]) /\ (\E f : handed' = [t \in Tokens |-> f[t]])
      BY TokRows DEF TokMove, TokType
    <2>2. QED
      BY <2>1 DEF TokType, TokInv, TokStable
  <1>1. toks[t] \in Token \cup {NoToken} /\ handed[t] \in Nat /\ Fine(toks[t], handed[t])
    BY <1>0, TokRows DEF TokType
  <1>2. CASE toks'[t] = toks[t] /\ handed'[t] = handed[t]
    BY <1>1, <1>2
  <1>3. CASE toks[t] = NoToken /\ toks'[t] \in Token /\ ~toks'[t].used /\ ~toks'[t].revoked
             /\ handed'[t] = handed[t]
    BY <1>1, <1>3, TokRows
  <1>4. CASE /\ toks[t] # NoToken /\ claimable(toks[t])
             /\ toks'[t] = [toks[t] EXCEPT !.used = TRUE] /\ handed'[t] = handed[t] + 1
    <2> DEFINE new == [toks[t] EXCEPT !.used = TRUE]
    <2>1. toks[t] \in Token
      BY <1>4, TokRows
    <2>2. new \in Token /\ new.kind = toks[t].kind /\ new.revoked = toks[t].revoked /\ new.used
      BY <2>1, TokWrites
    <2> HIDE DEF new
    <2>3. new # NoToken /\ toks'[t] = new
      BY <1>4, <2>2, TokRows DEF new
    <2>4. QED
      <3>1. handed'[t] \in Nat
        BY <1>1, <1>4
      <3>2. toks[t].kind = "grant" => ~toks[t].revoked
        BY <1>1, <1>4
      <3>3. Fine(new, handed'[t])
        BY <2>2, <2>3, <3>2
      <3> HIDE DEF Fine
      <3>4. QED
        BY <2>2, <2>3, <3>1, <3>3
  <1>5. CASE /\ toks[t] # NoToken /\ toks[t].kind = "launcher"
             /\ toks'[t] = [toks[t] EXCEPT !.revoked = TRUE] /\ handed'[t] = handed[t]
    <2> DEFINE new == [toks[t] EXCEPT !.revoked = TRUE]
    <2>1. toks[t] \in Token
      BY <1>5, TokRows
    <2>2. new \in Token /\ new.kind = toks[t].kind /\ new.used = toks[t].used
      BY <2>1, TokWrites
    <2> HIDE DEF new
    <2>3. new # NoToken /\ toks'[t] = new
      BY <1>5, <2>2, TokRows DEF new
    <2>4. QED
      BY <1>1, <1>5, <2>2, <2>3
  <1>6. CASE /\ toks[t] # NoToken
             /\ toks'[t] = [toks[t] EXCEPT !.expired = TRUE] /\ handed'[t] = handed[t]
    <2> DEFINE new == [toks[t] EXCEPT !.expired = TRUE]
    <2>1. toks[t] \in Token
      BY <1>6, TokRows
    <2>2. new \in Token /\ new.kind = toks[t].kind /\ new.used = toks[t].used
          /\ new.revoked = toks[t].revoked
      BY <2>1, TokWrites
    <2> HIDE DEF new
    <2>3. new # NoToken /\ toks'[t] = new
      BY <1>6, <2>2, TokRows DEF new
    <2>4. QED
      BY <1>1, <1>6, <2>2, <2>3
  <1> HIDE DEF Fine
  <1>7. QED
    BY <1>2, <1>3, <1>4, <1>5, <1>6, TokRows DEF TokMove, TokType

\* Each is a step of SingleUse, or none at all.
LEMMA TokRefine ==
  ASSUME IInv, TokMove
  PROVE  [Abstract!Next]_<<[t \in Tokens |-> Standing(toks[t])], handed>>
  <1> DEFINE st == [t \in Tokens |-> Standing(toks[t])]
  <1>0. toks \in TokType /\ handed \in [Tokens -> Nat]
    BY TokRows
  <1>1. CASE UNCHANGED <<toks, handed>>
    BY <1>1
  <1>2. ASSUME NEW t \in Tokens, NEW row \in Token, toks[t] = NoToken, ~row.used, ~row.revoked,
               toks' = [toks EXCEPT ![t] = row], UNCHANGED handed
        PROVE  Abstract!Next
    <2>1. Standing(toks[t]) = "none" /\ Standing(row) = "live"
      BY <1>2, TokRows DEF Standing
    <2>2. st[t] = "none" /\ st' = [st EXCEPT ![t] = "live"]
      BY <1>0, <1>2, <2>1 DEF TokType
    <2> HIDE DEF st
    <2>3. Abstract!Mint(t)
      BY <1>2, <2>2 DEF Abstract!Mint, Abstract!Become, st
    <2>4. QED
      BY <2>3 DEF Abstract!Next
  <1>3. ASSUME NEW t \in Tokens, toks[t] # NoToken, claimable(toks[t]),
               toks' = [toks EXCEPT ![t] = [toks[t] EXCEPT !.used = TRUE]],
               handed' = [handed EXCEPT ![t] = handed[t] + 1]
        PROVE  Abstract!Next
    <2> DEFINE row == [toks[t] EXCEPT !.used = TRUE]
    <2>1. toks[t] \in Token /\ row \in Token /\ row.used /\ row # NoToken
      BY <1>3, TokRows, TokWrites
    <2>2. ~toks[t].used /\ ~toks[t].revoked /\ handed[t] = 0
      BY <1>3, <2>1, TokRows DEF claimable, TokInv, Token
    <2>3. handed[t] + 1 = 1
      BY <2>2
    <2>4. handed' = [handed EXCEPT ![t] = 1]
      BY <1>3, <2>3
    <2>5. toks' = [toks EXCEPT ![t] = row]
      BY <1>3
    <2> HIDE DEF row
    <2>6. Standing(toks[t]) = "live" /\ Standing(row) = "spent"
      BY <1>3, <2>1, <2>2 DEF Standing
    <2>7. st[t] = "live" /\ st' = [st EXCEPT ![t] = "spent"]
      BY <1>0, <2>5, <2>6 DEF TokType
    <2> HIDE DEF st
    <2>8. Abstract!Spend(t)
      BY <2>4, <2>7 DEF Abstract!Spend, Abstract!Become, st
    <2>9. QED
      BY <2>8 DEF Abstract!Next
  <1>4. ASSUME NEW S \in SUBSET {t \in Tokens : toks[t] # NoToken /\ toks[t].kind = "launcher"},
               toks' = [t \in Tokens |-> IF t \in S THEN [toks[t] EXCEPT !.revoked = TRUE] ELSE toks[t]],
               UNCHANGED handed
        PROVE  Abstract!Next
    <2> DEFINE L == {t \in S : st[t] = "live"}
    <2>1. L \in SUBSET {t \in Tokens : st[t] = "live"}
      OBVIOUS
    <2>2. ASSUME NEW t \in Tokens PROVE st'[t] = IF t \in L THEN "void" ELSE st[t]
      <3>1. CASE t \notin S
        BY <1>4, <3>1
      <3>2. CASE t \in S
        <4> DEFINE row == [toks[t] EXCEPT !.revoked = TRUE]
        <4>1. toks[t] # NoToken /\ toks[t] \in Token /\ toks'[t] = row
          BY <1>4, <3>2, TokRows
        <4>2. row \in Token /\ row.used = toks[t].used /\ row.revoked /\ row # NoToken
          BY <4>1, TokRows, TokWrites
        <4> HIDE DEF row
        <4>3. Standing(row) = IF toks[t].used THEN "spent" ELSE "void"
          BY <4>2 DEF Standing
        <4>4. /\ toks[t].used => Standing(toks[t]) = "spent"
              /\ ~toks[t].used => Standing(toks[t]) \in {"void", "live"}
          BY <4>1 DEF Standing
        <4>5. QED
          BY <3>2, <4>1, <4>3, <4>4
      <3>3. QED
        BY <3>1, <3>2
    <2>3. st' = [t \in Tokens |-> IF t \in L THEN "void" ELSE st[t]]
      BY <2>2
    <2> HIDE DEF st, L
    <2>4. Abstract!VoidSome
      BY <1>4, <2>1, <2>3 DEF Abstract!VoidSome, st
    <2>5. QED
      BY <2>4 DEF Abstract!Next
  <1>5. ASSUME NEW S \in SUBSET {t \in Tokens : toks[t] # NoToken},
               toks' = [t \in Tokens |-> IF t \in S THEN [toks[t] EXCEPT !.expired = TRUE] ELSE toks[t]],
               UNCHANGED handed
        PROVE  UNCHANGED <<st, handed>>
    <2>1. ASSUME NEW t \in Tokens PROVE Standing(toks'[t]) = Standing(toks[t])
      <3>1. CASE t \notin S
        BY <1>5, <3>1
      <3>2. CASE t \in S
        <4> DEFINE row == [toks[t] EXCEPT !.expired = TRUE]
        <4>1. toks[t] # NoToken /\ toks[t] \in Token /\ toks'[t] = row
          BY <1>5, <3>2, TokRows
        <4>2. row.used = toks[t].used /\ row.revoked = toks[t].revoked /\ row # NoToken
          BY <4>1, TokRows, TokWrites
        <4> HIDE DEF row
        <4>3. QED
          BY <4>1, <4>2 DEF Standing
      <3>3. QED
        BY <3>1, <3>2
    <2>2. QED
      BY <1>5, <2>1
  <1>6. QED
    BY <1>1, <1>2, <1>3, <1>4, <1>5 DEF TokMove

-----------------------------------------------------------------------------
(* Requests in flight.                                                     *)

\* A request that is over relies on nothing.
LEMMA Idle ==
  ASSUME NEW tk, NEW as, NEW s
  PROVE  NoLoc \in Locals /\ Fits("idle", NoLoc, tk, as) /\ Sure("idle", NoLoc, s)
  <1>1. NoLoc \in Locals
    BY DEF NoLoc, Locals, NoId
  <1>2. QED
    BY <1>1 DEF Fits, Sure, NoLoc, PCs, Authorizing

\* What others do to tokens and assignments does not matter to it.
LEMMA FitsStable ==
  ASSUME NEW p, NEW l, Fits(p, l, toks, asg), TokStable, AsgKept
  PROVE  Fits(p, l, toks', asg')
  <1>1. l \in Locals /\ (l.t # NoId => l.t \in Tokens) /\ l.old \in SUBSET Assignments
    BY DEF Fits, Locals
  <1>2. l.t # NoId => toks'[l.t] # NoToken /\ (p = "refuse" => toks'[l.t].kind = "launcher")
    BY <1>1 DEF Fits, TokStable
  <1>3. \A a \in Assignments : asg[a] # NoAssignment =>
          asg'[a] # NoAssignment /\ asg'[a].via = asg[a].via /\ (asg[a].revoked => asg'[a].revoked)
    BY DEF AsgKept, AsgStep
  <1>4. QED
    BY <1>1, <1>2, <1>3 DEF Fits

\* What was true does not come to have been untrue all along.
LEMMA StaleShrinks ==
  ASSUME IInv, Witness, NEW w \in Workers, loc[w].t # NoId, loc'[w].t # NoId
  PROVE  stale'[w] = stale[w] \cap Untrue(w)'
  BY DEF Witness

\* The history keeps its type.
LEMMA StaleType ==
  ASSUME IInv, Witness
  PROVE  stale' \in [Workers -> SUBSET Facts]
  <1>1. ASSUME NEW w \in Workers PROVE Untrue(w)' \subseteq Facts /\ stale[w] \subseteq Facts
    BY DEF Untrue, IInv, TypeOK
  <1>2. QED
    BY <1>1 DEF Witness

\* One request goes to where it may rely on what it has.
Moved(w) ==
  \E p, l : Goto(w, p, l) /\ Fits(p, l, toks', asg') /\ Sure(p, l, stale'[w])

\* A request that ends.
LEMMA Returns ==
  ASSUME NEW w \in Workers, Return(w)
  PROVE  Moved(w)
  BY Idle DEF Moved, Return

\* A request that redeems nothing.
LEMMA NotRedeeming ==
  ASSUME NEW w \in Workers, NEW p, NEW l, Goto(w, p, l), Fits(p, l, toks', asg'), l.t = NoId
  PROVE  Moved(w)
  BY DEF Moved, Sure

\* An authorization that is refused.
LEMMA Refuses ==
  ASSUME IInv, TokStable, AsgKept, NEW w \in Workers, pc[w] \in Authorizing, Refuse(w)
  PROVE  Moved(w)
  <1> DEFINE l == loc[w]
  <1>1. Fits(pc[w], l, toks', asg') /\ l \in Locals
    BY FitsStable DEF IInv, TypeOK
  <1>2. CASE l.t # NoId /\ toks[l.t].kind = "launcher" /\ Goto(w, "refuse", l)
    <2>1. toks[l.t] # NoToken /\ l.t \in Tokens
      BY <1>2 DEF IInv, Fits, Locals
    <2>2. toks'[l.t].kind = "launcher"
      BY <1>2, <2>1 DEF TokStable
    <2>3. Fits("refuse", l, toks', asg')
      BY <1>1, <1>2, <2>2 DEF Fits, PCs, Authorizing
    <2>4. Sure("refuse", l, stale'[w])
      BY DEF Sure, Authorizing
    <2>5. QED
      BY <1>2, <2>3, <2>4 DEF Moved
  <1>3. QED
    BY <1>2, Returns DEF Refuse, Step

\* What is true when a redemption takes a step was true at some moment.
LEMMA Holds ==
  ASSUME IInv, Witness, NEW w \in Workers, loc[w].t # NoId, loc'[w].t # NoId,
         loc'[w].e = loc[w].e, UNCHANGED <<person, business, asg>>
  PROVE  /\ stale'[w] \subseteq stale[w]
         /\ status = "ACTIVE" => "user" \notin stale'[w]
         /\ member = "active" => "member" \notin stale'[w]
         /\ access[loc[w].e] = "open" => "access" \notin stale'[w]
         /\ loc[w].e \in Scope => "scope" \notin stale'[w]
         /\ businessOn => "business" \notin stale'[w]
         /\ loc[w].e \notin archived => "endpoint" \notin stale'[w]
  <1>1. Scope' = Scope
    BY DEF Scope, Counts, Reach, person, business
  <1>2. stale'[w] = stale[w] \cap Untrue(w)'
    BY StaleShrinks
  <1>3. /\ status' = status /\ member' = member /\ access' = access /\ businessOn' = businessOn
        /\ archived' = archived
    BY DEF person, business
  <1>4. /\ status = "ACTIVE" => "user" \notin Untrue(w)'
        /\ member = "active" => "member" \notin Untrue(w)'
        /\ access[loc[w].e] = "open" => "access" \notin Untrue(w)'
        /\ loc[w].e \in Scope => "scope" \notin Untrue(w)'
        /\ businessOn => "business" \notin Untrue(w)'
        /\ loc[w].e \notin archived => "endpoint" \notin Untrue(w)'
    BY <1>1, <1>3 DEF Untrue
  <1>5. QED
    BY <1>2, <1>4

\* Minting and redeeming.
LEMMA HandlerMoves ==
  ASSUME IInv, TokStable, AsgKept, Witness, NEW w \in Workers, Handler(w)
  PROVE  UNCHANGED <<pc, loc>> \/ Moved(w)
  <1> DEFINE l == loc[w]
  <1> USE DEF PCs, Authorizing
  <1>1. Fits(pc[w], l, toks', asg') /\ Sure(pc[w], l, stale[w]) /\ l \in Locals
    BY FitsStable DEF IInv, TypeOK
  <1>2. pc \in [Workers -> PCs] /\ loc \in [Workers -> Locals] /\ NoLoc \in Locals
    BY Idle DEF IInv, TypeOK
  <1>3. ASSUME NEW p, NEW m, Goto(w, p, m), m.t = l.t, m.e = l.e, l.t # NoId,
               UNCHANGED <<person, business, asg>>
        PROVE  /\ stale'[w] \subseteq stale[w]
               /\ status = "ACTIVE" => "user" \notin stale'[w]
               /\ member = "active" => "member" \notin stale'[w]
               /\ access[l.e] = "open" => "access" \notin stale'[w]
               /\ l.e \in Scope => "scope" \notin stale'[w]
               /\ businessOn => "business" \notin stale'[w]
               /\ l.e \notin archived => "endpoint" \notin stale'[w]
    <2>1. loc'[w] = m
      BY <1>2, <1>3 DEF Goto
    <2>2. QED
      BY <1>3, <2>1, Holds
  <1>4. ASSUME NEW e \in Computers, NEW k \in {"grant", "launcher"}, createConnectionGrant(w, k, e)
        PROVE  Moved(w)
    <2> DEFINE m == [NoLoc EXCEPT !.kind = k, !.e = e]
    <2>1. m \in Locals /\ m.t = NoId /\ m.kind = k /\ m.e = e /\ m.old = {} /\ m.to = "none"
      BY <1>2 DEF Locals, NoLoc
    <2>2. Goto(w, "user", m)
      BY <1>4 DEF createConnectionGrant
    <2> HIDE DEF m
    <2>3. Fits("user", m, toks', asg')
      BY <2>1 DEF Fits
    <2>4. QED
      BY <2>1, <2>2, <2>3, NotRedeeming
  <1>5. ASSUME NEW t \in Tokens, find(w, t) PROVE UNCHANGED <<pc, loc>> \/ Moved(w)
    <2> DEFINE m == [NoLoc EXCEPT !.t = t, !.e = toks[t].e]
    <2>1. CASE Goto(w, "user", m)
      <3>1. toks[t] # NoToken /\ toks[t].e \in Computers /\ toks'[t] # NoToken
        BY <1>5, TokRows DEF find, Token, TokStable
      <3>2. m \in Locals /\ m.t = t /\ m.e = toks[t].e /\ m.old = {} /\ m.to = "none"
        BY <1>2, <3>1 DEF Locals, NoLoc
      <3> HIDE DEF m
      <3>3. Fits("user", m, toks', asg')
        BY <3>1, <3>2, AccessAssumption DEF Fits, NoId
      <3>4. Sure("user", m, stale'[w])
        BY DEF Sure
      <3>5. QED
        BY <2>1, <3>3, <3>4 DEF Moved
    <2>2. QED
      BY <1>5, <2>1 DEF find
  <1>6. CASE user(w)
    <2>1. CASE status = "ACTIVE" /\ Goto(w, "member", l)
      <3>1. Fits("member", l, toks', asg')
        BY <1>1, <1>6 DEF user, Fits
      <3>2. Sure("member", l, stale'[w])
        BY <1>1, <1>3, <1>6, <2>1 DEF user, Sure
      <3>3. QED
        BY <2>1, <3>1, <3>2 DEF Moved
    <2>2. QED
      BY <1>6, <2>1, Refuses DEF user, Step
  <1>7. CASE membership(w)
    <2> DEFINE m == [l EXCEPT !.to = "active"]
    <2>1. CASE member = "active" /\ Goto(w, "endpoint", m)
      <3>1. /\ m \in Locals /\ m.t = l.t /\ m.e = l.e /\ m.old = l.old /\ m.kind = l.kind
            /\ m.to = "active"
        BY <1>1 DEF Locals
      <3> HIDE DEF m
      <3>2. Fits("endpoint", m, toks', asg')
        BY <1>1, <1>7, <3>1 DEF membership, Fits
      <3>3. Sure("endpoint", m, stale'[w])
        BY <1>1, <1>3, <1>7, <2>1, <3>1 DEF membership, Sure
      <3>4. QED
        BY <2>1, <3>2, <3>3 DEF Moved
    <2>2. CASE Goto(w, "scope", l)
      <3>1. Fits("scope", l, toks', asg')
        BY <1>1, <1>7 DEF membership, Fits
      <3>2. Sure("scope", l, stale'[w])
        BY <1>1, <1>3, <1>7, <2>2 DEF membership, Sure
      <3>3. QED
        BY <2>2, <3>1, <3>2 DEF Moved
    <2>3. QED
      BY <1>7, <2>1, <2>2 DEF membership, Step
  <1>8. CASE resolveExtras(w)
    <2> DEFINE m == [l EXCEPT !.ends = Scope]
    <2>1. CASE Goto(w, "endpoint", m)
      <3>0. Scope \in SUBSET Computers
        BY AsgRows DEF Scope, Reach, Counts, Assignment
      <3>1. /\ m \in Locals /\ m.t = l.t /\ m.e = l.e /\ m.old = l.old /\ m.kind = l.kind
            /\ m.to = l.to /\ m.ends = Scope
        BY <1>1, <3>0 DEF Locals
      <3> HIDE DEF m
      <3>2. Fits("endpoint", m, toks', asg') /\ m.to # "active"
        BY <1>1, <1>8, <3>1 DEF resolveExtras, Fits
      <3>3. Sure("endpoint", m, stale'[w])
        BY <1>1, <1>3, <1>8, <2>1, <3>1, <3>2 DEF resolveExtras, Sure
      <3>4. QED
        BY <2>1, <3>2, <3>3 DEF Moved
    <2>2. QED
      BY <1>8, <2>1, Refuses DEF resolveExtras
  <1>9. CASE endpoint(w)
    <2> DEFINE m == [l EXCEPT !.flag = TRUE]
    <2>1. CASE Goto(w, "business", m)
      <3>1. /\ m \in Locals /\ m.t = l.t /\ m.e = l.e /\ m.old = l.old /\ m.kind = l.kind
            /\ m.to = l.to /\ m.ends = l.ends /\ m.flag
        BY <1>1 DEF Locals
      <3> HIDE DEF m
      <3>2. Fits("business", m, toks', asg')
        BY <1>1, <1>9, <3>1 DEF endpoint, Fits
      <3>3. Sure("business", m, stale'[w])
        BY <1>1, <1>3, <1>9, <2>1, <3>1 DEF endpoint, Sure
      <3>4. QED
        BY <2>1, <3>2, <3>3 DEF Moved
    <2>2. CASE l.e \notin archived /\ Goto(w, "business", l)
      <3>1. Fits("business", l, toks', asg')
        BY <1>1, <1>9 DEF endpoint, Fits
      <3>2. Sure("business", l, stale'[w])
        BY <1>1, <1>3, <1>9, <2>2 DEF endpoint, Sure
      <3>3. QED
        BY <2>2, <3>1, <3>2 DEF Moved
    <2>3. QED
      BY <1>9, <2>1, <2>2 DEF endpoint, Step
  <1>10. ASSUME pc[w] \in {"business", "reach"}, l.t = NoId, Allow(w) PROVE Moved(w)
    <2>1. Goto(w, "mint", l)
      BY <1>10 DEF Allow, Step
    <2>2. Fits("mint", l, toks', asg')
      BY <1>1, <1>10 DEF Fits
    <2>3. QED
      BY <1>10, <2>1, <2>2, NotRedeeming
  <1>11. ASSUME pc[w] \in {"business", "reach"}, l.t # NoId, Allow(w)
         PROVE  Goto(w, "claim", l) /\ Fits("claim", l, toks', asg')
    BY <1>1, <1>11 DEF Allow, Step, Fits
  <1>12. CASE authorizeConnect(w)
    <2>1. CASE businessOn /\ ~l.flag /\ l.to = "active" /\ Goto(w, "reach", l)
      <3>1. Fits("reach", l, toks', asg')
        BY <1>1, <1>12 DEF authorizeConnect, Fits
      <3>2. Sure("reach", l, stale'[w])
        BY <1>1, <1>3, <1>12, <2>1 DEF authorizeConnect, Sure
      <3>3. QED
        BY <2>1, <3>1, <3>2 DEF Moved
    <2>2. CASE businessOn /\ ~l.flag /\ l.to # "active" /\ l.e \in l.ends /\ Allow(w)
      <3>1. CASE l.t = NoId
        BY <1>10, <1>12, <2>2, <3>1 DEF authorizeConnect
      <3>2. CASE l.t # NoId
        <4>1. Goto(w, "claim", l) /\ Fits("claim", l, toks', asg')
          BY <1>11, <1>12, <2>2, <3>2 DEF authorizeConnect
        <4>2. Sure("claim", l, stale'[w])
          BY <1>1, <1>3, <1>12, <2>2, <3>2, <4>1 DEF authorizeConnect, Sure
        <4>3. QED
          BY <4>1, <4>2 DEF Moved
      <3>3. QED
        BY <3>1, <3>2
    <2>3. QED
      BY <1>12, <2>1, <2>2, Refuses DEF authorizeConnect, Step
  <1>13. CASE canReachEndpoint(w)
    <2>1. CASE access[l.e] = "open" /\ Allow(w)
      <3>1. CASE l.t = NoId
        BY <1>10, <1>13, <2>1, <3>1 DEF canReachEndpoint
      <3>2. CASE l.t # NoId
        <4>1. Goto(w, "claim", l) /\ Fits("claim", l, toks', asg')
          BY <1>11, <1>13, <2>1, <3>2 DEF canReachEndpoint
        <4>2. Sure("claim", l, stale'[w])
          BY <1>1, <1>3, <1>13, <2>1, <3>2, <4>1 DEF canReachEndpoint, Sure
        <4>3. QED
          BY <4>1, <4>2 DEF Moved
      <3>3. QED
        BY <3>1, <3>2
    <2>2. QED
      BY <1>13, <2>1, Refuses DEF canReachEndpoint
  <1>14. CASE mint(w) \/ claim(w) \/ refuse(w)
    BY <1>14, Returns DEF mint, claim, refuse
  <1>15. QED
    BY <1>4, <1>5, <1>6, <1>7, <1>8, <1>9, <1>12, <1>13, <1>14 DEF Handler

\* A request of an administrator begins.
LEMMA Begins ==
  ASSUME NEW w \in Workers, NEW m \in Locals, m.t = NoId, m.old = {},
         NEW p \in PCs \ Authorizing, Goto(w, p, m),
         p \notin {"grantAccess", "delete", "assign", "decide", "revoke", "setStatus",
                "setMember"}
  PROVE  Moved(w)
  <1>1. Fits(p, m, toks', asg')
    BY DEF Fits, Authorizing
  <1>2. QED
    BY <1>1, NotRedeeming

\* Administrators.
LEMMA ManageMoves ==
  ASSUME IInv, TokStable, AsgKept, NEW w \in Workers, Manage(w)
  PROVE  Moved(w)
  <1> USE DEF PCs, Authorizing
  <1>0. NoLoc \in Locals
    BY Idle
  <1>1. ASSUME NEW via \in {"DIRECT", "GROUP"}, NEW ends \in SUBSET Computers, NEW own \in BOOLEAN,
               createAssignment(w, via, ends, own)
        PROVE  Moved(w)
    <2> DEFINE m == [NoLoc EXCEPT !.ends = ends, !.to = via, !.flag = own \/ approvalRequired]
    <2>1. approvalRequired \in BOOLEAN
      BY DEF IInv, TypeOK
    <2>2. m \in Locals /\ m.t = NoId /\ m.old = {} /\ m.to = via
      BY <1>0, <2>1 DEF Locals, NoLoc
    <2>3. Goto(w, "assign", m)
      BY <1>1 DEF createAssignment
    <2> HIDE DEF m
    <2>4. Fits("assign", m, toks', asg')
      BY <2>2 DEF Fits
    <2>5. QED
      BY <2>2, <2>3, <2>4, NotRedeeming
  <1>2. ASSUME NEW a \in Assignments, NEW to \in {"APPROVED", "DENIED"}, NEW ends \in SUBSET Computers,
               NEW listed \in BOOLEAN, decide(w, a, to, ends, listed)
        PROVE  Moved(w)
    <2> DEFINE m == [NoLoc EXCEPT !.a = a, !.to = to, !.ends = ends, !.flag = listed]
    <2>1. m \in Locals /\ m.t = NoId /\ m.old = {} /\ m.to = to /\ m.a = a
      BY <1>0 DEF Locals, NoLoc
    <2>2. Goto(w, "decide", m) /\ asg'[a] # NoAssignment
      BY <1>2 DEF decide, AsgKept, AsgStep
    <2> HIDE DEF m
    <2>3. Fits("decide", m, toks', asg')
      BY <2>1, <2>2 DEF Fits
    <2>4. QED
      BY <2>1, <2>2, <2>3, NotRedeeming
  <1>3. ASSUME NEW a \in Assignments, revokeAssignment(w, a) PROVE Moved(w)
    <2> DEFINE m == [NoLoc EXCEPT !.a = a]
    <2>1. m \in Locals /\ m.t = NoId /\ m.old = {} /\ m.a = a
      BY <1>0 DEF Locals, NoLoc
    <2>2. Goto(w, "revoke", m) /\ asg'[a] # NoAssignment
      BY <1>3 DEF revokeAssignment, AsgKept, AsgStep
    <2> HIDE DEF m
    <2>3. Fits("revoke", m, toks', asg')
      BY <2>1, <2>2 DEF Fits
    <2>4. QED
      BY <2>1, <2>2, <2>3, NotRedeeming
  <1>4. ASSUME Goto(w, "revokeTokens", NoLoc) PROVE Moved(w)
    BY <1>0, <1>4, Begins DEF NoLoc
  <1>5. CASE revoke(w) \/ removeMember(w)
    BY <1>4, <1>5, Returns DEF revoke, removeMember
  <1>6. ASSUME NEW e \in Computers, grantAccess(w, e) \/ archive(w, e) PROVE Moved(w)
    <2> DEFINE m == [NoLoc EXCEPT !.e = e]
    <2>1. m \in Locals /\ m.t = NoId /\ m.old = {} /\ m.e = e
      BY <1>0 DEF Locals, NoLoc
    <2>2. PICK p \in {"grantAccess", "delete"} : Goto(w, p, m)
      BY <1>6 DEF grantAccess, archive
    <2> HIDE DEF m
    <2>3. Fits(p, m, toks', asg')
      BY <2>1 DEF Fits
    <2>4. QED
      BY <2>1, <2>2, <2>3, NotRedeeming
  <1>7. CASE assign(w) \/ recordDecision(w) \/ revokeTokens(w) \/ upsertAccess(w) \/ deleteAccess(w)
    BY <1>7, Returns DEF assign, recordDecision, revokeTokens, upsertAccess, deleteAccess
  <1>8. QED
    BY <1>1, <1>2, <1>3, <1>5, <1>6, <1>7 DEF Manage

\* Those who add, suspend, reset and remove members.
LEMMA PeopleMoves ==
  ASSUME IInv, TokStable, AsgKept, NEW w \in Workers, People(w)
  PROVE  Moved(w)
  <1> USE DEF PCs, Authorizing
  <1>0. NoLoc \in Locals
    BY Idle
  <1>1. ASSUME NEW on \in BOOLEAN, NEW first \in {"account", "member", "alone"},
               setActive(w, on, first)
        PROVE  Moved(w)
    <2> DEFINE to == IF on THEN "active" ELSE "inactive"
               m  == [NoLoc EXCEPT !.to = to, !.flag = first # "alone"]
    <2>1. m \in Locals /\ m.t = NoId /\ m.old = {} /\ m.to \in {"active", "inactive"}
      BY <1>0 DEF Locals, NoLoc
    <2>2. PICK p \in {"setMember", "setStatus"} : Goto(w, p, m)
      BY <1>1 DEF setActive
    <2> HIDE DEF m
    <2>3. Fits(p, m, toks', asg')
      BY <2>1 DEF Fits
    <2>4. QED
      BY <2>1, <2>2, <2>3, NotRedeeming
  <1>2. CASE setStatus(w) \/ setMember(w)
    <2> DEFINE l == loc[w]
               m == [l EXCEPT !.flag = FALSE]
    <2>1. Fits(pc[w], l, toks', asg') /\ l \in Locals
      BY FitsStable DEF IInv, TypeOK
    <2>2. l.t = NoId /\ l.to \in {"active", "inactive"}
      BY <1>2, <2>1 DEF setStatus, setMember, Fits
    <2>3. m \in Locals /\ m.t = NoId /\ m.old = l.old /\ m.to = l.to
      BY <2>1, <2>2 DEF Locals
    <2>4. Return(w) \/ \E p \in {"setMember", "setStatus"} : Goto(w, p, m)
      BY <1>2 DEF setStatus, setMember
    <2> HIDE DEF m
    <2>5. ASSUME NEW p \in {"setMember", "setStatus"}, Goto(w, p, m) PROVE Moved(w)
      <3>1. Fits(p, m, toks', asg')
        BY <2>1, <2>2, <2>3 DEF Fits
      <3>2. QED
        BY <2>3, <2>5, <3>1, NotRedeeming
    <2>6. QED
      BY <2>4, <2>5, Returns
  <1>3. ASSUME NEW p \in {"addUser", "reset", "dropAccess", "dropMember", "count", "dropAccount"},
               Goto(w, p, NoLoc)
        PROVE  Moved(w)
    BY <1>0, <1>3, Begins DEF NoLoc
  <1>4. QED
    BY <1>1, <1>2, <1>3, Returns
       DEF People, addUser, createMembership, resetUserAccess, invited, removeUser, dropAccess,
           dropMember, countMembers, dropAccount

\* Offboarding.
LEMMA OffboardMoves ==
  ASSUME IInv, TokStable, AsgKept, NEW w \in Workers, Offboard(w)
  PROVE  Moved(w)
  <1> DEFINE l == loc[w]
  <1> USE DEF PCs, Authorizing
  <1>1. Fits(pc[w], l, toks, asg) /\ Fits(pc[w], l, toks', asg') /\ l \in Locals
    BY FitsStable DEF IInv, TypeOK
  <1>2. ASSUME NEW suspended \in BOOLEAN, execute(w, suspended) PROVE Moved(w)
    <2> DEFINE m == [NoLoc EXCEPT !.old = Present(asg)]
    <2>1. Present(asg) \in SUBSET Assignments /\ \A a \in Present(asg) : asg[a] # NoAssignment
      BY AsgRows DEF Present, AsgType
    <2>2. m \in Locals /\ m.t = NoId /\ m.old = Present(asg)
      BY <2>1, Idle DEF Locals, NoLoc
    <2>3. PICK p \in {"suspend", "clearAccess"} : Goto(w, p, m)
      BY <1>2 DEF execute
    <2>4. \A a \in m.old : asg'[a] # NoAssignment
      BY <2>1, <2>2 DEF AsgKept, AsgStep
    <2> HIDE DEF m
    <2>5. Fits(p, m, toks', asg')
      BY <2>2, <2>4 DEF Fits
    <2>6. QED
      BY <2>2, <2>3, <2>5, NotRedeeming
  <1>3. CASE suspendAccount(w) \/ clearAccess(w) \/ leaveGroups(w) \/ voidTokens(w)
    <2>1. PICK p \in {"clearAccess", "endAssignments", "voidTokens", "expireGrants"} :
            /\ Goto(w, p, l)
            /\ p \in {"voidTokens", "expireGrants"} => pc[w] \in {"leaveGroups", "voidTokens"}
      BY <1>3 DEF suspendAccount, clearAccess, leaveGroups, voidTokens, Step
    <2>2. l.t = NoId
      BY <1>1, <1>3 DEF Fits, suspendAccount, clearAccess, leaveGroups, voidTokens
    <2>3. Fits(p, l, toks', asg')
      BY <1>1, <2>1, <2>2 DEF Fits
    <2>4. QED
      BY <2>1, <2>2, <2>3, NotRedeeming
  <1>4. CASE endAssignments(w)
    <2>1. Goto(w, "leaveGroups", l) /\ l.t = NoId
      BY <1>1, <1>4 DEF endAssignments, Step, Fits
    <2>2. ASSUME NEW a \in l.old, asg'[a].via = "DIRECT" PROVE asg'[a].revoked
      <3>1. a \in Assignments /\ asg[a] # NoAssignment /\ asg[a].via = "DIRECT"
        BY <1>1, <2>2 DEF Fits, Locals, AsgKept, AsgStep
      <3>2. asg'[a] = IF ended(asg[a]) THEN [asg[a] EXCEPT !.revoked = TRUE] ELSE asg[a]
        BY <1>4, <3>1 DEF endAssignments
      <3>3. asg[a] \in Assignment
        BY <3>1, AsgRows
      <3>4. [asg[a] EXCEPT !.revoked = TRUE].revoked
        BY <3>3 DEF Assignment
      <3>5. QED
        BY <3>1, <3>2, <3>4 DEF ended
    <2>3. Fits("leaveGroups", l, toks', asg')
      BY <1>1, <2>1, <2>2 DEF Fits
    <2>4. QED
      BY <2>1, <2>3, NotRedeeming
  <1>5. CASE expireGrants(w)
    BY <1>5, Returns DEF expireGrants
  <1>6. QED
    BY <1>2, <1>3, <1>4, <1>5 DEF Offboard

\* Requests that do nothing go on relying on what they have.
LEMMA Waits ==
  ASSUME IInv, TokStable, AsgKept, Witness, NEW w \in Workers,
         pc'[w] = pc[w], loc'[w] = loc[w]
  PROVE  Fits(pc'[w], loc'[w], toks', asg') /\ Sure(pc'[w], loc'[w], stale'[w])
  <1>1. Fits(pc[w], loc[w], toks', asg') /\ Sure(pc[w], loc[w], stale[w])
    BY FitsStable DEF IInv
  <1>2. loc[w].t # NoId => stale'[w] \subseteq stale[w]
    BY StaleShrinks
  <1>3. Sure(pc[w], loc[w], stale'[w])
    BY <1>1, <1>2 DEF Sure
  <1>4. QED
    BY <1>1, <1>3

\* Every request in flight may rely on what it has, and made sure of it.
LEMMA RequestsKept ==
  ASSUME IInv, Next, TokStable, AsgKept
  PROVE  /\ pc' \in [Workers -> PCs] /\ loc' \in [Workers -> Locals]
         /\ \A w \in Workers : Fits(pc'[w], loc'[w], toks', asg') /\ Sure(pc'[w], loc'[w], stale'[w])
  <1>0. pc \in [Workers -> PCs] /\ loc \in [Workers -> Locals] /\ Witness
    BY DEF IInv, TypeOK, Next
  <1>1. UNCHANGED <<pc, loc>> \/ \E w \in Workers : Moved(w)
    <2>1. CASE Environment
      BY <2>1 DEF Environment, setApprovalRequired, addMember, setBusiness, revokeAccess,
                  restore, lapse, passWindow, revokeToken, expireToken
    <2>2. QED
      BY <1>0, <2>1, HandlerMoves, ManageMoves, PeopleMoves, OffboardMoves DEF Next
  <1>2. CASE UNCHANGED <<pc, loc>>
    BY <1>0, <1>2, Waits
  <1>3. ASSUME NEW w \in Workers, Moved(w)
        PROVE  /\ pc' \in [Workers -> PCs] /\ loc' \in [Workers -> Locals]
               /\ \A v \in Workers : Fits(pc'[v], loc'[v], toks', asg') /\ Sure(pc'[v], loc'[v], stale'[v])
    <2>1. PICK p, l : Goto(w, p, l) /\ Fits(p, l, toks', asg') /\ Sure(p, l, stale'[w])
      BY <1>3 DEF Moved
    <2>2. pc' = [pc EXCEPT ![w] = p] /\ loc' = [loc EXCEPT ![w] = l]
      BY <2>1 DEF Goto
    <2>3. p \in PCs /\ l \in Locals
      BY <2>1 DEF Fits
    <2>4. pc' \in [Workers -> PCs] /\ loc' \in [Workers -> Locals]
      BY <1>0, <2>2, <2>3
    <2>5. ASSUME NEW v \in Workers
          PROVE  Fits(pc'[v], loc'[v], toks', asg') /\ Sure(pc'[v], loc'[v], stale'[v])
      <3>1. CASE v = w
        <4>1. pc'[v] = p /\ loc'[v] = l
          BY <1>0, <2>2, <3>1
        <4>2. QED
          BY <2>1, <3>1, <4>1
      <3>2. CASE v # w
        <4>1. pc'[v] = pc[v] /\ loc'[v] = loc[v]
          BY <1>0, <2>2, <3>2
        <4>2. QED
          BY <1>0, <4>1, Waits
      <3>3. QED
        BY <3>1, <3>2
    <2>6. QED
      BY <2>4, <2>5
  <1>4. QED
    BY <1>1, <1>2, <1>3

-----------------------------------------------------------------------------
(* The theorems.                                                           *)

\* The types of what administrators change: the person, the business, the groups.
PeopleFine ==
  /\ status \in {"INVITED", "ACTIVE", "SUSPENDED", "DELETED"} /\ member \in {"none", "active", "inactive"}
  /\ access \in [Computers -> {"none", "open", "over"}] /\ inGroup \in BOOLEAN
  /\ approvalRequired \in BOOLEAN /\ businessOn \in BOOLEAN /\ archived \in SUBSET Computers
  /\ changes \in 0..MaxChanges

\* The person, the business and the count of changes keep their types.
LEMMA PeopleKept ==
  ASSUME IInv, Next
  PROVE  PeopleFine'
  <1>0. PeopleFine
    BY DEF IInv, TypeOK, PeopleFine
  <1>1. changes' \in 0..MaxChanges
    <2>1. changes' = changes \/ (changes < MaxChanges /\ changes' = changes + 1)
      <3>1. ASSUME NEW w \in Workers, Handler(w) PROVE changes' = changes
        BY <3>1 DEF Handler, createConnectionGrant, find, user, membership, resolveExtras, endpoint,
                    authorizeConnect, canReachEndpoint, mint, claim, refuse
      <3>2. ASSUME NEW w \in Workers, Manage(w) PROVE changes' = changes \/ Change
        BY <3>2 DEF Manage, createAssignment, decide, revokeAssignment, assign, recordDecision, revoke,
                    revokeTokens, removeMember, grantAccess, archive,
                    upsertAccess, deleteAccess
      <3>3. ASSUME NEW w \in Workers, Offboard(w) PROVE changes' = changes \/ Change
        BY <3>3 DEF Offboard, execute, suspendAccount, clearAccess, endAssignments, leaveGroups,
                    voidTokens, expireGrants
      <3>4. CASE Environment
        BY <3>4 DEF Environment, Change, setApprovalRequired, addMember, setBusiness,
                    revokeAccess, restore, lapse, passWindow, revokeToken, expireToken
      <3>5. ASSUME NEW w \in Workers, People(w) PROVE changes' = changes \/ Change
        BY <3>5, PeopleQuiet
      <3>6. QED
        BY <3>1, <3>2, <3>3, <3>4, <3>5 DEF Next, Change
    <2>2. QED
      BY <1>0, <2>1, AccessAssumption DEF PeopleFine
  <1>2. ASSUME NEW w \in Workers, Handler(w) PROVE UNCHANGED <<person, business>>
    BY <1>2 DEF Handler, createConnectionGrant, find, user, membership, resolveExtras, endpoint,
                authorizeConnect, canReachEndpoint, mint, claim, refuse
  <1>3. ASSUME NEW w \in Workers, Manage(w) PROVE PeopleFine'
    <2>1. CASE UNCHANGED <<person, business>>
      BY <1>0, <1>1, <2>1 DEF PeopleFine, person, business
    <2>2. CASE removeMember(w)
      BY <1>0, <1>1, <2>2 DEF removeMember, PeopleFine, business
    <2>3. ASSUME NEW e \in Computers, archive(w, e) PROVE PeopleFine'
      BY <1>0, <1>1, <2>3 DEF archive, PeopleFine, person
    <2>4. CASE upsertAccess(w) \/ deleteAccess(w)
      BY <1>0, <1>1, <2>4 DEF upsertAccess, deleteAccess, PeopleFine, business
    <2>5. QED
      BY <1>3, <2>1, <2>2, <2>3, <2>4
         DEF Manage, createAssignment, decide, revokeAssignment, assign, recordDecision, revoke,
             revokeTokens, grantAccess
  <1>4. ASSUME NEW w \in Workers, Offboard(w) PROVE PeopleFine'
    <2>1. CASE UNCHANGED <<person, business>>
      BY <1>0, <1>1, <2>1 DEF PeopleFine, person, business
    <2>2. ASSUME NEW suspended \in BOOLEAN, execute(w, suspended) PROVE PeopleFine'
      BY <1>0, <1>1, <2>2 DEF execute, PeopleFine, business
    <2>3. CASE suspendAccount(w) \/ clearAccess(w) \/ leaveGroups(w)
      BY <1>0, <1>1, <2>3 DEF suspendAccount, clearAccess, leaveGroups, PeopleFine, business
    <2>4. QED
      BY <1>4, <2>1, <2>2, <2>3 DEF Offboard, endAssignments, voidTokens, expireGrants
  <1>5. CASE Environment
    <2>1. CASE UNCHANGED <<person, business>>
      BY <1>0, <1>1, <2>1 DEF PeopleFine, person, business
    <2>2. CASE setApprovalRequired \/ setBusiness
      BY <1>0, <1>1, <2>2 DEF setApprovalRequired, setBusiness, PeopleFine, person
    <2>3. CASE addMember
      BY <1>0, <1>1, <2>3 DEF addMember, PeopleFine, business
    <2>4. ASSUME NEW e \in Computers, revokeAccess(e) \/ lapse(e) PROVE PeopleFine'
      BY <1>0, <1>1, <2>4 DEF revokeAccess, lapse, PeopleFine, business
    <2>5. ASSUME NEW e \in Computers, restore(e) PROVE PeopleFine'
      BY <1>0, <1>1, <2>5 DEF restore, PeopleFine, person
    <2>6. QED
      BY <1>5, <2>1, <2>2, <2>3, <2>4, <2>5 DEF Environment, passWindow, revokeToken, expireToken
  <1>6. ASSUME NEW w \in Workers, People(w) PROVE PeopleFine'
    <2>0. Fits(pc[w], loc[w], toks, asg) /\ UNCHANGED <<inGroup, business>>
      BY <1>6, PeopleQuiet DEF IInv
    <2>1. CASE UNCHANGED <<status, member, access>>
      BY <1>0, <1>1, <2>0, <2>1 DEF PeopleFine, business
    <2>2. CASE setMember(w)
      BY <1>0, <1>1, <2>0, <2>2 DEF setMember, Fits, PeopleFine, business
    <2>3. CASE setStatus(w) \/ createMembership(w) \/ invited(w)
      BY <1>0, <1>1, <2>3 DEF setStatus, createMembership, invited, PeopleFine, business
    <2>4. CASE dropAccess(w) \/ dropMember(w) \/ dropAccount(w)
      BY <1>0, <1>1, <2>4 DEF dropAccess, dropMember, dropAccount, PeopleFine, business
    <2>5. QED
      BY <1>6, <2>1, <2>2, <2>3, <2>4
         DEF People, setActive, addUser, resetUserAccess, removeUser, countMembers, person
  <1>7. QED
    BY <1>0, <1>1, <1>2, <1>3, <1>4, <1>5, <1>6 DEF Next, PeopleFine, person, business

\* What offboarding found stays revoked.
LEMMA LeftKept ==
  ASSUME IInv, Next, AsgKept
  PROVE  left' \in SUBSET Assignments /\ LeftInv'
  <1>1. left \in SUBSET Assignments /\ LeftInv
    BY DEF IInv, TypeOK
  <1>2. \A a \in Assignments : asg[a] # NoAssignment =>
          asg'[a] # NoAssignment /\ asg'[a].via = asg[a].via /\ (asg[a].revoked => asg'[a].revoked)
    BY DEF AsgKept, AsgStep
  <1>3. CASE left' = left
    BY <1>1, <1>2, <1>3 DEF LeftInv
  <1>4. ASSUME NEW w \in Workers, expireGrants(w)
        PROVE  left' \in SUBSET Assignments /\ LeftInv'
    <2>1. /\ loc[w].old \in SUBSET Assignments
          /\ \A a \in loc[w].old : asg[a] # NoAssignment /\ (asg[a].via = "DIRECT" => asg[a].revoked)
      BY <1>4 DEF IInv, TypeOK, Fits, Locals, expireGrants
    <2>2. left' = left \cup loc[w].old
      BY <1>4 DEF expireGrants
    <2>3. QED
      BY <1>1, <1>2, <2>1, <2>2 DEF LeftInv
  <1>5. ASSUME NEW w \in Workers, Handler(w) PROVE left' = left
    BY <1>5 DEF Handler, createConnectionGrant, find, user, membership, resolveExtras, endpoint,
                authorizeConnect, canReachEndpoint, mint, claim, refuse, history
  <1>6. ASSUME NEW w \in Workers, Manage(w) PROVE left' = left
    BY <1>6 DEF Manage, createAssignment, decide, revokeAssignment, assign, recordDecision, revoke,
                revokeTokens, removeMember, grantAccess, archive, upsertAccess,
                deleteAccess, history
  <1>7. ASSUME NEW w \in Workers, Offboard(w) PROVE left' = left \/ expireGrants(w)
    BY <1>7 DEF Offboard, execute, suspendAccount, clearAccess, endAssignments, leaveGroups,
                voidTokens, history
  <1>8. CASE Environment
    <2>1. left' = left
      BY <1>8 DEF Environment, setApprovalRequired, addMember, setBusiness, revokeAccess,
                  restore, lapse, passWindow, revokeToken, expireToken, history
    <2>2. QED
      BY <1>3, <2>1
  <1>9. ASSUME NEW w \in Workers, People(w) PROVE left' = left
    BY <1>9, PeopleQuiet DEF history
  <1>10. QED
    BY <1>3, <1>4, <1>5, <1>6, <1>7, <1>8, <1>9 DEF Next

\* IInv holds to begin with.
LEMMA InvInit ==
  Init => IInv
  <1> SUFFICES ASSUME Init PROVE IInv
    OBVIOUS
  <1> USE AccessAssumption DEF Init
  <1>1. TypeOK
    <2>1. 0 \in 0..MaxChanges /\ NoLoc \in Locals
      BY Idle
    <2>2. QED
      BY <2>1 DEF TypeOK, PCs
  <1>2. TokInv /\ LeftInv
    BY DEF TokInv, LeftInv
  <1>3. \A w \in Workers : Fits(pc[w], loc[w], toks, asg) /\ Sure(pc[w], loc[w], stale[w])
    BY Idle
  <1>4. QED
    BY <1>1, <1>2, <1>3 DEF IInv

\* Every step keeps it.
LEMMA InvNext ==
  IInv /\ [Next]_vars => IInv'
  <1> SUFFICES ASSUME IInv, [Next]_vars PROVE IInv'
    OBVIOUS
  <1>1. CASE UNCHANGED vars
    BY <1>1 DEF vars, person, business, history, IInv, TypeOK, TokInv, LeftInv
  <1>2. CASE Next
    <2>1. AsgKept
      BY <1>2, AsgMoves
    <2>2. toks' \in TokType /\ handed' \in [Tokens -> Nat] /\ TokInv' /\ TokStable
      BY <1>2, TokMoves, TokKept
    <2>3. stale' \in [Workers -> SUBSET Facts]
      BY <1>2, StaleType DEF Next
    <2>4. /\ pc' \in [Workers -> PCs] /\ loc' \in [Workers -> Locals]
          /\ \A w \in Workers : Fits(pc'[w], loc'[w], toks', asg') /\ Sure(pc'[w], loc'[w], stale'[w])
      BY <1>2, <2>1, <2>2, RequestsKept
    <2>5. left' \in SUBSET Assignments /\ LeftInv' /\ PeopleFine'
      BY <1>2, <2>1, LeftKept, PeopleKept
    <2>6. TypeOK'
      BY <2>1, <2>2, <2>3, <2>4, <2>5 DEF TypeOK, AsgKept, AsgType, TokType, PeopleFine
    <2>7. QED
      BY <2>2, <2>4, <2>5, <2>6 DEF IInv
  <1>3. QED
    BY <1>1, <1>2

\* What requests in flight rely on holds always, however they overlap with
\* administrators.
THEOREM Inductive == Spec => []IInv
  BY InvInit, InvNext, PTL DEF Spec

\* Rows and the locals of requests keep their types.
THEOREM TypeCorrect == Spec => []TypeOK
  <1>1. IInv => TypeOK
    BY DEF IInv
  <1>2. QED
    BY <1>1, Inductive, PTL

\* Connection grants and launcher tokens implement SingleUse.
THEOREM TokensAreSingleUse == Spec => ImplementsSingleUse
  <1>1. Init => Abstract!Init
    BY DEF Init, Abstract!Init, Standing
  <1>2. IInv /\ [Next]_vars => [Abstract!Next]_<<[t \in Tokens |-> Standing(toks[t])], handed>>
    <2>1. ASSUME IInv, Next
          PROVE  [Abstract!Next]_<<[t \in Tokens |-> Standing(toks[t])], handed>>
      BY <2>1, TokMoves, TokRefine
    <2>2. ASSUME UNCHANGED vars PROVE UNCHANGED <<[t \in Tokens |-> Standing(toks[t])], handed>>
      BY <2>2 DEF vars, history
    <2>3. QED
      BY <2>1, <2>2
  <1>3. QED
    BY <1>1, <1>2, Inductive, PTL DEF Spec, ImplementsSingleUse, Abstract!Spec

\* A connection is handed out only on facts that were true while it was being
\* redeemed.
THEOREM RedemptionsWereAuthorized == Spec => RedeemedWasAuthorized
  <1> DEFINE A == \A w \in Workers :
                    pc[w] = "claim" /\ handed'[loc[w].t] # handed[loc[w].t] =>
                      /\ {"user", "business", "endpoint"} \cap stale[w] = {}
                      /\ \/ {"member", "access"} \cap stale[w] = {}
                         \/ "scope" \notin stale[w]
  <1>1. IInv => A
    <2> SUFFICES ASSUME IInv, NEW w \in Workers, pc[w] = "claim"
                 PROVE  /\ {"user", "business", "endpoint"} \cap stale[w] = {}
                        /\ \/ {"member", "access"} \cap stale[w] = {}
                           \/ "scope" \notin stale[w]
      OBVIOUS
    <2>1. loc[w].t # NoId /\ Sure("claim", loc[w], stale[w])
      BY DEF IInv, Fits
    <2>2. QED
      BY <2>1 DEF Sure, Authorizing
  <1>2. QED
    BY <1>1, Inductive, PTL DEF RedeemedWasAuthorized

\* What was decided or revoked about an assignment stays so.
THEOREM DecisionsAreFinal == Spec => DecisionsStand
  <1> DEFINE A == \A a \in Assignments :
                    asg[a] # NoAssignment =>
                      /\ asg[a].approval # "PENDING" => asg'[a].approval = asg[a].approval
                      /\ asg[a].revoked => asg'[a].revoked
  <1>1. IInv /\ [Next]_vars => [A]_vars
    <2>1. ASSUME IInv, Next PROVE A
      BY <2>1, AsgMoves DEF AsgKept, AsgStep
    <2>2. QED
      BY <2>1
  <1>2. QED
    BY <1>1, Inductive, PTL DEF DecisionsStand, Spec

\* No assignment that offboarding found counts once it is done, not even one
\* approved while it ran.
THEOREM OffboardingIsFinal == Spec => []OffboardedStaysOut
  <1>1. IInv => OffboardedStaysOut
    BY DEF IInv, LeftInv, OffboardedStaysOut, Counts
  <1>2. QED
    BY <1>1, Inductive, PTL

-----------------------------------------------------------------------------
(* Weekly windows.                                                         *)

\* Within two weeks, a minute of the week is found by taking off a week.
LEMMA WeekMinute ==
  ASSUME NEW w \in Nat \ {0}, NEW x \in Nat, x < 2 * w
  PROVE  x % w = IF x < w THEN x ELSE x - w
  <1>1. x % w \in 0..(w - 1)
    OBVIOUS
  <1>2. x \div w \in Nat /\ x = w * (x \div w) + (x % w)
    BY SMT
  <1> DEFINE q == x \div w
             m == x % w
  <1>3. q \in Nat /\ m \in 0..(w - 1) /\ x = w * q + m
    BY <1>1, <1>2
  <1> HIDE DEF q, m
  <1>4. q < 2
    <2>1. ASSUME q >= 2 PROVE FALSE
      <3>1. w * q >= w * 2
        BY <1>3, <2>1, SMT
      <3>2. QED
        BY <1>3, <3>1, SMT
    <2>2. QED
      BY <1>3, <2>1
  <1>5. q = 0 \/ q = 1
    BY <1>3, <1>4
  <1>6. CASE q = 0
    BY <1>3, <1>6 DEF m
  <1>7. CASE q = 1
    BY <1>3, <1>7 DEF m
  <1>8. QED
    BY <1>5, <1>6, <1>7

\* A minute of the week is one minute of one day.
LEMMA DayAndMinute ==
  ASSUME NEW d \in Days, NEW e \in Days, NEW m \in Minutes, NEW n \in Minutes,
         d * DayMinutes + m = e * DayMinutes + n
  PROVE  d = e /\ m = n
  <1>1. DayMinutes \in Nat \ {0}
    BY ScheduleAssumption
  <1>2. CASE d < e
    <2>1. PICK k \in 1..6 : e = d + k
      BY <1>2 DEF Days
    <2>2. e * DayMinutes = d * DayMinutes + k * DayMinutes
      BY <1>1, <2>1, SMT DEF Days
    <2>3. k * DayMinutes >= DayMinutes
      BY <1>1, SMT
    <2>4. d * DayMinutes \in Nat /\ e * DayMinutes \in Nat
      BY <1>1, SMT DEF Days
    <2>5. QED
      BY <1>1, <2>2, <2>3, <2>4 DEF Minutes
  <1>3. CASE e < d
    <2>1. PICK k \in 1..6 : d = e + k
      BY <1>3 DEF Days
    <2>2. d * DayMinutes = e * DayMinutes + k * DayMinutes
      BY <1>1, <2>1, SMT DEF Days
    <2>3. k * DayMinutes >= DayMinutes
      BY <1>1, SMT
    <2>4. d * DayMinutes \in Nat /\ e * DayMinutes \in Nat
      BY <1>1, SMT DEF Days
    <2>5. QED
      BY <1>1, <2>2, <2>3, <2>4 DEF Minutes
  <1>4. CASE d = e
    <2>1. d * DayMinutes \in Nat
      BY <1>1, SMT DEF Days
    <2>2. QED
      BY <1>1, <1>4, <2>1 DEF Minutes
  <1>5. QED
    BY <1>2, <1>3, <1>4 DEF Days

\* Minute k of a window that opens at s on day d is minute s + k of that day
\* or, past midnight, of the next, and after day 6 comes day 0.
LEMMA OpenMinute ==
  ASSUME NEW d \in Days, NEW s \in Minutes, NEW k \in Minutes, NEW e \in Days,
         NEW m \in Minutes
  PROVE  (d * DayMinutes + s + k) % (7 * DayMinutes) = e * DayMinutes + m <=>
           \/ s + k < DayMinutes /\ e = d /\ m = s + k
           \/ s + k >= DayMinutes /\ d = (e + 6) % 7 /\ m = s + k - DayMinutes
  <1> DEFINE D == DayMinutes
             x == d * D + s + k
             W == 7 * D
  <1>1. /\ D \in Nat \ {0} /\ s \in Nat /\ k \in Nat /\ m \in Nat
        /\ s < D /\ k < D /\ m < D
    BY ScheduleAssumption DEF Minutes
  <1>2. /\ d * D \in Nat /\ e * D \in Nat /\ d * D <= 6 * D /\ W \in Nat \ {0}
    <2>1. \A n \in Days : n * D \in Nat /\ n * D <= 6 * D
      BY <1>1, SMT DEF Days
    <2>2. QED
      BY <1>1, <2>1
  <1>3. x \in Nat /\ x < 2 * W
    BY <1>1, <1>2
  <1>4. x % W = IF x < W THEN x ELSE x - W
    <2> HIDE DEF x, W
    <2>1. QED
      BY <1>2, <1>3, WeekMinute
  <1>5. CASE s + k < D
    <2>1. x < W
      BY <1>1, <1>2, <1>5
    <2>2. x % W = d * D + (s + k)
      BY <1>1, <1>2, <1>4, <2>1
    <2>3. s + k \in Minutes
      BY <1>1, <1>5 DEF Minutes
    <2>4. d * D + (s + k) = e * D + m <=> e = d /\ m = s + k
      BY <2>3, DayAndMinute
    <2>5. ~(s + k >= D)
      BY <1>1, <1>5
    <2>6. QED
      BY <1>5, <2>2, <2>4, <2>5
  <1>6. CASE s + k >= D
    <2> DEFINE n == s + k - D
               f == (d + 1) % 7
    <2>1. n \in Minutes /\ f \in Days
      BY <1>1, <1>6 DEF Minutes, Days
    <2>2. x = (d + 1) * D + n
      BY <1>1, <1>2, SMT DEF Days
    <2>3. x % W = f * D + n
      <3>1. CASE d = 6
        <4>1. x = W + n /\ f = 0
          BY <1>1, <3>1
        <4>2. QED
          BY <1>1, <1>2, <1>4, <2>1, <4>1 DEF Minutes
      <3>2. CASE d # 6
        <4>1. f = d + 1 /\ (d + 1) * D <= 6 * D /\ (d + 1) * D \in Nat
          <5>1. f = d + 1 /\ d + 1 \in 0..6
            BY <3>2 DEF Days
          <5>2. \A i \in 0..6 : i * D <= 6 * D /\ i * D \in Nat
            BY <1>1, SMT
          <5>3. QED
            BY <5>1, <5>2
        <4>2. x < W
          BY <1>1, <2>1, <2>2, <4>1 DEF Minutes
        <4>3. QED
          BY <1>4, <2>2, <4>1, <4>2
      <3>3. QED
        BY <3>1, <3>2
    <2>4. f * D + n = e * D + m <=> e = f /\ m = n
      <3> HIDE DEF n, f
      <3>1. QED
        BY <2>1, DayAndMinute
    <2>5. e = f <=> d = (e + 6) % 7
      BY SMT DEF Days
    <2>6. ~(s + k < D)
      BY <1>1, <1>6
    <2>7. QED
      BY <1>6, <2>3, <2>4, <2>5, <2>6
  <1>7. QED
    BY <1>1, <1>5, <1>6

\* Every window covers the minutes of the week its test says.
LEMMA WindowsFollowTheClock == WindowsMatchClock
  <1> SUFFICES ASSUME NEW win \in ScheduleWindow, NEW day \in Days, NEW minutes \in Minutes
               PROVE  inWindow(win, day, minutes) <=>
                        (day * DayMinutes + minutes) \in OpenMinutes(win)
    BY DEF WindowsMatchClock
  <1> DEFINE D == DayMinutes
             s == win.start
             t == win.end
             L == (DayMinutes + win.end - win.start) % DayMinutes
             at(d, k) == (d * D + s + k) % (7 * D)
             x == day * D + minutes
  <1>1. /\ win.days \subseteq Days /\ s \in Minutes /\ t \in Minutes /\ s # t
        /\ D \in Nat \ {0} /\ D \in Nat
    BY ScheduleAssumption DEF ScheduleWindow
  <1>2. /\ s \in Nat /\ t \in Nat /\ minutes \in Nat /\ s < D /\ t < D /\ minutes < D
    BY <1>1 DEF Minutes
  <1>3. /\ L = IF s < t THEN t - s ELSE D + t - s
        /\ L \in 1..(D - 1)
    <2>1. D + t - s \in Nat /\ D + t - s < 2 * D
      BY <1>1, <1>2
    <2>2. L = IF t - s < 0 THEN D + (t - s) ELSE t - s
      <3> DEFINE y == D + t - s
      <3>1. y \in Nat /\ y < 2 * D
        BY <2>1
      <3> HIDE DEF y
      <3>2. y % D = IF y < D THEN y ELSE y - D
        BY <1>1, <3>1, WeekMinute
      <3>3. QED
        BY <1>1, <1>2, <3>2 DEF y
    <2> HIDE DEF L
    <2>3. QED
      BY <1>1, <1>2, <2>2
  <1>4. x \in OpenMinutes(win) <=> \E d \in win.days, k \in 0..(L - 1) : x = at(d, k)
    BY DEF OpenMinutes
  <1> HIDE DEF L
  <1>5. \A d \in win.days, k \in 0..(L - 1) :
          x = at(d, k) <=>
            \/ s + k < D /\ day = d /\ minutes = s + k
            \/ s + k >= D /\ d = (day + 6) % 7 /\ minutes = s + k - D
    <2> SUFFICES ASSUME NEW d \in win.days, NEW k \in 0..(L - 1)
                 PROVE  x = at(d, k) <=>
                          \/ s + k < D /\ day = d /\ minutes = s + k
                          \/ s + k >= D /\ d = (day + 6) % 7 /\ minutes = s + k - D
      OBVIOUS
    <2>1. k \in Minutes /\ d \in Days
      BY <1>1, <1>3 DEF Minutes
    <2>2. at(d, k) = x <=>
            \/ s + k < D /\ day = d /\ minutes = s + k
            \/ s + k >= D /\ d = (day + 6) % 7 /\ minutes = s + k - D
      <3> USE <1>1, <2>1
      <3> HIDE DEF s
      <3>1. QED
        BY OpenMinute
    <2> HIDE DEF at, x
    <2>3. QED
      BY <2>2
  <1>6. x \in OpenMinutes(win) <=>
          \E d \in win.days, k \in 0..(L - 1) :
            \/ s + k < D /\ day = d /\ minutes = s + k
            \/ s + k >= D /\ d = (day + 6) % 7 /\ minutes = s + k - D
    BY <1>4, <1>5
  <1> HIDE DEF x, at
  <1>7. ASSUME inWindow(win, day, minutes)
        PROVE  x \in OpenMinutes(win)
    <2>1. CASE day \in win.days /\ minutes >= s /\ (s < t => minutes < t)
      <3>1. minutes - s \in 0..(L - 1) /\ s + (minutes - s) = minutes
        BY <1>1, <1>2, <1>3, <2>1
      <3>2. QED
        BY <1>2, <1>6, <2>1, <3>1
    <2>2. CASE ~(s < t) /\ (day + 6) % 7 \in win.days /\ minutes < t
      <3> DEFINE k == D - s + minutes
      <3>1. k \in 0..(L - 1) /\ s + k >= D /\ minutes = s + k - D
        BY <1>1, <1>2, <1>3, <2>2
      <3> HIDE DEF k
      <3>2. QED
        BY <1>6, <2>2, <3>1
    <2>3. QED
      BY <1>7, <2>1, <2>2 DEF inWindow
  <1>8. ASSUME x \in OpenMinutes(win)
        PROVE  inWindow(win, day, minutes)
    <2>1. PICK d \in win.days, k \in 0..(L - 1) :
            \/ s + k < D /\ day = d /\ minutes = s + k
            \/ s + k >= D /\ d = (day + 6) % 7 /\ minutes = s + k - D
      BY <1>6, <1>8
    <2>2. k \in Nat /\ k < L
      BY <1>1, <1>3
    <2>3. CASE s < t
      <3>1. s + k < D /\ minutes < t /\ minutes >= s /\ day \in win.days
        BY <1>1, <1>2, <1>3, <2>1, <2>2, <2>3
      <3>2. QED
        BY <2>3, <3>1 DEF inWindow
    <2>4. CASE ~(s < t)
      <3>1. \/ minutes >= s /\ day \in win.days
            \/ minutes < t /\ (day + 6) % 7 \in win.days
        BY <1>1, <1>2, <1>3, <2>1, <2>2, <2>4
      <3>2. QED
        BY <2>4, <3>1 DEF inWindow
    <2>5. QED
      BY <2>3, <2>4
  <1>9. QED
    BY <1>7, <1>8 DEF x

\* The windows of every assignment mean the clock, for every length of a
\* day: isWithinSchedule() is true exactly at the minutes of the week from
\* each start to the next end, over midnight and over the end of the week.
THEOREM SchedulesMatchClock == Spec => []ScheduleMatchesClock
  <1>1. ScheduleMatchesClock
    BY WindowsFollowTheClock DEF ScheduleMatchesClock
  <1>2. QED
    BY <1>1, PTL
=============================================================================
