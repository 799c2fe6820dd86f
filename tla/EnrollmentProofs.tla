-------------------------- MODULE EnrollmentProofs --------------------------
(***************************************************************************)
(* Enrollment for every number of RustDesk IDs, tokens, secrets and        *)
(* requests in flight: claims are single use, no token is lost, and the    *)
(* secret a computer is bound to is replaced only by who may.              *)
(*                                                                         *)
(* The invariant has four parts.  Fits says what the locals of a request   *)
(* are good for at each program point: which endpoint it works on, and     *)
(* that who adopts or drops a node has proved the secret it saw.  Sole     *)
(* says that a token is used (marked, or deleted since) while a claim      *)
(* works with it and once one was answered, and that there is one such     *)
(* claim.  Lost says the converse, that a marked token has such a claim or *)
(* was answered.  Pool says that every node of the pending pool has a      *)
(* secret, without which there would be nothing to prove.                  *)
(*                                                                         *)
(* Then the device credentials of an enrolled computer, for every number   *)
(* of requests, installations and rotations: a rotated password is handed  *)
(* out only after the computer took it, and a staged one is not dropped.   *)
(***************************************************************************)
EXTENDS Enrollment, Integers, TLAPS

\* A request that goes on to the endpoint of its token, or to its own.
OwnPCs == {"update", "create", "upsert", "assign", "record"}
\* A request that has proved the secret of the node it saw.
ProvedPCs == {"adopt", "activate", "recordAdopted", "reread", "drop", "dropEndpoint"}

Fits(p, l) ==
  /\ p # "idle" /\ p # "delete" => l.id \in Ids /\ l.n \in Rows
  /\ p \in ClaimPCs \cup {"consume", "delete"} => l.t \in Tokens
  /\ p \in {"pool", "poolNode"} => l.secret # 0
  /\ p \in OwnPCs => l.ep \in {l.target, l.n} /\ l.ep # 0
  /\ p \in ProvedPCs => l.ep = l.seen.ep /\ l.ep # 0 /\ l.secret = l.seen.secret

Used(t) == tok[t].status = "gone" \/ (tok[t].status = "live" /\ tok[t].claimed)

Holding(w, t) == pc[w] \in ClaimPCs /\ loc[w].t = t

Sole ==
  \A t \in Tokens :
    /\ handed[t] \in {0, 1}
    /\ handed[t] = 1 => Used(t)
    /\ \A w \in Workers : Holding(w, t) => Used(t) /\ handed[t] = 0
    /\ \A v, w \in Workers : Holding(v, t) /\ Holding(w, t) => v = w

Lost ==
  \A t \in Tokens :
    tok[t].status = "live" /\ tok[t].claimed =>
      handed[t] = 1 \/ \E w \in Workers : Holding(w, t)

Pool ==
  /\ \A id \in Ids : node[id].ep = 0 <=> node[id] = NoNode
  /\ \A id \in Ids : node[id] # NoNode /\ ~node[id].tenant => node[id].secret # 0

Fit == \A w \in Workers : Fits(pc[w], loc[w])

IInv == TypeOK /\ Fit /\ Pool /\ Sole /\ Lost

-----------------------------------------------------------------------------
(* What a step may do.                                                     *)

\* Nobody else's place or locals change.
Alone(w) ==
  \A v \in Workers \ {w} : pc'[v] = pc[v] /\ loc'[v] = loc[v]

\* No token is marked, freed, made or deleted.
SameMarks == \A t \in Tokens : tok'[t].status = tok[t].status /\ tok'[t].claimed = tok[t].claimed

\* A claim goes on with its token.
Inside(w) ==
  /\ pc[w] \in ClaimPCs /\ pc'[w] \in ClaimPCs /\ loc'[w].t = loc[w].t
  /\ SameMarks /\ UNCHANGED handed

\* A request that works with no token, and does not come to.
Outside(w) ==
  /\ pc[w] \notin ClaimPCs /\ pc'[w] \notin ClaimPCs
  /\ UNCHANGED handed
  /\ \/ SameMarks
     \/ \E t \in Tokens : tok[t].status = "live" /\ tok' = [tok EXCEPT ![t].status = "gone"]

\* A claim ends with an answer.
Answered(w) ==
  /\ pc[w] \in ClaimPCs /\ pc'[w] \notin ClaimPCs /\ SameMarks
  /\ loc[w].t \in Tokens
  /\ handed' = [handed EXCEPT ![loc[w].t] = @ + 1]

Consumed(w) ==
  LET t == loc[w].t IN
  /\ pc[w] = "consume" /\ pc'[w] \in ClaimPCs /\ loc'[w].t = t /\ t \in Tokens
  /\ Redeemable(t) /\ tok' = [tok EXCEPT ![t].claimed = TRUE] /\ UNCHANGED handed

HandedBack(w) ==
  LET t == loc[w].t IN
  /\ pc[w] \in ClaimPCs /\ pc'[w] \notin ClaimPCs /\ t \in Tokens /\ UNCHANGED handed
  /\ tok' = IF tok[t].status = "live" THEN [tok EXCEPT ![t].claimed = FALSE] ELSE tok

\* A token is minted or runs out.
TokenOnly ==
  /\ UNCHANGED <<handed, pc, loc>>
  /\ \/ SameMarks
     \/ \E t \in Tokens : /\ tok[t].status = "none"
                          /\ tok'[t].status = "live" /\ ~tok'[t].claimed
                          /\ \A u \in Tokens \ {t} : tok'[u] = tok[u]

Kind(w) == Alone(w) /\ (Inside(w) \/ Outside(w) \/ Answered(w) \/ Consumed(w) \/ HandedBack(w))

\* A statement of a claim keeps the locals, and goes on or fails.
LEMMA StatementKind ==
  ASSUME TypeOK, NEW w \in Workers, NEW at \in ClaimPCs, NEW works, NEW p \in ClaimPCs,
         Statement(w, at, works, p)
  PROVE  /\ Alone(w) /\ pc[w] = at /\ pc'[w] \in {p, "handBack"} /\ loc' = loc
         /\ works => pc'[w] = p
         /\ pc[w] \in ClaimPCs /\ pc'[w] \in ClaimPCs
         /\ UNCHANGED <<handed, requests>>
  BY DEF Statement, Goto, Alone, TypeOK, ClaimPCs, PCs

\* Recording what a token enrolled marks nothing.
LEMMA RecordedMarks ==
  ASSUME TypeOK, NEW w \in Workers, Recorded(w)
  PROVE  SameMarks
  BY DEF Recorded, SameMarks, TypeOK, Token

\* Every step of a request is of one of the five kinds.
LEMMA RequestKinds ==
  ASSUME TypeOK, Fit, NEW w \in Workers, Continue(w)
  PROVE  Kind(w)
  <1> USE DEF Kind
  <1>0. loc[w].t \in Tokens \/ pc[w] \notin ClaimPCs \cup {"consume", "delete"}
    BY DEF Fit, Fits
  <1>1. CASE delete(w)
    BY <1>0, <1>1 DEF delete, Return, Outside, Alone, SameMarks, TypeOK, ClaimPCs
  <1>2. CASE consume(w)
    BY <1>0, <1>2 DEF consume, Return, Goto, Outside, Consumed, Alone, SameMarks, TypeOK, ClaimPCs
  <1>3. CASE handBack(w)
    BY <1>0, <1>3 DEF handBack, Return, HandedBack, Alone, TypeOK, ClaimPCs
  <1>4. CASE readNode(w)
    <2>1. pc'[w] \in ClaimPCs /\ Alone(w) /\ loc'[w].t = loc[w].t
      BY <1>4 DEF readNode, Alone, Route, TypeOK, Locals, ClaimPCs
    <2>2. QED
      BY <1>4, <2>1 DEF readNode, Inside, SameMarks, database, ClaimPCs
  <1>5. CASE adopt(w)
    BY <1>5, StatementKind DEF adopt, Inside, SameMarks, ClaimPCs
  <1>6. CASE activate(w)
    BY <1>6, StatementKind DEF activate, Inside, SameMarks, ClaimPCs, database
  <1>7. CASE recordAdopted(w)
    BY <1>7, StatementKind, RecordedMarks DEF recordAdopted, Inside, ClaimPCs
  <1>8. CASE reread(w)
    BY <1>0, <1>8 DEF reread, Answer, Return, Answered, Alone, SameMarks, TypeOK, ClaimPCs, database
  <1>9. CASE drop(w)
    BY <1>9, StatementKind DEF drop, Inside, SameMarks, ClaimPCs
  <1>10. CASE dropEndpoint(w)
    <2>1. SameMarks
      BY <1>10 DEF dropEndpoint, SameMarks, TypeOK, Token
    <2>2. QED
      BY <1>10, <2>1, StatementKind DEF dropEndpoint, Inside, ClaimPCs
  <1>11. CASE load(w)
    <2>1. pc'[w] \in ClaimPCs /\ Alone(w) /\ loc'[w].t = loc[w].t
      BY <1>11 DEF load, Alone, TypeOK, Locals, ClaimPCs
    <2>2. QED
      BY <1>11, <2>1 DEF load, Inside, SameMarks, database, ClaimPCs
  <1>12. CASE update(w)
    BY <1>12, StatementKind DEF update, Inside, SameMarks, ClaimPCs, database
  <1>13. CASE create(w)
    BY <1>13, StatementKind DEF create, Inside, SameMarks, ClaimPCs
  <1>14. CASE upsert(w)
    BY <1>14, StatementKind DEF upsert, Inside, SameMarks, ClaimPCs
  <1>15. CASE assign(w)
    BY <1>15, StatementKind DEF assign, Inside, SameMarks, ClaimPCs, database
  <1>16. CASE record(w)
    <2>1. SameMarks
      BY <1>16, RecordedMarks DEF record
    <2>2. CASE Recordable(w)
      BY <1>0, <1>16, <2>1, <2>2 DEF record, Answer, Return, Answered, Alone, TypeOK, ClaimPCs
    <2>3. CASE ~Recordable(w)
      BY <1>16, <2>1, <2>3 DEF record, Goto, Inside, Alone, TypeOK, ClaimPCs
    <2>4. QED
      BY <2>2, <2>3
  <1>17. CASE poolEndpoint(w)
    BY <1>17 DEF poolEndpoint, Goto, Outside, Alone, SameMarks, TypeOK, ClaimPCs
  <1>18. CASE poolNode(w)
    BY <1>18 DEF poolNode, Return, Outside, Alone, SameMarks, TypeOK, ClaimPCs
  <1>19. CASE typedIn(w)
    BY <1>19 DEF typedIn, Return, Outside, Alone, SameMarks, TypeOK, ClaimPCs
  <1>20. CASE dbError(w)
    <2>1. CASE pc[w] \in ClaimPCs
      BY <1>20, <2>1 DEF dbError, Goto, Inside, Alone, SameMarks, TypeOK, ClaimPCs, database
    <2>2. CASE pc[w] \notin ClaimPCs
      BY <1>20, <2>2 DEF dbError, Return, Outside, Alone, SameMarks, TypeOK, ClaimPCs, database
    <2>3. QED
      BY <2>1, <2>2
  <1>21. QED
    BY <1>1, <1>2, <1>3, <1>4, <1>5, <1>6, <1>7, <1>8, <1>9, <1>10, <1>11, <1>12, <1>13, <1>14,
       <1>15, <1>16, <1>17, <1>18, <1>19, <1>20 DEF Continue

\* A request that begins works with no token yet.
LEMMA BeginKind ==
  ASSUME TypeOK, NEW w \in Workers, NEW p \in {"consume", "pool", "typeIn"}, NEW l \in Locals,
         Begin(w, p, l), UNCHANGED <<database, handed>>
  PROVE  Kind(w)
  BY DEF Begin, Kind, Outside, Alone, SameMarks, TypeOK, ClaimPCs, database

\* Every step is a step of one request or touches only a token.
LEMMA Kinds ==
  ASSUME TypeOK, Fit, Next
  PROVE  TokenOnly \/ \E w \in Workers : Kind(w)
  <1>1. ASSUME NEW t \in Tokens, expire(t)  PROVE TokenOnly
    BY <1>1 DEF expire, TokenOnly, SameMarks, TypeOK, Token
  <1>2. ASSUME NEW t \in Tokens, NEW target \in Rows \cup {0}, createClaimToken(t, target)
        PROVE TokenOnly
    BY <1>2 DEF createClaimToken, TokenOnly, TypeOK, Token, NoToken
  <1>3. ASSUME NEW w \in Workers, NEW t \in Tokens, revokeClaimToken(w, t)  PROVE Kind(w)
    BY <1>3 DEF revokeClaimToken, Kind, Outside, Alone, SameMarks, TypeOK, ClaimPCs, database
  <1>4. NoLoc \in Locals
    BY EnrollmentAssumption DEF NoLoc, Locals, NoNode, Node, Secrets, Rows
  <1>5. ASSUME NEW w \in Workers, NEW t \in Tokens, NEW id \in Ids, NEW secret \in Secrets,
               claimEndpoint(w, t, id, secret)
        PROVE Kind(w)
    <2>1. [NoLoc EXCEPT !.t = t, !.id = id, !.secret = secret, !.target = tok[t].target] \in Locals
      BY <1>4 DEF NoLoc, Locals, TypeOK, Token
    <2>2. QED
      BY <1>5, <2>1, BeginKind DEF claimEndpoint
  <1>6. ASSUME NEW w \in Workers, NEW id \in Ids, NEW secret \in Secrets, heartbeat(w, id, secret)
        PROVE Kind(w)
    <2>1. [NoLoc EXCEPT !.id = id, !.secret = secret] \in Locals
      BY <1>4 DEF NoLoc, Locals
    <2>2. QED
      BY <1>6, <2>1, BeginKind DEF heartbeat
  <1>7. ASSUME NEW w \in Workers, NEW id \in Ids, typeIn(w, id)  PROVE Kind(w)
    <2>1. [NoLoc EXCEPT !.id = id] \in Locals
      BY <1>4 DEF NoLoc, Locals
    <2>2. QED
      BY <1>7, <2>1, BeginKind DEF typeIn
  <1>8. QED
    BY <1>1, <1>2, <1>3, <1>5, <1>6, <1>7, RequestKinds DEF Next

-----------------------------------------------------------------------------
(* Tokens.                                                                 *)

\* Who else works with a token does so after a step of w as before.
LEMMA OthersHold ==
  ASSUME NEW w \in Workers, Alone(w), NEW v \in Workers, v # w, NEW t \in Tokens
  PROVE  Holding(v, t)' <=> Holding(v, t)
  BY DEF Alone, Holding

\* Marked as before, a token is used as before.
LEMMA SameUsed ==
  ASSUME SameMarks, NEW t \in Tokens
  PROVE  Used(t)' <=> Used(t)
  BY DEF SameMarks, Used

\* Minting, expiring, or a request that works with no token.
LEMMA QuietTokens ==
  ASSUME TypeOK, Sole, Lost,
         \A v \in Workers, t \in Tokens : Holding(v, t)' <=> Holding(v, t),
         UNCHANGED handed,
         \A t \in Tokens : Used(t) => Used(t)',
         \A t \in Tokens : tok'[t].status = "live" /\ tok'[t].claimed =>
                            tok[t].status = "live" /\ tok[t].claimed
  PROVE  Sole' /\ Lost'
  <1>1. Sole'
    BY DEF Sole
  <1>2. Lost'
    BY DEF Lost
  <1>3. QED
    BY <1>1, <1>2

\* Sole and Lost are kept by every step.
LEMMA TokensKept ==
  ASSUME TypeOK, Fit, Sole, Lost, Next
  PROVE  Sole' /\ Lost'
  <1>1. CASE TokenOnly
    <2>1. \A v \in Workers, t \in Tokens : Holding(v, t)' <=> Holding(v, t)
      BY <1>1 DEF TokenOnly, Holding
    <2>2. \A t \in Tokens : Used(t) => Used(t)'
      BY <1>1 DEF TokenOnly, SameMarks, Used
    <2>3. \A t \in Tokens : tok'[t].status = "live" /\ tok'[t].claimed =>
                            tok[t].status = "live" /\ tok[t].claimed
      BY <1>1 DEF TokenOnly, SameMarks
    <2>4. UNCHANGED handed
      BY <1>1 DEF TokenOnly
    <2>5. QED
      BY <2>1, <2>2, <2>3, <2>4, QuietTokens
  <1>2. ASSUME NEW w \in Workers, Alone(w), Inside(w)  PROVE Sole' /\ Lost'
    <2>1. \A v \in Workers, t \in Tokens : Holding(v, t)' <=> Holding(v, t)
      BY <1>2 DEF Alone, Inside, Holding
    <2>2. \A t \in Tokens : Used(t) => Used(t)'
      BY <1>2, SameUsed DEF Inside
    <2>3. \A t \in Tokens : tok'[t].status = "live" /\ tok'[t].claimed =>
                            tok[t].status = "live" /\ tok[t].claimed
      BY <1>2 DEF Inside, SameMarks
    <2>4. UNCHANGED handed
      BY <1>2 DEF Inside
    <2>5. QED
      BY <2>1, <2>2, <2>3, <2>4, QuietTokens
  <1>3. ASSUME NEW w \in Workers, Alone(w), Outside(w)  PROVE Sole' /\ Lost'
    <2>1. \A v \in Workers, t \in Tokens : Holding(v, t)' <=> Holding(v, t)
      BY <1>3 DEF Alone, Outside, Holding
    <2>2. \A t \in Tokens : Used(t) => Used(t)'
      BY <1>3 DEF Outside, SameMarks, Used, TypeOK, Token
    <2>3. \A t \in Tokens : tok'[t].status = "live" /\ tok'[t].claimed =>
                            tok[t].status = "live" /\ tok[t].claimed
      BY <1>3 DEF Outside, SameMarks, TypeOK, Token
    <2>4. UNCHANGED handed
      BY <1>3 DEF Outside
    <2>5. QED
      BY <2>1, <2>2, <2>3, <2>4, QuietTokens
  <1>4. ASSUME NEW w \in Workers, Alone(w), Answered(w)  PROVE Sole' /\ Lost'
    <2>0. PICK s \in Tokens : s = loc[w].t
      BY <1>4 DEF Answered
    <2>1. s \in Tokens /\ Holding(w, s) /\ \A t \in Tokens : ~Holding(w, t)'
      BY <1>4, <2>0 DEF Answered, Holding
    <2>2. Used(s) /\ handed[s] = 0 /\ \A v \in Workers : Holding(v, s) => v = w
      BY <2>1 DEF Sole
    <2>3. handed'[s] = 1 /\ \A t \in Tokens \ {s} : handed'[t] = handed[t]
      BY <1>4, <2>0, <2>1, <2>2 DEF Answered, TypeOK
    <2>4. \A t \in Tokens : Used(t)' <=> Used(t)
      BY <1>4, <2>0, SameUsed DEF Answered
    <2>5. \A v \in Workers, t \in Tokens : Holding(v, t)' <=> v # w /\ Holding(v, t)
      BY <1>4, <2>0, <2>1, OthersHold
    <2>6. \A v \in Workers, t \in Tokens \ {s} : Holding(v, t)' <=> Holding(v, t)
      <3>1. \A t \in Tokens \ {s} : ~Holding(w, t)
        BY <2>0 DEF Holding
      <3>2. QED
        BY <2>5, <3>1
    <2>7. Sole'
      <3>1. ASSUME NEW t \in Tokens, t # s
            PROVE  /\ handed'[t] \in {0, 1} /\ (handed'[t] = 1 => Used(t)')
                   /\ \A v \in Workers : Holding(v, t)' => Used(t)' /\ handed'[t] = 0
                   /\ \A u, v \in Workers : Holding(u, t)' /\ Holding(v, t)' => u = v
        BY <2>3, <2>4, <2>6, <3>1 DEF Sole
      <3>2. \A v \in Workers : ~Holding(v, s)'
        BY <2>2, <2>5, <2>1
      <3>3. QED
        BY <2>2, <2>3, <2>4, <3>1, <3>2, <2>1 DEF Sole
    <2>8. Lost'
      <3>1. ASSUME NEW t \in Tokens, t # s, tok'[t].status = "live", tok'[t].claimed
            PROVE  handed'[t] = 1 \/ \E v \in Workers : Holding(v, t)'
        <4>1. tok[t].status = "live" /\ tok[t].claimed
          BY <1>4, <2>0, <3>1 DEF Answered, SameMarks
        <4>2. QED
          BY <2>3, <2>6, <3>1, <4>1 DEF Lost
      <3>2. QED
        BY <2>3, <2>1, <3>1 DEF Lost
    <2>9. QED
      BY <2>7, <2>8
  <1>5. ASSUME NEW w \in Workers, Alone(w), Consumed(w)  PROVE Sole' /\ Lost'
    <2>0. PICK s \in Tokens : s = loc[w].t
      BY <1>5 DEF Consumed
    <2>1. s \in Tokens /\ Holding(w, s)' /\ \A t \in Tokens : ~Holding(w, t)
      BY <1>5, <2>0 DEF Consumed, Holding, ClaimPCs
    <2>2. ~Used(s) /\ Used(s)' /\ \A t \in Tokens \ {s} : tok'[t] = tok[t]
      BY <1>5, <2>0, <2>1 DEF Consumed, Redeemable, Used, TypeOK, Token
    <2>3. handed[s] = 0 /\ \A v \in Workers : ~Holding(v, s)
      BY <2>1, <2>2 DEF Sole
    <2>4. \A v \in Workers, t \in Tokens : v # w => (Holding(v, t)' <=> Holding(v, t))
      BY <1>5, <2>0, OthersHold
    <2>5. \A t \in Tokens \ {s} : ~Holding(w, t)'
      BY <1>5, <2>0 DEF Consumed, Holding
    <2>6. handed' = handed
      BY <1>5, <2>0 DEF Consumed
    <2>7. Sole'
      <3>1. ASSUME NEW t \in Tokens, t # s
            PROVE  /\ handed'[t] \in {0, 1} /\ (handed'[t] = 1 => Used(t)')
                   /\ \A v \in Workers : Holding(v, t)' => Used(t)' /\ handed'[t] = 0
                   /\ \A u, v \in Workers : Holding(u, t)' /\ Holding(v, t)' => u = v
        <4>1. Used(t)' <=> Used(t)
          BY <2>2, <3>1 DEF Used
        <4>2. \A v \in Workers : Holding(v, t)' => Holding(v, t)
          BY <2>4, <2>5, <3>1
        <4>3. QED
          BY <2>6, <3>1, <4>1, <4>2 DEF Sole
      <3>2. \A v \in Workers : Holding(v, s)' => v = w
        BY <2>1, <2>3, <2>4
      <3>3. QED
        BY <2>1, <2>2, <2>3, <2>6, <3>1, <3>2 DEF Sole
    <2>8. Lost'
      <3>1. ASSUME NEW t \in Tokens, t # s, tok'[t].status = "live", tok'[t].claimed
            PROVE  handed'[t] = 1 \/ \E v \in Workers : Holding(v, t)'
        <4>1. handed[t] = 1 \/ \E v \in Workers : Holding(v, t)
          BY <2>2, <3>1 DEF Lost
        <4>2. QED
          BY <2>1, <2>4, <2>6, <4>1
      <3>2. QED
        BY <2>1, <3>1 DEF Lost
    <2>9. QED
      BY <2>7, <2>8
  <1>6. ASSUME NEW w \in Workers, Alone(w), HandedBack(w)  PROVE Sole' /\ Lost'
    <2>0. PICK s \in Tokens : s = loc[w].t
      BY <1>6 DEF HandedBack
    <2>1. s \in Tokens /\ Holding(w, s) /\ \A t \in Tokens : ~Holding(w, t)'
      BY <1>6, <2>0 DEF HandedBack, Holding
    <2>2. Used(s) /\ handed[s] = 0 /\ \A v \in Workers : Holding(v, s) => v = w
      BY <2>1 DEF Sole
    <2>3. /\ \A t \in Tokens \ {s} : tok'[t] = tok[t]
          /\ ~(tok'[s].status = "live" /\ tok'[s].claimed)
      BY <1>6, <2>0, <2>1 DEF HandedBack, TypeOK, Token
    <2>4. \A v \in Workers, t \in Tokens : Holding(v, t)' <=> v # w /\ Holding(v, t)
      BY <1>6, <2>0, <2>1, OthersHold
    <2>5. handed' = handed
      BY <1>6, <2>0 DEF HandedBack
    <2>6. \A v \in Workers, t \in Tokens \ {s} : Holding(v, t)' <=> Holding(v, t)
      <3>1. \A t \in Tokens \ {s} : ~Holding(w, t)
        BY <2>0 DEF Holding
      <3>2. QED
        BY <2>4, <3>1
    <2>7. \A v \in Workers : ~Holding(v, s)'
      BY <2>1, <2>2, <2>4
    <2>8. Sole'
      <3>1. ASSUME NEW t \in Tokens, t # s
            PROVE  /\ handed'[t] \in {0, 1} /\ (handed'[t] = 1 => Used(t)')
                   /\ \A v \in Workers : Holding(v, t)' => Used(t)' /\ handed'[t] = 0
                   /\ \A u, v \in Workers : Holding(u, t)' /\ Holding(v, t)' => u = v
        <4>1. Used(t)' <=> Used(t)
          BY <2>3, <3>1 DEF Used
        <4>2. QED
          BY <2>5, <2>6, <3>1, <4>1 DEF Sole
      <3>2. QED
        BY <2>1, <2>2, <2>5, <2>7, <3>1 DEF Sole
    <2>9. Lost'
      BY <2>1, <2>3, <2>5, <2>6 DEF Lost
    <2>10. QED
      BY <2>8, <2>9
  <1>7. QED
    BY <1>1, <1>2, <1>3, <1>4, <1>5, <1>6, Kinds DEF Kind

-----------------------------------------------------------------------------
(* Types and what the locals are good for.                                 *)

\* Locals without a request.
LEMMA NoLocType == NoLoc \in Locals /\ NoNode \in Node /\ NoToken \in Token
  BY EnrollmentAssumption DEF NoLoc, Locals, NoNode, Node, Secrets, Rows, NoToken, Token

\* A finished request has nothing to fit.
LEMMA IdleFits == Fits("idle", NoLoc)
  BY DEF Fits, ClaimPCs, OwnPCs, ProvedPCs

\* What a statement of a claim needs of its locals, a failed one needs less.
LEMMA FailFits ==
  ASSUME NEW p \in ClaimPCs, NEW l \in Locals, Fits(p, l)
  PROVE  Fits("handBack", l)
  BY DEF Fits, ClaimPCs, OwnPCs, ProvedPCs

\* Where a claim goes once it has read the node.
LEMMA RouteFits ==
  ASSUME TypeOK, Pool, NEW w \in Workers, NEW seen \in Node, pc[w] = "node",
         Fits("node", loc[w]), seen.ep = 0 <=> seen = NoNode,
         seen # NoNode /\ ~seen.tenant => seen.secret # 0
  PROVE  Fits(Route(seen, loc[w].target, loc[w].secret),
              [loc[w] EXCEPT !.seen = seen, !.ep = seen.ep])
  <1> DEFINE p == Route(seen, loc[w].target, loc[w].secret)
             m == [loc[w] EXCEPT !.seen = seen, !.ep = seen.ep]
  <1>1. loc[w] \in Locals
    BY DEF TypeOK
  <1>2. /\ m.id = loc[w].id /\ m.n = loc[w].n /\ m.t = loc[w].t /\ m.secret = loc[w].secret
        /\ m.seen = seen /\ m.ep = seen.ep
    BY <1>1 DEF Locals
  <1>3. p \in {"load", "handBack", "adopt", "drop"}
    BY DEF Route
  <1>4. p \in {"adopt", "drop"} => seen.ep # 0 /\ loc[w].secret = seen.secret
    BY DEF Route
  <1> HIDE DEF m, p
  <1>5. Fits(p, m)
    BY <1>2, <1>3, <1>4 DEF Fits, ClaimPCs, OwnPCs, ProvedPCs
  <1>6. QED
    BY <1>5 DEF m, p

\* A step of a request keeps the types of what it keeps to itself, and Fits.
LEMMA RequestFits ==
  ASSUME TypeOK, Fit, Pool, NEW w \in Workers, Continue(w)
  PROVE  /\ pc' \in [Workers -> PCs] /\ loc' \in [Workers -> Locals] /\ Fit'
  <1>0. /\ loc[w] \in Locals /\ Fits(pc[w], loc[w]) /\ pc[w] \in PCs
        /\ ClaimPCs \subseteq PCs /\ "idle" \in PCs
    BY DEF TypeOK, Fit, PCs
  <1>1. ASSUME NEW p \in PCs, NEW l \in Locals, Fits(p, l),
               pc' = [pc EXCEPT ![w] = p], loc' = [loc EXCEPT ![w] = l]
        PROVE  /\ pc' \in [Workers -> PCs] /\ loc' \in [Workers -> Locals] /\ Fit'
    BY <1>1 DEF TypeOK, Fit
  <1>2. CASE Return(w)
    BY <1>0, <1>1, <1>2, NoLocType, IdleFits DEF Return
  <1>3. ASSUME NEW p \in PCs, Goto(w, p), Fits(p, loc[w])
        PROVE  /\ pc' \in [Workers -> PCs] /\ loc' \in [Workers -> Locals] /\ Fit'
    BY <1>3 DEF Goto, TypeOK, Fit
  <1>4. ASSUME NEW at \in ClaimPCs, NEW works, NEW p \in ClaimPCs, Statement(w, at, works, p),
               works => Fits(p, loc[w])
        PROVE  /\ pc' \in [Workers -> PCs] /\ loc' \in [Workers -> Locals] /\ Fit'
    <2>1. Fits("handBack", loc[w]) /\ "handBack" \in PCs
      BY <1>0, <1>4, FailFits DEF Statement, PCs, ClaimPCs
    <2>2. CASE works
      BY <1>0, <1>3, <1>4, <2>2 DEF Statement
    <2>3. CASE ~works
      BY <1>3, <1>4, <2>1, <2>3 DEF Statement
    <2>4. QED
      BY <2>2, <2>3
  <1> USE DEF ClaimPCs
  <1>5. CASE delete(w) \/ handBack(w) \/ poolNode(w) \/ typedIn(w)
    BY <1>2, <1>5 DEF delete, handBack, poolNode, typedIn
  <1>6. CASE consume(w)
    <2>1. pc[w] = "consume"
      BY <1>6 DEF consume
    <2>2. Fits("node", loc[w]) /\ "node" \in PCs
      BY <1>0, <2>1 DEF Fits, OwnPCs, ProvedPCs, PCs
    <2>3. QED
      BY <1>2, <1>3, <1>6, <2>2 DEF consume
  <1>7. CASE readNode(w)
    <2> DEFINE seen == node[loc[w].id]
               p    == Route(seen, loc[w].target, loc[w].secret)
               m    == [loc[w] EXCEPT !.seen = seen, !.ep = seen.ep]
    <2>1. pc[w] = "node" /\ pc' = [pc EXCEPT ![w] = p] /\ loc' = [loc EXCEPT ![w] = m]
      BY <1>7, <1>0 DEF readNode, Locals, TypeOK
    <2>2. loc[w].id \in Ids /\ seen \in Node
      BY <1>0, <2>1 DEF Fits, TypeOK
    <2>3. Fits(p, m)
      BY <1>0, <2>1, <2>2, RouteFits DEF Pool
    <2>4. m \in Locals
      BY <1>0, <2>2 DEF Locals, Node
    <2>5. p \in PCs
      BY DEF Route, PCs
    <2> HIDE DEF p, m
    <2>6. QED
      BY <1>1, <2>1, <2>3, <2>4, <2>5
  <1>8. CASE adopt(w)
    <2>1. pc[w] = "adopt"
      BY <1>8 DEF adopt, Statement
    <2>2. Fits("activate", loc[w])
      BY <1>0, <2>1 DEF Fits, OwnPCs, ProvedPCs
    <2>3. QED
      BY <1>4, <1>8, <2>2 DEF adopt
  <1>9. CASE activate(w)
    <2>1. pc[w] = "activate"
      BY <1>9 DEF activate, Statement
    <2>2. Fits("recordAdopted", loc[w])
      BY <1>0, <2>1 DEF Fits, OwnPCs, ProvedPCs
    <2>3. QED
      BY <1>4, <1>9, <2>2 DEF activate
  <1>10. CASE recordAdopted(w)
    <2>1. pc[w] = "recordAdopted"
      BY <1>10 DEF recordAdopted, Statement
    <2>2. Fits("reread", loc[w])
      BY <1>0, <2>1 DEF Fits, OwnPCs, ProvedPCs
    <2>3. QED
      BY <1>4, <1>10, <2>2 DEF recordAdopted
  <1>11. CASE reread(w)
    BY <1>2, <1>11 DEF reread, Answer
  <1>12. CASE drop(w)
    <2>1. pc[w] = "drop"
      BY <1>12 DEF drop, Statement
    <2>2. Fits("dropEndpoint", loc[w])
      BY <1>0, <2>1 DEF Fits, OwnPCs, ProvedPCs
    <2>3. QED
      BY <1>4, <1>12, <2>2 DEF drop
  <1>13. CASE dropEndpoint(w)
    <2>1. pc[w] = "dropEndpoint"
      BY <1>13 DEF dropEndpoint, Statement
    <2>2. Fits("load", loc[w])
      BY <1>0, <2>1 DEF Fits, OwnPCs, ProvedPCs
    <2>3. QED
      BY <1>4, <1>13, <2>2 DEF dropEndpoint
  <1>14. CASE load(w)
    <2> DEFINE known == loc[w].target \in rows
               p == IF known THEN "update" ELSE "create"
               e == IF known THEN loc[w].target ELSE loc[w].n
               m == [loc[w] EXCEPT !.ep = e]
    <2>1. pc[w] = "load" /\ pc' = [pc EXCEPT ![w] = p] /\ loc' = [loc EXCEPT ![w] = m]
      BY <1>14, <1>0 DEF load, TypeOK
    <2>2. loc[w].n \in Rows /\ rows \subseteq Rows /\ 0 \notin Rows
      BY <1>0, <2>1, EnrollmentAssumption DEF Fits, TypeOK, Rows
    <2>3. e \in Rows /\ e # 0 /\ e \in {loc[w].target, loc[w].n}
      BY <2>2
    <2>4. /\ m \in Locals /\ m.ep = e /\ m.target = loc[w].target /\ m.n = loc[w].n
          /\ m.id = loc[w].id /\ m.t = loc[w].t
      BY <1>0, <2>3 DEF Locals
    <2>5. p \in {"update", "create"}
      OBVIOUS
    <2> HIDE DEF p, e, m, known
    <2>6. Fits(p, m) /\ p \in PCs
      BY <1>0, <2>1, <2>3, <2>4, <2>5 DEF Fits, OwnPCs, ProvedPCs, PCs
    <2>7. QED
      BY <1>1, <2>1, <2>4, <2>6
  <1>15. CASE update(w)
    <2>1. pc[w] = "update"
      BY <1>15 DEF update, Statement
    <2>2. Fits("upsert", loc[w])
      BY <1>0, <2>1 DEF Fits, OwnPCs, ProvedPCs
    <2>3. QED
      BY <1>4, <1>15, <2>2 DEF update
  <1>16. CASE create(w)
    <2>1. pc[w] = "create"
      BY <1>16 DEF create, Statement
    <2>2. Fits("upsert", loc[w])
      BY <1>0, <2>1 DEF Fits, OwnPCs, ProvedPCs
    <2>3. QED
      BY <1>4, <1>16, <2>2 DEF create
  <1>17. CASE upsert(w)
    <2>1. pc[w] = "upsert"
      BY <1>17 DEF upsert, Statement
    <2>2. Fits("assign", loc[w])
      BY <1>0, <2>1 DEF Fits, OwnPCs, ProvedPCs
    <2>3. QED
      BY <1>4, <1>17, <2>2 DEF upsert
  <1>18. CASE assign(w)
    <2>1. pc[w] = "assign"
      BY <1>18 DEF assign, Statement
    <2>2. Fits("record", loc[w])
      BY <1>0, <2>1 DEF Fits, OwnPCs, ProvedPCs
    <2>3. QED
      BY <1>4, <1>18, <2>2 DEF assign
  <1>19. CASE record(w)
    <2>1. pc[w] = "record"
      BY <1>19 DEF record
    <2>2. Fits("handBack", loc[w]) /\ "handBack" \in PCs
      BY <1>0, <2>1, FailFits DEF PCs
    <2>3. QED
      BY <1>2, <1>3, <1>19, <2>2 DEF record, Answer
  <1>20. CASE poolEndpoint(w)
    <2>1. pc[w] = "pool"
      BY <1>20 DEF poolEndpoint
    <2>2. Fits("poolNode", loc[w]) /\ "poolNode" \in PCs
      BY <1>0, <2>1 DEF Fits, OwnPCs, ProvedPCs, PCs
    <2>3. QED
      BY <1>3, <1>20, <2>2 DEF poolEndpoint
  <1>21. CASE dbError(w)
    <2>1. CASE pc[w] \in ClaimPCs
      <3>1. Fits("handBack", loc[w]) /\ "handBack" \in PCs
        BY <1>0, <2>1, FailFits DEF PCs
      <3>2. QED
        BY <1>3, <1>21, <2>1, <3>1 DEF dbError
    <2>2. CASE pc[w] \notin ClaimPCs
      BY <1>2, <1>21, <2>2 DEF dbError
    <2>3. QED
      BY <2>1, <2>2
  <1>22. QED
    BY <1>5, <1>6, <1>7, <1>8, <1>9, <1>10, <1>11, <1>12, <1>13, <1>14, <1>15, <1>16, <1>17, <1>18,
       <1>19, <1>20, <1>21 DEF Continue

-----------------------------------------------------------------------------
(* The tables.                                                             *)

\* A node as Pool wants it.
Good(r) ==
  /\ r \in Node
  /\ r.ep = 0 <=> r = NoNode
  /\ r # NoNode /\ ~r.tenant => r.secret # 0

\* Pool is about each node alone.
LEMMA PoolIsGood ==
  ASSUME TypeOK
  PROVE  Pool <=> \A id \in Ids : Good(node[id])
  BY DEF TypeOK, Pool, Good

\* A node with an endpoint and an account is good.
LEMMA GoodRow ==
  ASSUME NEW e \in Rows, NEW n \in Rows \cup {0}, NEW b \in BOOLEAN, NEW s \in Secrets,
         b \/ s # 0
  PROVE  Good([ep |-> e, by |-> n, tenant |-> b, secret |-> s])
  <1>1. [ep |-> e, by |-> n, tenant |-> b, secret |-> s] \in Node
    BY Zenon DEF Node
  <1>2. e # 0
    BY EnrollmentAssumption DEF Rows
  <1>3. QED
    BY <1>1, <1>2 DEF Good, NoNode

\* Binding a secret keeps a node good.
LEMMA BoundGood ==
  ASSUME NEW l \in Locals, NEW r \in Node, Good(r), r.ep # 0
  PROVE  Good(Bound(l, r)) /\ Bound(l, r).ep = r.ep /\ Bound(l, r).tenant = r.tenant
  <1>1. CASE l.secret = 0
    BY <1>1 DEF Bound
  <1>2. CASE l.secret # 0
    <2>1. Bound(l, r) = [ep |-> r.ep, by |-> r.by, tenant |-> r.tenant, secret |-> l.secret]
      BY <1>2 DEF Bound, Node
    <2>2. r.ep \in Rows /\ r.by \in Rows \cup {0} /\ r.tenant \in BOOLEAN /\ l.secret \in Secrets
      BY DEF Node, Locals
    <2>3. QED
      BY <1>2, <2>1, <2>2, GoodRow
  <1>3. QED
    BY <1>1, <1>2

\* Every step of a request leaves good nodes.
LEMMA NodesKept ==
  ASSUME TypeOK, Fit, Pool, NEW w \in Workers, Continue(w)
  PROVE  node' \in [Ids -> Node] /\ \A id \in Ids : Good(node'[id])
  <1>0. /\ node \in [Ids -> Node] /\ \A id \in Ids : Good(node[id])
        /\ loc[w] \in Locals /\ Fits(pc[w], loc[w]) /\ Good(NoNode) /\ NoNode \in Node
    BY PoolIsGood, NoLocType DEF TypeOK, Fit, Good, NoNode
  <1>1. CASE UNCHANGED node
    BY <1>0, <1>1
  <1>2. ASSUME NEW id \in Ids, NEW r \in Node, Good(r), node' = [node EXCEPT ![id] = r]
        PROVE  node' \in [Ids -> Node] /\ \A i \in Ids : Good(node'[i])
    BY <1>0, <1>2
  <1>3. CASE adopt(w)
    <2>1. pc[w] = "adopt"
      BY <1>3 DEF adopt, Statement
    <2>2. loc[w].seen.ep # 0
      BY <1>0, <2>1 DEF Fits, ProvedPCs
    <2>3. ASSUME NEW id \in RowOf(loc[w].seen)
          PROVE  Good(Bound(loc[w], [node[id] EXCEPT !.tenant = TRUE]))
      <3> DEFINE old == node[id]
                 r   == [old EXCEPT !.tenant = TRUE]
      <3>1. old \in Node /\ Good(old) /\ old.ep # 0
        BY <1>0, <2>2 DEF RowOf
      <3>2. r \in Node
        BY <3>1, Zenon DEF Node
      <3>3. r.ep = old.ep /\ r.tenant
        BY <3>1 DEF Node
      <3>4. Good(r) /\ r.ep # 0
        BY <3>1, <3>2, <3>3 DEF Good, NoNode
      <3>5. QED
        BY <1>0, <3>2, <3>4, BoundGood
    <2>4. node' = [id \in Ids |-> IF id \in RowOf(loc[w].seen)
                                  THEN Bound(loc[w], [node[id] EXCEPT !.tenant = TRUE])
                                  ELSE node[id]]
      BY <1>3 DEF adopt
    <2>5. \A id \in Ids : Good(node'[id])
      BY <1>0, <2>3, <2>4
    <2>6. QED
      BY <2>4, <2>5 DEF Good
  <1>4. CASE drop(w)
    BY <1>0, <1>4 DEF drop
  <1>5. CASE dropEndpoint(w)
    BY <1>0, <1>5 DEF dropEndpoint
  <1>6. CASE upsert(w)
    <2> DEFINE l    == loc[w]
               mine == {id \in Ids : node[id].ep = l.ep}
               ok   == l.ep \in rows /\ ~Taken(l.id, l.ep)
               row  == IF mine # {} THEN node[CHOOSE id \in mine : TRUE]
                       ELSE [ep |-> l.ep, by |-> l.n, tenant |-> TRUE, secret |-> 0]
    <2>1. CASE ok
      <3>1. l.ep \in Rows /\ l.ep # 0
        <4>1. l.ep \in Rows
          BY <2>1 DEF TypeOK
        <4>2. 0 \notin Rows
          BY EnrollmentAssumption DEF Rows
        <4>3. QED
          BY <4>1, <4>2
      <3>2. row \in Node /\ Good(row) /\ row.ep # 0
        <4>1. CASE mine # {}
          <5>1. (CHOOSE id \in mine : TRUE) \in mine
            BY <4>1
          <5>2. PICK i \in Ids : row = node[i] /\ node[i].ep = l.ep
            BY <4>1, <5>1
          <5>3. QED
            BY <1>0, <3>1, <5>2
        <4>2. CASE mine = {}
          <5>1. row = [ep |-> l.ep, by |-> l.n, tenant |-> TRUE, secret |-> 0]
            BY <4>2
          <5>2. 0 \in Secrets /\ l.n \in Rows \cup {0}
            BY <1>0, EnrollmentAssumption DEF Secrets, Locals, Rows
          <5>3. Good(row)
            BY <3>1, <5>1, <5>2, GoodRow
          <5>4. QED
            BY <3>1, <5>1, <5>3 DEF Good
        <4>3. QED
          BY <4>1, <4>2
      <3>3. Good(Bound(l, row))
        BY <1>0, <3>2, BoundGood
      <3>4. node' = [id \in Ids |-> IF id = l.id THEN Bound(l, row)
                                    ELSE IF id \in mine THEN NoNode ELSE node[id]]
        BY <1>6, <2>1 DEF upsert
      <3> HIDE DEF row, mine, l
      <3>5. \A id \in Ids : Good(node'[id])
        BY <1>0, <3>3, <3>4
      <3>6. QED
        BY <3>4, <3>5 DEF Good
    <2>2. QED
      BY <1>1, <1>6, <2>1 DEF upsert
  <1>7. CASE poolNode(w)
    <2>1. pc[w] = "poolNode"
      BY <1>7 DEF poolNode
    <2>2. loc[w].id \in Ids /\ loc[w].n \in Rows /\ loc[w].secret # 0 /\ loc[w].secret \in Secrets
      BY <1>0, <2>1 DEF Fits, Locals
    <2>3. Good([ep |-> loc[w].n, by |-> loc[w].n, tenant |-> FALSE, secret |-> loc[w].secret])
      BY <2>2, GoodRow
    <2>4. QED
      BY <1>1, <1>2, <1>7, <2>2, <2>3 DEF poolNode, Good
  <1>8. CASE typedIn(w)
    <2>1. pc[w] = "typeIn"
      BY <1>8 DEF typedIn
    <2>2. loc[w].id \in Ids /\ loc[w].n \in Rows /\ 0 \in Secrets
      BY <1>0, <2>1, EnrollmentAssumption DEF Fits, Secrets
    <2>3. Good([ep |-> loc[w].n, by |-> loc[w].n, tenant |-> TRUE, secret |-> 0])
      BY <2>2, GoodRow
    <2>4. QED
      BY <1>1, <1>2, <1>8, <2>2, <2>3 DEF typedIn, Good
  <1>9. CASE \/ delete(w) \/ consume(w) \/ handBack(w) \/ readNode(w) \/ activate(w)
             \/ recordAdopted(w) \/ reread(w) \/ load(w) \/ update(w) \/ create(w)
             \/ assign(w) \/ record(w) \/ poolEndpoint(w) \/ dbError(w)
    BY <1>1, <1>9 DEF delete, consume, handBack, readNode, activate, recordAdopted, reread, load,
       update, create, assign, record, poolEndpoint, dbError, database
  <1>10. QED
    BY <1>3, <1>4, <1>5, <1>6, <1>7, <1>8, <1>9 DEF Continue

\* Every step of a request keeps the types of the other tables.
LEMMA TablesKept ==
  ASSUME TypeOK, Fit, NEW w \in Workers, Continue(w)
  PROVE  /\ rows' \subseteq Rows /\ tok' \in [Tokens -> Token]
         /\ handed' \in [Tokens -> Nat] /\ requests' \in 0..MaxRequests
  <1>0. loc[w] \in Locals /\ Fits(pc[w], loc[w])
    BY DEF TypeOK, Fit
  <1>1. requests' = requests
    BY DEF Continue, delete, consume, handBack, readNode, adopt, activate, recordAdopted, reread,
       drop, dropEndpoint, load, update, create, upsert, assign, record, poolEndpoint, poolNode,
       typedIn, dbError, Statement, Answer
  <1>2. handed' = handed \/ (loc[w].t \in Tokens /\ handed' = [handed EXCEPT ![loc[w].t] = @ + 1])
    <2>1. Kind(w)
      BY RequestKinds
    <2>2. QED
      BY <2>1 DEF Kind, Inside, Outside, Answered, Consumed, HandedBack
  <1>3. rows' \subseteq Rows
    <2>1. CASE create(w)
      <3>1. pc[w] = "create"
        BY <2>1 DEF create, Statement
      <3>2. loc[w].ep \in Rows
        BY <1>0, <3>1 DEF Fits, OwnPCs, Locals
      <3>3. QED
        BY <2>1, <3>2 DEF create, TypeOK
    <2>2. CASE poolEndpoint(w)
      BY <1>0, <2>2 DEF poolEndpoint, Fits, TypeOK
    <2>3. CASE typedIn(w)
      BY <1>0, <2>3 DEF typedIn, Fits, TypeOK
    <2>4. CASE dropEndpoint(w)
      BY <2>4 DEF dropEndpoint, TypeOK
    <2>5. CASE \/ delete(w) \/ consume(w) \/ handBack(w) \/ readNode(w) \/ adopt(w) \/ activate(w)
               \/ recordAdopted(w) \/ reread(w) \/ drop(w) \/ load(w) \/ update(w)
               \/ upsert(w) \/ assign(w) \/ record(w) \/ poolNode(w) \/ dbError(w)
      BY <2>5 DEF delete, consume, handBack, readNode, adopt, activate, recordAdopted, reread, drop,
         load, update, upsert, assign, record, poolNode, dbError, database, TypeOK
    <2>6. QED
      BY <2>1, <2>2, <2>3, <2>4, <2>5 DEF Continue
  <1>4. tok' \in [Tokens -> Token]
    <2>0. tok \in [Tokens -> Token] /\ 0 \in Rows \cup {0} /\ loc[w].ep \in Rows \cup {0}
      BY <1>0 DEF TypeOK, Locals
    <2>1. \A x \in Token, e \in Rows \cup {0} : [x EXCEPT !.target = e] \in Token
      BY Zenon DEF Token
    <2>2. \A x \in Token, b \in BOOLEAN : [x EXCEPT !.claimed = b] \in Token
      BY Zenon DEF Token
    <2>3. \A x \in Token : [x EXCEPT !.status = "gone"] \in Token
      BY Zenon DEF Token
    <2>4. ASSUME NEW t, NEW x \in Token, tok' = [tok EXCEPT ![t] = x]
          PROVE  tok' \in [Tokens -> Token]
      BY <2>0, <2>4
    <2>5. CASE delete(w)
      <3>1. loc[w].t \in Tokens
        BY <1>0, <2>5 DEF delete, Fits
      <3>2. QED
        BY <2>0, <2>3, <2>5, <3>1 DEF delete
    <2>6. CASE consume(w) \/ handBack(w)
      <3>1. loc[w].t \in Tokens
        BY <1>0, <2>6 DEF consume, handBack, Fits, ClaimPCs
      <3>2. QED
        BY <2>0, <2>2, <2>6, <3>1 DEF consume, handBack
    <2>7. CASE recordAdopted(w) \/ record(w)
      <3>1. Recorded(w)
        BY <2>7 DEF recordAdopted, record
      <3>2. loc[w].t \in Tokens
        BY <1>0, <2>7 DEF recordAdopted, record, Statement, Fits, ClaimPCs
      <3>3. QED
        BY <2>0, <2>1, <3>1, <3>2 DEF Recorded
    <2>8. CASE dropEndpoint(w)
      BY <2>0, <2>1, <2>8 DEF dropEndpoint
    <2>9. CASE \/ readNode(w) \/ adopt(w) \/ activate(w) \/ reread(w) \/ drop(w) \/ load(w)
               \/ update(w) \/ create(w) \/ upsert(w) \/ assign(w) \/ poolEndpoint(w)
               \/ poolNode(w) \/ typedIn(w) \/ dbError(w)
      BY <2>0, <2>9 DEF readNode, adopt, activate, reread, drop, load, update, create, upsert, assign,
         poolEndpoint, poolNode, typedIn, dbError, database
    <2>10. QED
      BY <2>5, <2>6, <2>7, <2>8, <2>9 DEF Continue
  <1>5. QED
    BY <1>1, <1>2, <1>3, <1>4 DEF TypeOK

\* A request that begins keeps types, Fit and Pool.
LEMMA BeginKeeps ==
  ASSUME TypeOK, Fit, Pool, NEW w \in Workers, NEW p \in PCs, NEW l \in Locals,
         Begin(w, p, l), UNCHANGED <<database, handed>>,
         \A n \in Rows : Fits(p, [l EXCEPT !.n = n])
  PROVE  TypeOK' /\ Fit' /\ Pool'
  <1> DEFINE m == [l EXCEPT !.n = requests + 1]
  <1>1. requests + 1 \in Rows /\ requests' \in 0..MaxRequests
    BY EnrollmentAssumption DEF Begin, TypeOK, Rows
  <1>2. requests + 1 \in 0..MaxRequests
    BY <1>1, EnrollmentAssumption DEF Rows
  <1>3. m \in Locals
    BY <1>2 DEF Locals
  <1>4. Fits(p, m)
    BY <1>1
  <1>5. loc' = [loc EXCEPT ![w] = m] /\ pc' = [pc EXCEPT ![w] = p]
    BY DEF Begin
  <1> HIDE DEF m
  <1>6. pc' \in [Workers -> PCs] /\ loc' \in [Workers -> Locals] /\ Fit'
    BY <1>3, <1>4, <1>5 DEF TypeOK, Fit
  <1>7. QED
    BY <1>1, <1>6 DEF TypeOK, Pool, database

\* Types, Fit and Pool are kept by every step.
LEMMA BaseKept ==
  ASSUME TypeOK, Fit, Pool, Next
  PROVE  TypeOK' /\ Fit' /\ Pool'
  <1>1. ASSUME NEW w \in Workers, Continue(w)  PROVE TypeOK' /\ Fit' /\ Pool'
    <2>1. TypeOK' /\ Fit'
      BY <1>1, RequestFits, NodesKept, TablesKept DEF TypeOK
    <2>2. Pool'
      BY <1>1, NodesKept DEF Pool, Good
    <2>3. QED
      BY <2>1, <2>2
  <1>2. ASSUME NEW t \in Tokens, NEW x \in Token, tok' = [tok EXCEPT ![t] = x],
               UNCHANGED <<rows, node, handed, requests, pc, loc>>
        PROVE  TypeOK' /\ Fit' /\ Pool'
    BY <1>2 DEF TypeOK, Fit, Pool
  <1>3. ASSUME NEW t \in Tokens, expire(t)  PROVE TypeOK' /\ Fit' /\ Pool'
    <2>1. [tok[t] EXCEPT !.expired = TRUE] \in Token
      BY <1>3, Zenon DEF TypeOK, Token
    <2>2. tok' = [tok EXCEPT ![t] = [tok[t] EXCEPT !.expired = TRUE]]
      BY <1>3 DEF expire, TypeOK
    <2>3. QED
      BY <1>2, <1>3, <2>1, <2>2 DEF expire
  <1>4. ASSUME NEW t \in Tokens, NEW e \in Rows \cup {0}, createClaimToken(t, e)
        PROVE  TypeOK' /\ Fit' /\ Pool'
    <2>1. [NoToken EXCEPT !.status = "live", !.target = e] \in Token
      BY DEF NoToken, Token
    <2>2. QED
      BY <1>2, <1>4, <2>1 DEF createClaimToken
  <1>5. ASSUME NEW w \in Workers, NEW t \in Tokens, revokeClaimToken(w, t)
        PROVE  TypeOK' /\ Fit' /\ Pool'
    <2> DEFINE m == [NoLoc EXCEPT !.t = t]
    <2>1. m \in Locals /\ m.t = t
      BY NoLocType DEF Locals, NoLoc
    <2>2. pc' = [pc EXCEPT ![w] = "delete"] /\ loc' = [loc EXCEPT ![w] = m]
      BY <1>5 DEF revokeClaimToken
    <2> HIDE DEF m
    <2>3. Fits("delete", m)
      BY <2>1 DEF Fits, ClaimPCs, OwnPCs, ProvedPCs
    <2>4. pc' \in [Workers -> PCs] /\ loc' \in [Workers -> Locals] /\ Fit'
      BY <2>1, <2>2, <2>3 DEF TypeOK, Fit, PCs
    <2>5. QED
      BY <1>5, <2>4 DEF revokeClaimToken, database, TypeOK, Pool
  <1>6. ASSUME NEW w \in Workers, NEW t \in Tokens, NEW id \in Ids, NEW secret \in Secrets,
               claimEndpoint(w, t, id, secret)
        PROVE  TypeOK' /\ Fit' /\ Pool'
    <2> DEFINE m == [NoLoc EXCEPT !.t = t, !.id = id, !.secret = secret, !.target = tok[t].target]
    <2>1. m \in Locals /\ m.t = t /\ m.id = id
      BY NoLocType DEF Locals, NoLoc, TypeOK, Token
    <2>2. Begin(w, "consume", m)
      BY <1>6 DEF claimEndpoint
    <2> HIDE DEF m
    <2>3. ASSUME NEW n \in Rows  PROVE Fits("consume", [m EXCEPT !.n = n])
      BY <2>1 DEF Fits, ClaimPCs, OwnPCs, ProvedPCs, Locals
    <2>4. QED
      BY <1>6, <2>1, <2>2, <2>3, BeginKeeps DEF claimEndpoint, PCs
  <1>7. ASSUME NEW w \in Workers, NEW id \in Ids, NEW secret \in Secrets, heartbeat(w, id, secret)
        PROVE  TypeOK' /\ Fit' /\ Pool'
    <2> DEFINE m == [NoLoc EXCEPT !.id = id, !.secret = secret]
    <2>1. m \in Locals /\ m.secret = secret /\ m.id = id
      BY NoLocType DEF Locals, NoLoc
    <2>2. Begin(w, "pool", m) /\ secret # 0
      BY <1>7 DEF heartbeat
    <2> HIDE DEF m
    <2>3. ASSUME NEW n \in Rows  PROVE Fits("pool", [m EXCEPT !.n = n])
      BY <2>1, <2>2 DEF Fits, ClaimPCs, OwnPCs, ProvedPCs, Locals
    <2>4. QED
      BY <1>7, <2>1, <2>2, <2>3, BeginKeeps DEF heartbeat, PCs
  <1>8. ASSUME NEW w \in Workers, NEW id \in Ids, typeIn(w, id)  PROVE TypeOK' /\ Fit' /\ Pool'
    <2> DEFINE m == [NoLoc EXCEPT !.id = id]
    <2>1. m \in Locals /\ m.id = id
      BY NoLocType DEF Locals, NoLoc
    <2>2. Begin(w, "typeIn", m)
      BY <1>8 DEF typeIn
    <2> HIDE DEF m
    <2>3. ASSUME NEW n \in Rows  PROVE Fits("typeIn", [m EXCEPT !.n = n])
      BY <2>1 DEF Fits, ClaimPCs, OwnPCs, ProvedPCs, Locals
    <2>4. QED
      BY <1>8, <2>1, <2>2, <2>3, BeginKeeps DEF typeIn, PCs
  <1>9. QED
    BY <1>1, <1>3, <1>4, <1>5, <1>6, <1>7, <1>8 DEF Next

-----------------------------------------------------------------------------
(* The results.                                                            *)

\* The parts of the invariant hold initially and are kept by every step of
\* every request: what a request has read still says enough, one claim works
\* with a token, and a token that is marked has somebody who marked it.
THEOREM Inductive == Spec => []IInv
  <1>1. Init => IInv
    <2> SUFFICES ASSUME Init  PROVE IInv
      OBVIOUS
    <2>1. TypeOK
      <3>1. \A t \in Tokens : handed[t] \in Nat
        BY DEF Init
      <3>2. "idle" \in PCs /\ 0 \in 0..MaxRequests
        BY EnrollmentAssumption DEF PCs
      <3>3. QED
        BY <3>1, <3>2, NoLocType DEF Init, TypeOK
    <2>2. Fit
      BY IdleFits DEF Init, Fit
    <2>3. Pool
      BY DEF Init, Pool, NoNode
    <2>4. \A w \in Workers, t \in Tokens : ~Holding(w, t)
      BY DEF Init, Holding, ClaimPCs
    <2>5. Sole
      BY <2>4 DEF Init, Sole
    <2>6. Lost
      BY DEF Init, Lost, NoToken
    <2>7. QED
      BY <2>1, <2>2, <2>3, <2>5, <2>6 DEF IInv
  <1>2. IInv /\ [Next]_vars => IInv'
    <2> SUFFICES ASSUME IInv, [Next]_vars  PROVE IInv'
      OBVIOUS
    <2>1. CASE Next
      BY <2>1, BaseKept, TokensKept DEF IInv
    <2>2. CASE UNCHANGED vars
      BY <2>2 DEF vars, database, IInv, TypeOK, Fit, Pool, Sole, Lost, Holding, Used
    <2>3. QED
      BY <2>1, <2>2
  <1>3. QED
    BY <1>1, <1>2, PTL DEF Spec

\* Endpoint rows, nodes, tokens and the locals of every request keep their
\* type, with any number of claims, heartbeats and typed-in computers in
\* flight.
THEOREM TypeCorrect == Spec => []TypeOK
  <1>1. IInv => TypeOK
    BY DEF IInv
  <1>2. QED
    BY <1>1, Inductive, PTL

\* The conditional update that consumes a token is enough: however many
\* installers race, one claim at a time works with it and one is answered.
THEOREM ClaimsUseATokenOnce == Spec => []ClaimsAreSingleUse
  <1>1. IInv => ClaimsAreSingleUse
    <2> SUFFICES ASSUME IInv, NEW t \in Tokens
                 PROVE  handed[t] <= 1 /\ \A w \in Holders(t) : handed[t] = 0 /\ Holders(t) = {w}
      BY DEF ClaimsAreSingleUse
    <2>1. handed[t] <= 1
      BY DEF IInv, Sole
    <2>2. ASSUME NEW w \in Holders(t)  PROVE handed[t] = 0 /\ Holders(t) = {w}
      <3>1. w \in Workers /\ Holding(w, t)
        BY <2>2 DEF Holders, Holding
      <3>2. \A v \in Holders(t) : v \in Workers /\ Holding(v, t)
        BY DEF Holders, Holding
      <3>3. QED
        BY <2>2, <3>1, <3>2 DEF IInv, Sole
    <2>3. QED
      BY <2>1, <2>2
  <1>2. QED
    BY <1>1, Inductive, PTL

\* Whichever statement of a claim fails, its token is handed back: one that
\* is marked as used enrolled somebody or is being worked with.
THEOREM TokensComeBack == Spec => []NoTokenIsLost
  <1>1. IInv => NoTokenIsLost
    BY DEF IInv, Lost, NoTokenIsLost, Holders, Holding
  <1>2. QED
    BY <1>1, Inductive, PTL

\* A request that changes the secret of a computer may do so: a row addressed
\* by id has the endpoint it was read with, whatever its RustDesk ID is now.
LEMMA StepIsProved ==
  ASSUME IInv, NEW w \in Workers, Continue(w), NEW id \in Ids,
         node[id].secret # 0, node'[id].secret # node[id].secret
  PROVE  /\ pc[w] \in ClaimPCs /\ pc'[w] # pc[w]
         /\ \/ loc[w].seen.ep = node[id].ep /\ loc[w].secret = loc[w].seen.secret
            \/ node[id].ep \in {loc[w].target, loc[w].n}
  <1>0. TypeOK /\ Fits(pc[w], loc[w]) /\ node[id] # NoNode
    BY DEF IInv, Fit, NoNode
  <1>1. CASE adopt(w)
    <2>1. pc[w] = "adopt" /\ pc'[w] \in {"activate", "handBack"}
      BY <1>0, <1>1, StatementKind DEF adopt, ClaimPCs
    <2>2. id \in RowOf(loc[w].seen)
      BY <1>0, <1>1 DEF adopt, TypeOK
    <2>3. QED
      BY <1>0, <2>1, <2>2 DEF RowOf, Fits, ProvedPCs, ClaimPCs
  <1>2. CASE drop(w)
    <2>1. pc[w] = "drop" /\ pc'[w] \in {"dropEndpoint", "handBack"}
      BY <1>0, <1>2, StatementKind DEF drop, ClaimPCs
    <2>2. id \in RowOf(loc[w].seen)
      BY <1>0, <1>2 DEF drop, TypeOK
    <2>3. QED
      BY <1>0, <2>1, <2>2 DEF RowOf, Fits, ProvedPCs, ClaimPCs
  <1>3. CASE dropEndpoint(w)
    <2>1. pc[w] = "dropEndpoint" /\ pc'[w] \in {"load", "handBack"}
      BY <1>0, <1>3, StatementKind DEF dropEndpoint, ClaimPCs
    <2>2. node[id].ep = loc[w].ep
      BY <1>0, <1>3 DEF dropEndpoint, TypeOK
    <2>3. QED
      BY <1>0, <2>1, <2>2 DEF Fits, ProvedPCs, ClaimPCs
  <1>4. CASE upsert(w)
    <2>1. pc[w] = "upsert" /\ pc'[w] \in {"assign", "handBack"}
      BY <1>0, <1>4, StatementKind DEF upsert, ClaimPCs
    <2>2. node[id].ep = loc[w].ep
      BY <1>0, <1>4 DEF upsert, Taken, TypeOK
    <2>3. QED
      BY <1>0, <2>1, <2>2 DEF Fits, OwnPCs, ClaimPCs
  <1>5. CASE poolNode(w) \/ typedIn(w)
    BY <1>0, <1>5 DEF poolNode, typedIn, TypeOK
  <1>6. CASE \/ delete(w) \/ consume(w) \/ handBack(w) \/ readNode(w) \/ activate(w)
             \/ recordAdopted(w) \/ reread(w) \/ load(w) \/ update(w) \/ create(w)
             \/ assign(w) \/ record(w) \/ poolEndpoint(w) \/ dbError(w)
    <2>1. node' = node
      BY <1>6 DEF delete, consume, handBack, readNode, activate, recordAdopted, reread, load, update,
         create, assign, record, poolEndpoint, dbError, database
    <2>2. QED
      BY <2>1
  <1>7. QED
    BY <1>1, <1>2, <1>3, <1>4, <1>5, <1>6 DEF Continue

\* The secret a computer is bound to is replaced or removed only by a claim
\* that proved the one it had when the claim looked, or whose token or own row
\* is that computer's, though other claims may adopt, rename, bind or delete
\* it between the look and the write.
THEOREM IdentitiesAreProved == Spec => IdentityIsProved
  <1> DEFINE Proved ==
        \A id \in Ids :
          node[id].secret # 0 /\ node'[id].secret # node[id].secret =>
            \E w \in Workers :
              /\ pc[w] \in ClaimPCs /\ pc'[w] # pc[w]
              /\ \/ loc[w].seen.ep = node[id].ep /\ loc[w].secret = loc[w].seen.secret
                 \/ node[id].ep \in {loc[w].target, loc[w].n}
  <1>1. IInv /\ [Next]_vars => [Proved]_vars
    <2> SUFFICES ASSUME IInv, Next, NEW id \in Ids,
                        node[id].secret # 0, node'[id].secret # node[id].secret
                 PROVE  \E w \in Workers :
                          /\ pc[w] \in ClaimPCs /\ pc'[w] # pc[w]
                          /\ \/ loc[w].seen.ep = node[id].ep /\ loc[w].secret = loc[w].seen.secret
                             \/ node[id].ep \in {loc[w].target, loc[w].n}
      OBVIOUS
    <2>1. node' # node
      OBVIOUS
    <2>2. PICK w \in Workers : Continue(w)
      BY <2>1 DEF Next, expire, createClaimToken, revokeClaimToken, claimEndpoint, heartbeat, typeIn,
         database
    <2>3. QED
      BY <2>2, StepIsProved
  <1>2. QED
    BY <1>1, Inductive, PTL DEF Spec, IdentityIsProved

-----------------------------------------------------------------------------
(* The device credentials of one enrolled computer: DeviceCredentials, as  *)
(* an instance with variables of its own beside those of Enrollment.       *)
CONSTANTS MaxInstalls, MaxRotations, MaxPasswords, Faults

VARIABLES credNode, credPc, credLoc, disk, rd, doubtful, run, inst,
          installs, rotations, secrets, taken

Cred == INSTANCE DeviceCredentials WITH node <- credNode, pc <- credPc, loc <- credLoc

\* The type of what the computer keeps, of the counters and of the requests.
ComputerTyped ==
  /\ disk \in [secret : Cred!Secrets, pw : Cred!Passwords]
  /\ rd \in Cred!Passwords /\ doubtful \in BOOLEAN
  /\ run \in [at : {"off", "beat", "apply", "confirm", "confirming", "persist"},
              w : Workers \cup {Cred!NoWorker}, secret : Cred!Secrets, rot : Cred!Passwords]
  /\ inst \in [at : {"off", "register", "claiming", "fallback", "beating", "write", "poll"},
               w : Workers \cup {Cred!NoWorker}, secret : Cred!Secrets, pw : Cred!Passwords]
  /\ taken \subseteq Cred!Passwords

MadeTyped ==
  /\ installs \in 1..MaxInstalls /\ rotations \in 0..MaxRotations /\ secrets \in 1..MaxSecrets

RequestsTyped ==
  /\ credPc \in [Workers -> Cred!PCs]
  /\ credLoc \in [Workers -> Cred!Locals]

\* The type invariant in four parts.
LEMMA CredTyped ==
  Cred!TypeOK <=> credNode \in Cred!Node /\ ComputerTyped /\ MadeTyped /\ RequestsTyped
  BY DEF Cred!TypeOK, ComputerTyped, MadeTyped, RequestsTyped

\* The same after a step.
LEMMA CredTypedNext ==
  Cred!TypeOK' <=> credNode' \in Cred!Node /\ ComputerTyped' /\ MadeTyped' /\ RequestsTyped'
  BY DEF Cred!TypeOK, ComputerTyped, MadeTyped, RequestsTyped

\* What there is of secrets and passwords to begin with.
LEMMA CredRanges ==
  ASSUME Cred!CredentialsAssumption
  PROVE  /\ 0 \in Cred!Secrets /\ 1 \in Cred!Secrets
         /\ 0 \in Cred!Passwords /\ 1 \in Cred!Passwords
         /\ Cred!Secrets \subseteq Int /\ Cred!Passwords \subseteq Int
         /\ 1 \in 1..MaxInstalls /\ 0 \in 0..MaxRotations /\ 1 \in 1..MaxSecrets
  BY DEF Cred!CredentialsAssumption, Cred!Secrets, Cred!Passwords

\* The constant records are of their types.
LEMMA CredConstants ==
  ASSUME Cred!CredentialsAssumption
  PROVE  /\ Cred!NoCandidate \in Cred!Candidate
         /\ Cred!NoLoc \in Cred!Locals
  <1>1. Cred!NoCandidate \in Cred!Candidate
    BY CredRanges DEF Cred!NoCandidate, Cred!Candidate
  <1>2. QED
    BY <1>1, CredRanges DEF Cred!NoLoc, Cred!Locals

\* A computer that was enrolled is of its type.
LEMMA CredInitTyped ==
  ASSUME Cred!CredentialsAssumption, Cred!Init
  PROVE  Cred!TypeOK
  <1>1. credNode \in Cred!Node
    BY CredRanges, CredConstants DEF Cred!Init, Cred!Node
  <1>2. ComputerTyped
    BY CredRanges DEF Cred!Init, ComputerTyped, Cred!RunOff, Cred!InstOff
  <1>3. MadeTyped
    BY CredRanges DEF Cred!Init, MadeTyped
  <1>4. RequestsTyped
    BY CredConstants DEF Cred!Init, RequestsTyped, Cred!PCs
  <1>5. QED
    BY <1>1, <1>2, <1>3, <1>4, CredTyped

\* A request that moves stays of its type.
LEMMA CredGotoTyped ==
  ASSUME RequestsTyped, NEW w \in Workers, NEW p \in Cred!PCs, NEW l \in Cred!Locals,
         Cred!Goto(w, p, l)
  PROVE  RequestsTyped'
  BY DEF RequestsTyped, Cred!Goto

\* An answer leaves everything but the row of its type.
LEMMA CredAnswerTyped ==
  ASSUME Cred!CredentialsAssumption, Cred!TypeOK, NEW w \in Workers,
         NEW next \in {"off", "apply", "persist"}, NEW rot \in Cred!Passwords,
         Cred!Answer(w, next, rot)
  PROVE  ComputerTyped' /\ MadeTyped' /\ RequestsTyped'
  <1>1. RequestsTyped'
    BY CredTyped, CredConstants, CredGotoTyped DEF Cred!Answer, Cred!Return, Cred!PCs
  <1>2. MadeTyped'
    BY CredTyped DEF Cred!Answer, Cred!made, MadeTyped
  <1>3. Cred!RunOff \in [at : {"off", "beat", "apply", "confirm", "confirming", "persist"},
              w : Workers \cup {Cred!NoWorker}, secret : Cred!Secrets, rot : Cred!Passwords]
    BY CredRanges DEF Cred!RunOff
  <1>4. run' \in [at : {"off", "beat", "apply", "confirm", "confirming", "persist"},
              w : Workers \cup {Cred!NoWorker}, secret : Cred!Secrets, rot : Cred!Passwords]
    BY <1>3, CredTyped DEF Cred!Answer, ComputerTyped
  <1>5. inst' \in [at : {"off", "register", "claiming", "fallback", "beating", "write", "poll"},
               w : Workers \cup {Cred!NoWorker}, secret : Cred!Secrets, pw : Cred!Passwords]
    BY CredTyped DEF Cred!Answer, ComputerTyped
  <1>6. QED
    BY <1>1, <1>2, <1>4, <1>5, CredTyped DEF Cred!Answer, ComputerTyped

\* A handler's step keeps the types.
LEMMA CredContinueTyped ==
  ASSUME Cred!CredentialsAssumption, Cred!TypeOK, NEW w \in Workers, Cred!Continue(w)
  PROVE  Cred!TypeOK'
  <1> USE CredTyped
  <1> DEFINE l == credLoc[w]
  <1>l. /\ l \in Cred!Locals /\ l.secret \in Cred!Secrets /\ l.pw \in Cred!Passwords
        /\ l.seen \in Cred!Candidate /\ l.seen.secret \in Cred!Secrets
        /\ l.seen.pw \in Cred!Passwords
    BY DEF RequestsTyped, Cred!Locals, Cred!Candidate
  <1>n. /\ credNode \in Cred!Node /\ credNode.cand \in Cred!Candidate
        /\ credNode.pending \in Cred!Passwords /\ credNode.perm \in Cred!Passwords
    BY DEF Cred!Node
  <1>1. CASE Cred!update(w)
    <2>1. credNode' \in Cred!Node
      BY <1>1, <1>l, <1>n, CredConstants DEF Cred!update, Cred!Node
    <2>2. RequestsTyped'
      BY <1>1, CredConstants, CredGotoTyped DEF Cred!update, Cred!PCs
    <2>3. ComputerTyped' /\ MadeTyped'
      BY <1>1 DEF Cred!update, Cred!computer, Cred!made, ComputerTyped, MadeTyped
    <2>4. QED
      BY <2>1, <2>2, <2>3, CredTypedNext
  <1>2. CASE Cred!answer(w)
    <2>1. ComputerTyped' /\ MadeTyped' /\ RequestsTyped'
      BY <1>2, <1>n, CredAnswerTyped DEF Cred!answer
    <2>2. QED
      BY <1>2, <1>n, <2>1, CredTypedNext DEF Cred!answer
  <1>3. CASE Cred!offer(w)
    <2>1. ComputerTyped' /\ MadeTyped' /\ RequestsTyped'
      BY <1>3, CredRanges, CredAnswerTyped DEF Cred!offer
    <2> DEFINE seenAgain == [credNode.cand EXCEPT !.live = TRUE,
                              !.pw = IF l.pw # 0 THEN l.pw ELSE @,
                              !.conflict = @ /\ ~(l.seen.conflict /\ l.seen.settled)]
               offered == [secret |-> l.secret, pw |-> l.pw, live |-> TRUE, settled |-> FALSE,
                           conflict |-> l.seen.secret # 0 /\ l.seen.live]
    <2>2. seenAgain \in Cred!Candidate
      BY <1>l, <1>n DEF Cred!Candidate
    <2>3. offered \in Cred!Candidate
      BY <1>l DEF Cred!Candidate
    <2>4. credNode' = [credNode EXCEPT !.cand =
                        IF l.seen.secret = l.secret THEN seenAgain ELSE offered]
      BY <1>3 DEF Cred!offer
    <2> HIDE DEF seenAgain, offered
    <2>5. credNode' \in Cred!Node
      BY <1>n, <2>2, <2>3, <2>4 DEF Cred!Node
    <2>6. QED
      BY <2>1, <2>5, CredTypedNext
  <1>4. CASE Cred!swap(w)
    <2>1. ComputerTyped' /\ MadeTyped' /\ RequestsTyped'
      BY <1>4, <1>l, CredAnswerTyped DEF Cred!swap
    <2>2. credNode' \in Cred!Node
      BY <1>4, <1>l, <1>n, CredRanges DEF Cred!swap, Cred!Node
    <2>3. QED
      BY <2>1, <2>2, CredTypedNext
  <1>5. CASE Cred!refuse(w)
    <2>1. ComputerTyped' /\ MadeTyped' /\ RequestsTyped'
      BY <1>5, CredRanges, CredAnswerTyped DEF Cred!refuse
    <2>2. QED
      BY <1>5, <1>n, <2>1, CredTypedNext DEF Cred!refuse
  <1>6. CASE Cred!upsert(w)
    <2>1. ComputerTyped' /\ MadeTyped' /\ RequestsTyped'
      BY <1>6, CredRanges, CredAnswerTyped DEF Cred!upsert
    <2>2. credNode' \in Cred!Node
      BY <1>6, <1>l, <1>n DEF Cred!upsert, Cred!Node
    <2>3. QED
      BY <2>1, <2>2, CredTypedNext
  <1>7. CASE Cred!bind(w)
    <2>1. credNode' \in Cred!Node
      BY <1>7, <1>l, <1>n, CredConstants DEF Cred!bind, Cred!Node
    <2>2. RequestsTyped'
      BY <1>7, CredConstants, CredGotoTyped DEF Cred!bind, Cred!Return, Cred!PCs
    <2>3. ComputerTyped' /\ MadeTyped'
      BY <1>7 DEF Cred!bind, Cred!computer, Cred!made, ComputerTyped, MadeTyped
    <2>4. QED
      BY <2>1, <2>2, <2>3, CredTypedNext
  <1>8. QED
    BY <1>1, <1>2, <1>3, <1>4, <1>5, <1>6, <1>7 DEF Cred!Continue

\* Sending a heartbeat keeps the types of the row, the counters and the requests.
LEMMA CredHeartbeatTyped ==
  ASSUME Cred!CredentialsAssumption, Cred!TypeOK, NEW w \in Workers,
         NEW secret \in Cred!Secrets, NEW pw \in Cred!Passwords, Cred!heartbeat(w, secret, pw)
  PROVE  credNode' \in Cred!Node /\ MadeTyped' /\ RequestsTyped'
  <1> DEFINE l == [secret |-> secret, pw |-> pw, seen |-> credNode.cand]
  <1>1. l \in Cred!Locals
    BY CredTyped DEF Cred!Locals, Cred!Node
  <1>2. RequestsTyped'
    BY <1>1, CredTyped, CredGotoTyped DEF Cred!heartbeat, Cred!PCs
  <1>3. QED
    BY <1>2, CredTyped DEF Cred!heartbeat, Cred!made, MadeTyped

\* A step of heartbeat.ps1 keeps the types.
LEMMA CredScriptTyped ==
  ASSUME Cred!CredentialsAssumption, Cred!TypeOK,
         Cred!Script \/ \E w \in Workers : Cred!beat(w) \/ Cred!sendConfirm(w)
  PROVE  Cred!TypeOK'
  <1> USE CredTyped
  <1>r. Cred!RunOff \in [at : {"off", "beat", "apply", "confirm", "confirming", "persist"},
              w : Workers \cup {Cred!NoWorker}, secret : Cred!Secrets, rot : Cred!Passwords]
    BY CredRanges DEF Cred!RunOff
  <1>1. CASE Cred!giveUp
    <2>1. credNode' \in Cred!Node /\ ComputerTyped' /\ MadeTyped' /\ RequestsTyped'
      BY <1>1, <1>r DEF Cred!giveUp, Cred!made, ComputerTyped, MadeTyped, RequestsTyped
    <2>2. QED
      BY <2>1, CredTypedNext
  <1>2. CASE Cred!persist
    <2>1. credNode' \in Cred!Node /\ ComputerTyped' /\ MadeTyped' /\ RequestsTyped'
      BY <1>2, <1>r DEF Cred!persist, Cred!made, ComputerTyped, MadeTyped, RequestsTyped
    <2>2. QED
      BY <2>1, CredTypedNext
  <1>3. ASSUME NEW took \in BOOLEAN, Cred!apply(took)
        PROVE  Cred!TypeOK'
    <2>1. credNode' \in Cred!Node /\ ComputerTyped' /\ MadeTyped' /\ RequestsTyped'
      BY <1>3 DEF Cred!apply, Cred!made, ComputerTyped, MadeTyped, RequestsTyped
    <2>2. QED
      BY <2>1, CredTypedNext
  <1>4. ASSUME NEW w \in Workers, Cred!beat(w)
        PROVE  Cred!TypeOK'
    <2>1. disk.secret \in Cred!Secrets /\ disk.pw \in Cred!Passwords
      BY DEF ComputerTyped
    <2>2. credNode' \in Cred!Node /\ MadeTyped' /\ RequestsTyped'
      BY <1>4, <2>1, CredHeartbeatTyped DEF Cred!beat
    <2>3. ComputerTyped'
      BY <1>4, <1>r, <2>1 DEF Cred!beat, ComputerTyped
    <2>4. QED
      BY <2>2, <2>3, CredTypedNext
  <1>5. ASSUME NEW w \in Workers, Cred!sendConfirm(w)
        PROVE  Cred!TypeOK'
    <2>1. [Cred!NoLoc EXCEPT !.pw = credNode.pending] \in Cred!Locals
      BY CredConstants DEF Cred!Locals, Cred!Node
    <2>2. RequestsTyped'
      BY <1>5, <2>1, CredConstants, CredGotoTyped
         DEF Cred!sendConfirm, Cred!confirmRotation, Cred!PCs
    <2>3. credNode' \in Cred!Node /\ MadeTyped'
      BY <1>5 DEF Cred!sendConfirm, Cred!confirmRotation, Cred!made, MadeTyped
    <2>4. ComputerTyped'
      BY <1>5 DEF Cred!sendConfirm, ComputerTyped
    <2>5. QED
      BY <2>2, <2>3, <2>4, CredTypedNext
  <1>6. QED
    BY <1>1, <1>2, <1>3, <1>4, <1>5 DEF Cred!Script

\* A step of the installer keeps the types.
LEMMA CredInstallerTyped ==
  ASSUME Cred!CredentialsAssumption, Cred!TypeOK,
         \/ Cred!Installer \/ Cred!wipe
         \/ \E took \in BOOLEAN : Cred!install(took)
         \/ \E w \in Workers : Cred!testRegistered(w)
  PROVE  Cred!TypeOK'
  <1> USE CredTyped
  <1>i. Cred!InstOff \in [at : {"off", "register", "claiming", "fallback", "beating", "write", "poll"},
               w : Workers \cup {Cred!NoWorker}, secret : Cred!Secrets, pw : Cred!Passwords]
    BY CredRanges DEF Cred!InstOff
  <1>s. inst.secret \in Cred!Secrets /\ inst.pw \in Cred!Passwords
    BY DEF ComputerTyped
  <1>1. CASE Cred!write
    <2>1. credNode' \in Cred!Node /\ ComputerTyped' /\ MadeTyped' /\ RequestsTyped'
      BY <1>1 DEF Cred!write, Cred!made, ComputerTyped, MadeTyped, RequestsTyped
    <2>2. QED
      BY <2>1, CredTypedNext
  <1>2. CASE Cred!endInstall
    <2>1. credNode' \in Cred!Node /\ ComputerTyped' /\ MadeTyped' /\ RequestsTyped'
      BY <1>2, <1>i DEF Cred!endInstall, Cred!made, ComputerTyped, MadeTyped, RequestsTyped
    <2>2. QED
      BY <2>1, CredTypedNext
  <1>3. CASE Cred!noAnswer
    <2>1. credNode' \in Cred!Node /\ ComputerTyped' /\ MadeTyped' /\ RequestsTyped'
      BY <1>3 DEF Cred!noAnswer, Cred!made, ComputerTyped, MadeTyped, RequestsTyped
    <2>2. QED
      BY <2>1, CredTypedNext
  <1>4. ASSUME NEW w \in Workers, Cred!registerClaim(w)
        PROVE  Cred!TypeOK'
    <2>1. [Cred!NoLoc EXCEPT !.secret = inst.secret, !.pw = inst.pw] \in Cred!Locals
      BY <1>s, CredConstants DEF Cred!Locals
    <2>2. RequestsTyped'
      BY <1>4, <2>1, CredGotoTyped DEF Cred!registerClaim, Cred!claimEndpoint, Cred!PCs
    <2>3. credNode' \in Cred!Node /\ MadeTyped'
      BY <1>4 DEF Cred!registerClaim, Cred!claimEndpoint, Cred!made, MadeTyped
    <2>4. ComputerTyped'
      BY <1>4 DEF Cred!registerClaim, ComputerTyped
    <2>5. QED
      BY <2>2, <2>3, <2>4, CredTypedNext
  <1>5. ASSUME NEW w \in Workers, Cred!registerHeartbeat(w)
        PROVE  Cred!TypeOK'
    <2>1. credNode' \in Cred!Node /\ MadeTyped' /\ RequestsTyped'
      BY <1>5, <1>s, CredHeartbeatTyped DEF Cred!registerHeartbeat
    <2>2. ComputerTyped'
      BY <1>5 DEF Cred!registerHeartbeat, ComputerTyped
    <2>3. QED
      BY <2>1, <2>2, CredTypedNext
  <1>6. CASE Cred!wipe
    <2>1. credNode' \in Cred!Node /\ ComputerTyped' /\ MadeTyped' /\ RequestsTyped'
      BY <1>6, CredRanges DEF Cred!wipe, Cred!made, ComputerTyped, MadeTyped, RequestsTyped
    <2>2. QED
      BY <2>1, CredTypedNext
  <1>7. ASSUME NEW took \in BOOLEAN, Cred!install(took)
        PROVE  Cred!TypeOK'
    <2> DEFINE pw     == installs + 1
               secret == IF disk.secret # 0 THEN disk.secret ELSE secrets + 1
    <2>1. /\ installs \in 1..MaxInstalls /\ secrets \in 1..MaxSecrets /\ rotations \in 0..MaxRotations
          /\ disk.secret \in Cred!Secrets
      BY DEF MadeTyped, ComputerTyped
    <2>2. pw \in 1..MaxInstalls /\ pw \in Cred!Passwords
      BY <1>7, <2>1 DEF Cred!install, Cred!Passwords, Cred!CredentialsAssumption
    <2>3. secret \in Cred!Secrets /\ secrets' \in 1..MaxSecrets
      BY <1>7, <2>1 DEF Cred!install, Cred!Secrets, Cred!CredentialsAssumption
    <2>4. MadeTyped'
      BY <1>7, <2>1, <2>2, <2>3 DEF Cred!install, MadeTyped
    <2>5. /\ inst' = [Cred!InstOff EXCEPT !.at = "register", !.secret = secret, !.pw = pw]
          /\ rd' = IF took THEN pw ELSE rd
      BY <1>7 DEF Cred!install
    <2> HIDE DEF pw, secret
    <2>6. ComputerTyped'
      BY <1>7, <1>i, <2>2, <2>3, <2>5 DEF Cred!install, ComputerTyped
    <2>7. credNode' \in Cred!Node /\ RequestsTyped'
      BY <1>7 DEF Cred!install, RequestsTyped
    <2>8. QED
      BY <2>4, <2>6, <2>7, CredTypedNext
  <1>8. ASSUME NEW w \in Workers, Cred!testRegistered(w)
        PROVE  Cred!TypeOK'
    <2>1. credNode' \in Cred!Node /\ MadeTyped' /\ RequestsTyped'
      BY <1>8, <1>s, CredRanges, CredHeartbeatTyped DEF Cred!testRegistered
    <2>2. ComputerTyped'
      BY <1>8 DEF Cred!testRegistered, Cred!computer, ComputerTyped
    <2>3. QED
      BY <2>1, <2>2, CredTypedNext
  <1>9. QED
    BY <1>1, <1>2, <1>3, <1>4, <1>5, <1>6, <1>7, <1>8 DEF Cred!Installer

\* A step of an operator, or of the clock, keeps the types.
LEMMA CredOperatorTyped ==
  ASSUME Cred!CredentialsAssumption, Cred!TypeOK,
         \/ Cred!rotateCredential \/ Cred!passLive \/ Cred!passSettle
         \/ \E w \in Workers : Cred!acceptDeviceSecret(w)
  PROVE  Cred!TypeOK'
  <1> USE CredTyped
  <1>n. credNode \in Cred!Node /\ credNode.cand \in Cred!Candidate
    BY DEF Cred!Node
  <1>1. CASE Cred!rotateCredential
    <2>1. rotations \in 0..MaxRotations
      BY DEF MadeTyped
    <2>2. rotations' \in 0..MaxRotations /\ -(rotations + 1) \in Cred!Passwords
      BY <1>1, <2>1 DEF Cred!rotateCredential, Cred!Passwords, Cred!CredentialsAssumption
    <2>3. credNode' \in Cred!Node
      BY <1>1, <1>n, <2>2 DEF Cred!rotateCredential, Cred!Node
    <2>4. ComputerTyped' /\ MadeTyped' /\ RequestsTyped'
      BY <1>1, <2>2 DEF Cred!rotateCredential, Cred!computer, ComputerTyped, MadeTyped, RequestsTyped
    <2>5. QED
      BY <2>3, <2>4, CredTypedNext
  <1>2. CASE Cred!passLive
    <2>1. credNode' \in Cred!Node
      BY <1>2, <1>n DEF Cred!passLive, Cred!Node, Cred!Candidate
    <2>2. ComputerTyped' /\ MadeTyped' /\ RequestsTyped'
      BY <1>2 DEF Cred!passLive, Cred!computer, Cred!made, ComputerTyped, MadeTyped, RequestsTyped
    <2>3. QED
      BY <2>1, <2>2, CredTypedNext
  <1>3. CASE Cred!passSettle
    <2>1. credNode' \in Cred!Node
      BY <1>3, <1>n DEF Cred!passSettle, Cred!Node, Cred!Candidate
    <2>2. ComputerTyped' /\ MadeTyped' /\ RequestsTyped'
      BY <1>3 DEF Cred!passSettle, Cred!computer, Cred!made, ComputerTyped, MadeTyped, RequestsTyped
    <2>3. QED
      BY <2>1, <2>2, CredTypedNext
  <1>4. ASSUME NEW w \in Workers, Cred!acceptDeviceSecret(w)
        PROVE  Cred!TypeOK'
    <2>1. [Cred!NoLoc EXCEPT !.seen = credNode.cand] \in Cred!Locals
      BY <1>n, CredConstants DEF Cred!Locals
    <2>2. RequestsTyped'
      BY <1>4, <2>1, CredGotoTyped DEF Cred!acceptDeviceSecret, Cred!PCs
    <2>3. credNode' \in Cred!Node /\ ComputerTyped' /\ MadeTyped'
      BY <1>4 DEF Cred!acceptDeviceSecret, Cred!computer, Cred!made, ComputerTyped, MadeTyped
    <2>4. QED
      BY <2>2, <2>3, CredTypedNext
  <1>5. QED
    BY <1>1, <1>2, <1>3, <1>4

\* Every step keeps the types.
LEMMA CredNextTyped ==
  ASSUME Cred!CredentialsAssumption, Cred!TypeOK, [Cred!Next]_Cred!vars
  PROVE  Cred!TypeOK'
  <1>1. CASE UNCHANGED Cred!vars
    BY <1>1 DEF Cred!vars, Cred!computer, Cred!made, Cred!TypeOK
  <1>2. CASE Cred!Next
    BY <1>2, CredContinueTyped, CredScriptTyped, CredInstallerTyped, CredOperatorTyped DEF Cred!Next
  <1>3. QED
    BY <1>1, <1>2

\* The credentials on both sides stay of their types: no password or secret
\* beyond those made, whatever is lost, repeated or reinstalled.
THEOREM CredentialsTypeCorrect ==
  ASSUME Cred!CredentialsAssumption
  PROVE  Cred!Spec => []Cred!TypeOK
  <1>1. Cred!Init => Cred!TypeOK
    BY CredInitTyped
  <1>2. Cred!TypeOK /\ [Cred!Next]_Cred!vars => Cred!TypeOK'
    BY CredNextTyped
  <1>3. QED
    BY <1>1, <1>2, PTL DEF Cred!Spec

-----------------------------------------------------------------------------
(* A rotated password was taken.                                           *)

\* A password that, when the server made it, is among those RustDesk accepted.
Accepted(p, t) == p < 0 => p \in t

\* A rotated password reaches the row by a confirmation, a heartbeat, a claim
\* or an accepted candidate.  Each of them carries what the computer sent, and
\* it sends a rotated password only once apply() is done or from its file,
\* which only persist() gives one.
RowAccepted ==
  /\ Accepted(credNode.perm, taken) /\ Accepted(credNode.cand.pw, taken)
  /\ credNode.pending <= 0

SentAccepted ==
  /\ Accepted(disk.pw, taken) /\ inst.pw >= 0
  /\ run.at \in {"confirm", "confirming", "persist"} => Accepted(run.rot, taken)

\* The locals of a request at p.
LocAccepted(p, l, t) ==
  /\ Accepted(l.pw, t) /\ Accepted(l.seen.pw, t)
  /\ p = "swap" => l.pw < 0

RequestsAccepted == \A w \in Workers : LocAccepted(credPc[w], credLoc[w], taken)

CredInv == Cred!TypeOK /\ RowAccepted /\ SentAccepted /\ RequestsAccepted

\* A request that moves with accepted passwords keeps all of them accepted.
LEMMA GotoAccepted ==
  ASSUME Cred!TypeOK, RequestsAccepted, taken' = taken,
         NEW w \in Workers, NEW p, NEW l, Cred!Goto(w, p, l), LocAccepted(p, l, taken)
  PROVE  RequestsAccepted'
  <1> SUFFICES ASSUME NEW v \in Workers
               PROVE  LocAccepted(credPc'[v], credLoc'[v], taken')
    BY DEF RequestsAccepted
  <1>1. CASE v = w
    BY <1>1, CredTyped DEF Cred!Goto, RequestsTyped
  <1>2. CASE v # w
    BY <1>2, CredTyped DEF Cred!Goto, RequestsTyped, RequestsAccepted
  <1>3. QED
    BY <1>1, <1>2

\* A request that is over carries no password.
LEMMA NoLocAccepted ==
  ASSUME NEW p, p # "swap"
  PROVE  LocAccepted(p, Cred!NoLoc, taken)
  BY DEF LocAccepted, Accepted, Cred!NoLoc, Cred!NoCandidate

\* After an answer heartbeat.ps1 still confirms and persists only what was
\* accepted: what it goes on with after a swap is.
LEMMA AnswerAccepted ==
  ASSUME CredInv, NEW w \in Workers,
         NEW next \in {"off", "apply", "persist"}, NEW rot \in Cred!Passwords,
         next = "persist" => Accepted(rot, taken), Cred!Answer(w, next, rot)
  PROVE  SentAccepted' /\ RequestsAccepted'
  <1>1. taken' = taken /\ disk' = disk
    BY DEF Cred!Answer
  <1>2. RequestsAccepted'
    BY <1>1, NoLocAccepted, GotoAccepted DEF CredInv, Cred!Answer, Cred!Return
  <1>3. inst'.pw = inst.pw
    BY CredTyped DEF CredInv, Cred!Answer, ComputerTyped
  <1>4. run'.at \in {"confirm", "confirming", "persist"} => Accepted(run'.rot, taken)
    BY CredTyped DEF CredInv, SentAccepted, Cred!Answer, ComputerTyped, Cred!RunOff
  <1>5. QED
    BY <1>1, <1>2, <1>3, <1>4 DEF CredInv, SentAccepted

\* A handler's step lets nothing into the row that was not accepted.
LEMMA ContinueAccepted ==
  ASSUME Cred!CredentialsAssumption, CredInv, NEW w \in Workers, Cred!Continue(w)
  PROVE  RowAccepted' /\ SentAccepted' /\ RequestsAccepted'
  <1> USE DEF CredInv
  <1> DEFINE l == credLoc[w]
  <1>l. /\ l \in Cred!Locals /\ l.pw \in Cred!Passwords
        /\ l.pw \in Int /\ l.seen \in Cred!Candidate
        /\ Accepted(l.pw, taken) /\ Accepted(l.seen.pw, taken)
        /\ credPc[w] = "swap" => l.pw < 0
    BY CredTyped, CredRanges DEF RequestsTyped, Cred!Locals, RequestsAccepted, LocAccepted
  <1>n. /\ credNode \in Cred!Node /\ credNode.cand \in Cred!Candidate
        /\ credNode.pending \in Cred!Passwords
    BY CredTyped DEF Cred!Node
  <1>0. Accepted(Cred!NoCandidate.pw, taken)
    BY DEF Accepted, Cred!NoCandidate
  <1>1. CASE Cred!update(w)
    <2>1. taken' = taken /\ SentAccepted'
      BY <1>1 DEF Cred!update, Cred!computer, SentAccepted
    <2>2. RequestsAccepted'
      BY <1>1, <2>1, NoLocAccepted, GotoAccepted DEF Cred!update
    <2>3. /\ credNode'.perm \in {l.pw, credNode.perm}
          /\ credNode'.cand \in {Cred!NoCandidate, credNode.cand}
          /\ credNode'.pending = credNode.pending
      BY <1>1, <1>n DEF Cred!update, Cred!Node
    <2>4. QED
      BY <1>l, <1>0, <2>1, <2>2, <2>3 DEF RowAccepted
  <1>2. CASE Cred!answer(w)
    BY <1>2, <1>n, AnswerAccepted DEF Cred!answer, Cred!Answer, RowAccepted
  <1>3. CASE Cred!offer(w)
    <2>1. taken' = taken /\ SentAccepted' /\ RequestsAccepted'
      BY <1>3, CredRanges, AnswerAccepted DEF Cred!offer, Cred!Answer
    <2>2. /\ credNode'.perm = credNode.perm
          /\ credNode'.pending = credNode.pending
          /\ credNode'.cand.pw \in {l.pw, credNode.cand.pw}
      BY <1>3, <1>n DEF Cred!offer, Cred!Node, Cred!Candidate
    <2>3. QED
      BY <1>l, <2>1, <2>2 DEF RowAccepted
  <1>4. CASE Cred!swap(w)
    <2>1. taken' = taken /\ SentAccepted' /\ RequestsAccepted'
      BY <1>4, <1>l, AnswerAccepted DEF Cred!swap, Cred!Answer
    <2>2. /\ credNode'.perm = l.pw
          /\ credNode'.pending = 0
          /\ credNode'.cand = credNode.cand
      BY <1>4, <1>n DEF Cred!swap, Cred!Node
    <2>3. QED
      BY <1>l, <2>1, <2>2 DEF RowAccepted
  <1>5. CASE Cred!refuse(w)
    BY <1>5, CredRanges, AnswerAccepted DEF Cred!refuse, Cred!Answer, RowAccepted
  <1>6. CASE Cred!upsert(w)
    <2>1. taken' = taken /\ SentAccepted' /\ RequestsAccepted'
      BY <1>6, CredRanges, AnswerAccepted DEF Cred!upsert, Cred!Answer
    <2>2. /\ credNode'.perm = l.pw
          /\ credNode'.pending = credNode.pending
          /\ credNode'.cand = credNode.cand
      BY <1>6, <1>n DEF Cred!upsert, Cred!Node
    <2>3. QED
      BY <1>l, <2>1, <2>2 DEF RowAccepted
  <1>7. CASE Cred!bind(w)
    <2>1. taken' = taken /\ SentAccepted'
      BY <1>7 DEF Cred!bind, Cred!computer, SentAccepted
    <2>2. RequestsAccepted'
      BY <1>7, <2>1, NoLocAccepted, GotoAccepted DEF Cred!bind, Cred!Return
    <2>3. /\ credNode'.perm \in {l.seen.pw, credNode.perm}
          /\ credNode'.cand \in {Cred!NoCandidate, credNode.cand}
          /\ credNode'.pending = credNode.pending
      BY <1>7, <1>n DEF Cred!bind, Cred!Node
    <2>4. QED
      BY <1>l, <1>0, <2>1, <2>2, <2>3 DEF RowAccepted
  <1>8. QED
    BY <1>1, <1>2, <1>3, <1>4, <1>5, <1>6, <1>7 DEF Cred!Continue

\* A heartbeat with an accepted password, and with the candidate of the row.
LEMMA HeartbeatAccepted ==
  ASSUME CredInv, NEW w \in Workers, NEW secret, NEW pw, Accepted(pw, taken),
         Cred!heartbeat(w, secret, pw), taken' = taken
  PROVE  RowAccepted' /\ RequestsAccepted'
  <1> DEFINE l == [secret |-> secret, pw |-> pw, seen |-> credNode.cand]
             p == IF secret = credNode.secret THEN "update" ELSE "offer"
  <1>1. LocAccepted(p, l, taken)
    BY DEF CredInv, RowAccepted, LocAccepted
  <1>2. Cred!Goto(w, p, l)
    BY DEF Cred!heartbeat
  <1> HIDE DEF l, p
  <1>3. RequestsAccepted'
    BY <1>1, <1>2, GotoAccepted DEF CredInv
  <1>4. QED
    BY <1>3 DEF CredInv, Cred!heartbeat, RowAccepted

\* heartbeat.ps1 confirms what it had RustDesk take, unless RustDesk may
\* refuse it unnoticed.
LEMMA ScriptAccepted ==
  ASSUME Cred!CredentialsAssumption, "notTaken" \notin Faults, CredInv,
         Cred!Script \/ \E w \in Workers : Cred!beat(w) \/ Cred!sendConfirm(w)
  PROVE  RowAccepted' /\ SentAccepted' /\ RequestsAccepted'
  <1> USE DEF CredInv
  <1>r. /\ run.rot \in Cred!Passwords /\ run.rot \in Int
        /\ run \in [at : {"off", "beat", "apply", "confirm", "confirming", "persist"},
              w : Workers \cup {Cred!NoWorker}, secret : Cred!Secrets, rot : Cred!Passwords]
    BY CredTyped, CredRanges DEF ComputerTyped
  <1>1. CASE Cred!giveUp
    BY <1>1 DEF Cred!giveUp, RowAccepted, SentAccepted, RequestsAccepted, Cred!RunOff
  <1>2. CASE Cred!persist
    BY <1>2 DEF Cred!persist, RowAccepted, SentAccepted, RequestsAccepted, Cred!RunOff
  <1>3. ASSUME NEW took \in BOOLEAN, Cred!apply(took)
        PROVE  RowAccepted' /\ SentAccepted' /\ RequestsAccepted'
    <2>1. /\ taken' = taken \cup {run.rot} /\ run'.rot = run.rot
          /\ credNode' = credNode /\ disk' = disk /\ inst' = inst
          /\ credPc' = credPc /\ credLoc' = credLoc
      BY <1>3, <1>r DEF Cred!apply
    <2>2. \A p : Accepted(p, taken) => Accepted(p, taken')
      BY <2>1 DEF Accepted
    <2>3. Accepted(run.rot, taken')
      BY <2>1 DEF Accepted
    <2>4. RowAccepted' /\ SentAccepted'
      BY <2>1, <2>2, <2>3 DEF RowAccepted, SentAccepted
    <2>5. RequestsAccepted'
      BY <2>1, <2>2 DEF RequestsAccepted, LocAccepted
    <2>6. QED
      BY <2>4, <2>5
  <1>4. ASSUME NEW w \in Workers, Cred!beat(w)
        PROVE  RowAccepted' /\ SentAccepted' /\ RequestsAccepted'
    <2>1. taken' = taken /\ Cred!heartbeat(w, disk.secret, disk.pw)
      BY <1>4 DEF Cred!beat
    <2>2. RowAccepted' /\ RequestsAccepted'
      BY <2>1, HeartbeatAccepted DEF SentAccepted
    <2>3. SentAccepted'
      BY <1>4 DEF Cred!beat, SentAccepted, Cred!RunOff
    <2>4. QED
      BY <2>2, <2>3
  <1>5. ASSUME NEW w \in Workers, Cred!sendConfirm(w)
        PROVE  RowAccepted' /\ SentAccepted' /\ RequestsAccepted'
    <2> DEFINE ok == Cred!confirmed(run.secret, run.rot)
               l  == [Cred!NoLoc EXCEPT !.pw = credNode.pending]
    <2>1. taken' = taken /\ credNode' = credNode
      BY <1>5 DEF Cred!sendConfirm, Cred!confirmRotation
    <2>2. SentAccepted'
      BY <1>5, <1>r DEF Cred!sendConfirm, SentAccepted
    <2>3. ok => LocAccepted("swap", l, taken)
      <3> SUFFICES ASSUME ok PROVE LocAccepted("swap", l, taken)
        OBVIOUS
      <3>1. l.pw = credNode.pending /\ l.seen.pw = 0
        BY DEF Cred!NoLoc, Cred!NoCandidate
      <3>2. credNode.pending = run.rot /\ run.rot # 0 /\ run.rot <= 0
        BY DEF Cred!confirmed, RowAccepted
      <3>3. run.rot < 0
        BY <1>r, <3>2
      <3>4. Accepted(run.rot, taken)
        BY <1>5 DEF Cred!sendConfirm, SentAccepted
      <3> HIDE DEF l
      <3>5. QED
        BY <3>1, <3>2, <3>3, <3>4 DEF LocAccepted, Accepted
    <2>4. RequestsAccepted'
      <3>1. CASE ok
        <4>1. Cred!Goto(w, "swap", l)
          BY <1>5, <3>1 DEF Cred!sendConfirm, Cred!confirmRotation
        <4> HIDE DEF l
        <4>2. QED
          BY <2>1, <2>3, <3>1, <4>1, GotoAccepted
      <3>2. CASE ~ok
        BY <1>5, <2>1, <3>2, NoLocAccepted, GotoAccepted DEF Cred!sendConfirm, Cred!confirmRotation
      <3>3. QED
        BY <3>1, <3>2
    <2>5. QED
      BY <2>1, <2>2, <2>4 DEF RowAccepted
  <1>6. QED
    BY <1>1, <1>2, <1>3, <1>4, <1>5 DEF Cred!Script

\* The installer sends and writes passwords of its own.
LEMMA InstallerAccepted ==
  ASSUME Cred!CredentialsAssumption, CredInv,
         \/ Cred!Installer \/ Cred!wipe
         \/ \E took \in BOOLEAN : Cred!install(took)
         \/ \E w \in Workers : Cred!testRegistered(w)
  PROVE  RowAccepted' /\ SentAccepted' /\ RequestsAccepted'
  <1> USE DEF CredInv
  <1>i. /\ inst \in [at : {"off", "register", "claiming", "fallback", "beating", "write", "poll"},
               w : Workers \cup {Cred!NoWorker}, secret : Cred!Secrets, pw : Cred!Passwords]
        /\ inst.pw \in Int
    BY CredTyped, CredRanges DEF ComputerTyped
  <1>p. Accepted(inst.pw, taken) /\ Accepted(0, taken)
    BY <1>i DEF SentAccepted, Accepted
  <1>1. CASE Cred!write
    <2>1. inst'.pw = inst.pw
      BY <1>1, <1>i DEF Cred!write
    <2>2. QED
      BY <1>1, <1>p, <2>1 DEF Cred!write, RowAccepted, SentAccepted, RequestsAccepted
  <1>2. CASE Cred!endInstall
    BY <1>2 DEF Cred!endInstall, RowAccepted, SentAccepted, RequestsAccepted, Cred!InstOff
  <1>3. CASE Cred!noAnswer
    <2>1. inst'.pw = inst.pw
      BY <1>3, <1>i DEF Cred!noAnswer
    <2>2. QED
      BY <1>3, <2>1 DEF Cred!noAnswer, RowAccepted, SentAccepted, RequestsAccepted
  <1>4. ASSUME NEW w \in Workers, Cred!registerClaim(w)
        PROVE  RowAccepted' /\ SentAccepted' /\ RequestsAccepted'
    <2> DEFINE l == [Cred!NoLoc EXCEPT !.secret = inst.secret, !.pw = inst.pw]
    <2>1. /\ taken' = taken /\ credNode' = credNode /\ inst'.pw = inst.pw
          /\ Cred!Goto(w, "claim", l)
      BY <1>4, <1>i DEF Cred!registerClaim, Cred!claimEndpoint
    <2>2. LocAccepted("claim", l, taken)
      BY <1>p DEF LocAccepted, Accepted, Cred!NoLoc, Cred!NoCandidate
    <2> HIDE DEF l
    <2>3. RequestsAccepted'
      BY <2>1, <2>2, GotoAccepted
    <2>4. QED
      BY <1>4, <2>1, <2>3 DEF Cred!registerClaim, RowAccepted, SentAccepted
  <1>5. ASSUME NEW w \in Workers, Cred!registerHeartbeat(w)
        PROVE  RowAccepted' /\ SentAccepted' /\ RequestsAccepted'
    <2>1. /\ taken' = taken /\ inst'.pw = inst.pw
          /\ Cred!heartbeat(w, inst.secret, inst.pw)
      BY <1>5, <1>i DEF Cred!registerHeartbeat
    <2>2. RowAccepted' /\ RequestsAccepted'
      BY <1>p, <2>1, HeartbeatAccepted
    <2>3. QED
      BY <1>5, <2>1, <2>2 DEF Cred!registerHeartbeat, SentAccepted
  <1>6. CASE Cred!wipe
    BY <1>6, <1>p DEF Cred!wipe, RowAccepted, SentAccepted, RequestsAccepted
  <1>7. ASSUME NEW took \in BOOLEAN, Cred!install(took)
        PROVE  RowAccepted' /\ SentAccepted' /\ RequestsAccepted'
    <2>1. installs \in 1..MaxInstalls /\ MaxInstalls \in Nat
      BY CredTyped DEF MadeTyped, Cred!CredentialsAssumption
    <2>2. inst'.pw = installs + 1
      BY <1>7 DEF Cred!install, Cred!InstOff
    <2>3. inst'.pw >= 0
      BY <2>1, <2>2
    <2>4. QED
      BY <1>7, <2>3 DEF Cred!install, RowAccepted, SentAccepted, RequestsAccepted
  <1>8. ASSUME NEW w \in Workers, Cred!testRegistered(w)
        PROVE  RowAccepted' /\ SentAccepted' /\ RequestsAccepted'
    <2>1. taken' = taken /\ Cred!heartbeat(w, inst.secret, 0)
      BY <1>8 DEF Cred!testRegistered, Cred!computer
    <2>2. RowAccepted' /\ RequestsAccepted'
      BY <1>p, <2>1, HeartbeatAccepted
    <2>3. QED
      BY <1>8, <2>2 DEF Cred!testRegistered, Cred!computer, SentAccepted
  <1>9. QED
    BY <1>1, <1>2, <1>3, <1>4, <1>5, <1>6, <1>7, <1>8 DEF Cred!Installer

\* A rotation is staged apart from the password, and an operator accepts the
\* candidate as it is.
LEMMA OperatorAccepted ==
  ASSUME Cred!CredentialsAssumption, CredInv,
         \/ Cred!rotateCredential \/ Cred!passLive \/ Cred!passSettle
         \/ \E w \in Workers : Cred!acceptDeviceSecret(w)
  PROVE  RowAccepted' /\ SentAccepted' /\ RequestsAccepted'
  <1> USE DEF CredInv
  <1>n. credNode \in Cred!Node /\ credNode.cand \in Cred!Candidate
    BY CredTyped DEF Cred!Node
  <1>1. CASE Cred!rotateCredential
    <2>1. rotations \in 0..MaxRotations /\ MaxRotations \in Nat
      BY CredTyped DEF MadeTyped, Cred!CredentialsAssumption
    <2>2. /\ credNode'.perm = credNode.perm /\ credNode'.cand = credNode.cand
          /\ credNode'.pending = -(rotations + 1)
      BY <1>1, <1>n DEF Cred!rotateCredential, Cred!Node
    <2>3. credNode'.pending <= 0
      BY <2>1, <2>2
    <2>4. QED
      BY <1>1, <2>2, <2>3 DEF Cred!rotateCredential, Cred!computer, RowAccepted, SentAccepted,
         RequestsAccepted
  <1>2. CASE Cred!passLive
    <2>1. /\ credNode'.perm = credNode.perm /\ credNode'.cand.pw = credNode.cand.pw
          /\ credNode'.pending = credNode.pending
      BY <1>2, <1>n DEF Cred!passLive, Cred!Node, Cred!Candidate
    <2>2. QED
      BY <1>2, <2>1 DEF Cred!passLive, Cred!computer, RowAccepted, SentAccepted, RequestsAccepted
  <1>3. CASE Cred!passSettle
    <2>1. /\ credNode'.perm = credNode.perm /\ credNode'.cand.pw = credNode.cand.pw
          /\ credNode'.pending = credNode.pending
      BY <1>3, <1>n DEF Cred!passSettle, Cred!Node, Cred!Candidate
    <2>2. QED
      BY <1>3, <2>1 DEF Cred!passSettle, Cred!computer, RowAccepted, SentAccepted, RequestsAccepted
  <1>4. ASSUME NEW w \in Workers, Cred!acceptDeviceSecret(w)
        PROVE  RowAccepted' /\ SentAccepted' /\ RequestsAccepted'
    <2> DEFINE l == [Cred!NoLoc EXCEPT !.seen = credNode.cand]
    <2>1. Cred!Goto(w, "bind", l) /\ taken' = taken
      BY <1>4 DEF Cred!acceptDeviceSecret, Cred!computer
    <2>2. LocAccepted("bind", l, taken)
      BY DEF LocAccepted, Accepted, RowAccepted, Cred!NoLoc
    <2> HIDE DEF l
    <2>3. RequestsAccepted'
      BY <2>1, <2>2, GotoAccepted
    <2>4. QED
      BY <1>4, <2>3 DEF Cred!acceptDeviceSecret, Cred!computer, RowAccepted, SentAccepted
  <1>5. QED
    BY <1>1, <1>2, <1>3, <1>4

\* The invariant is inductive.
LEMMA CredInductive ==
  ASSUME Cred!CredentialsAssumption, "notTaken" \notin Faults
  PROVE  Cred!Spec => []CredInv
  <1>1. Cred!Init => CredInv
    <2> SUFFICES ASSUME Cred!Init PROVE CredInv
      OBVIOUS
    <2>1. RowAccepted /\ SentAccepted
      BY DEF Cred!Init, RowAccepted, SentAccepted, Accepted, Cred!NoCandidate, Cred!RunOff,
         Cred!InstOff
    <2>2. RequestsAccepted
      BY NoLocAccepted DEF Cred!Init, RequestsAccepted
    <2>3. QED
      BY <2>1, <2>2, CredInitTyped DEF CredInv
  <1>2. CredInv /\ [Cred!Next]_Cred!vars => CredInv'
    <2> SUFFICES ASSUME CredInv, [Cred!Next]_Cred!vars PROVE CredInv'
      OBVIOUS
    <2>1. Cred!TypeOK'
      BY CredNextTyped DEF CredInv
    <2>2. CASE UNCHANGED Cred!vars
      BY <2>1, <2>2 DEF CredInv, Cred!vars, Cred!computer, RowAccepted, SentAccepted,
         RequestsAccepted
    <2>3. CASE Cred!Next
      <3>1. RowAccepted' /\ SentAccepted' /\ RequestsAccepted'
        BY <2>3, ContinueAccepted, ScriptAccepted, InstallerAccepted, OperatorAccepted
           DEF Cred!Next
      <3>2. QED
        BY <2>1, <3>1 DEF CredInv
    <2>4. QED
      BY <2>2, <2>3
  <1>3. QED
    BY <1>1, <1>2, PTL DEF Cred!Spec

\* The console hands out a rotated password only after RustDesk has taken it,
\* for any number of requests in flight, with lost requests and answers and
\* with installers started by hand.  It takes that rustdesk.exe --password
\* works when heartbeat.ps1 calls it, as it does not look.
THEOREM RotationsWereTaken ==
  ASSUME Cred!CredentialsAssumption, "notTaken" \notin Faults
  PROVE  Cred!Spec => []Cred!RotatedWasTaken
  <1>1. CredInv => Cred!RotatedWasTaken
    BY DEF CredInv, RowAccepted, Accepted, Cred!RotatedWasTaken
  <1>2. QED
    BY <1>1, CredInductive, PTL

\* What a step may do to a staged rotation: leave it, replace it by the newest,
\* or clear it in the update that hands out a password RustDesk has taken.
StagedKept ==
  /\ credNode.pending # 0 /\ credNode'.pending = 0 =>
       credNode'.perm < 0 /\ credNode'.perm \in taken
  /\ credNode'.pending \in {credNode.pending, 0, -rotations'}

\* A staged rotation leaves the row only for a newer one, or when a rotated
\* password that RustDesk has taken, this one or one confirmed just before it
\* was staged, becomes the one the console hands out in the same update: a
\* claim, a heartbeat, an accepted candidate or a lost confirmation never
\* drops it.
THEOREM StagedUntilConfirmed ==
  ASSUME Cred!CredentialsAssumption, "notTaken" \notin Faults
  PROVE  Cred!Spec => [][StagedKept]_Cred!vars
  <1>1. CredInv /\ [Cred!Next]_Cred!vars => [StagedKept]_Cred!vars
    <2> SUFFICES ASSUME CredInv, Cred!Next PROVE StagedKept
      OBVIOUS
    <2>n. credNode \in Cred!Node
      BY CredTyped DEF CredInv
    <2>1. ASSUME NEW w \in Workers, Cred!swap(w)
          PROVE  StagedKept
      <3>1. credNode'.perm = credLoc[w].pw /\ credNode'.pending = 0 /\ credPc[w] = "swap"
        BY <2>1, <2>n DEF Cred!swap, Cred!Node
      <3>2. QED
        BY <3>1 DEF StagedKept, CredInv, RequestsAccepted, LocAccepted, Accepted
    <2>2. CASE Cred!rotateCredential
      <3>1. credNode'.pending = -(rotations + 1) /\ rotations' = rotations + 1
        BY <2>2, <2>n DEF Cred!rotateCredential, Cred!Node
      <3>2. rotations \in Nat
        BY CredTyped DEF CredInv, MadeTyped
      <3>3. QED
        BY <3>1, <3>2 DEF StagedKept
    <2>3. CASE ~Cred!rotateCredential /\ ~\E w \in Workers : Cred!swap(w)
      <3>1. credNode'.pending = credNode.pending
        BY <2>3, <2>n DEF Cred!Node, Cred!Next, Cred!Script, Cred!Installer, Cred!Continue,
           Cred!update, Cred!answer, Cred!offer, Cred!refuse, Cred!upsert, Cred!bind,
           Cred!heartbeat, Cred!confirmRotation, Cred!claimEndpoint,
           Cred!beat, Cred!sendConfirm, Cred!testRegistered, Cred!acceptDeviceSecret,
           Cred!giveUp, Cred!persist, Cred!apply, Cred!write, Cred!endInstall, Cred!noAnswer,
           Cred!registerClaim, Cred!registerHeartbeat, Cred!install, Cred!wipe,
           Cred!passLive, Cred!passSettle
      <3>2. QED
        BY <3>1 DEF StagedKept
    <2>4. QED
      BY <2>1, <2>2, <2>3
  <1>2. QED
    BY <1>1, CredInductive, PTL DEF Cred!Spec
=============================================================================
