------------------------- MODULE UpdateRolloutProofs -------------------------
(***************************************************************************)
(* Theorems about UpdateRollout, for every number of computers, rollouts   *)
(* and handlers in flight, and every batch size, threshold and limit on    *)
(* the attempts.                                                           *)
(***************************************************************************)
EXTENDS UpdateRollout, FiniteSetTheorems, WellFoundedInduction, TLAPS

-----------------------------------------------------------------------------
(* The inductive invariant.                                                *)

\* The locals a handler may have at program point p.  create() keeps the
\* busy computers in `ids', every other handler keeps jobs there.
LocalsAt(p) ==
  {l \in [e : Endpoints \cup {0}, r : Rollouts \cup {0},
          ids : IF p = "creating" THEN SUBSET Endpoints ELSE SUBSET JobIds,
          list : SUBSET JobCopy, plan : SUBSET RolloutCopy, batch : Nat, back : PCs,
          component : Components \cup {"NONE"}] :
     /\ p = "idle" => l = NoLoc
     /\ p \in {"creating", "starting", "canceling", "canceled", "expire", "complete",
               "boundary", "setBatch", "threshold", "pausing"} => l.r \in Rollouts
     /\ p \in {"threshold", "pausing"} => l.back \in {"expire", "boundary", "evidence"}
     /\ \/ p \in {"rollouts", "expire", "complete", "boundary", "setBatch"}
        \/ p \in {"threshold", "pausing"} /\ l.back # "evidence"
        => l.e = 0}

Typed == /\ TypeOK
         /\ DOMAIN loc = Workers
         /\ \A w \in Workers : loc[w] \in LocalsAt(pc[w])

\* Rollouts are created once, and only jobs that exist are written.
Created ==
  /\ \A id \in JobIds : roll[id[1]].status = "NONE" => job[id].status = "NONE"
  /\ \A w \in Workers :
       /\ pc[w] = "creating" => roll[loc[w].r].status = "NONE"
       /\ pc[w] \in {"starting", "canceling"} => roll[loc[w].r].status # "NONE"
       /\ pc[w] \in {"cancelJobs", "cancelOne", "hbbs", "dispatch"} =>
            \A id \in loc[w].ids : job[id].status # "NONE"
  /\ \A v, w \in Workers :
       pc[v] = "creating" /\ pc[w] = "creating" /\ loc[v].r = loc[w].r => v = w

\* A copy of a job that a handler still holds has the attempts of the row,
\* and if the job is waiting for a retry by now, the retry is backing off.
CopiesAgree ==
  \A w \in Workers : \A j \in loc[w].list :
    /\ job[j.id].status # "NONE"
    /\ j.attempts = job[j.id].attempts
    /\ job[j.id].status = "REQUESTED" => j.id \in backoff

\* Nobody holds a copy of the job.
Unread(id) == \A w \in Workers : \A j \in loc[w].list : j.id # id

\* The job has been handed out while another handler was about to, so that
\* no copy of it can time out or be proved to have failed.
HandedOut(id) ==
  /\ job[id].status # "REQUESTED"
  /\ id \notin overdue \cup ran
  /\ \A w \in Workers : \A j \in loc[w].list : j.id = id => loc[w].e # 0

\* What holds of a job that some handler is about to hand out.
Selected ==
  \A w \in Workers : pc[w] = "dispatch" => \A id \in loc[w].ids :
    \/ Unread(id) /\ job[id].status \notin ACTIVE
    \/ HandedOut(id)

\* A job that waits has an attempt left.
Budget ==
  \A id \in JobIds : /\ job[id].attempts <= MaxAttempts
                     /\ job[id].status = "REQUESTED" => job[id].attempts < MaxAttempts

IInv == Typed /\ Created /\ CopiesAgree /\ Selected /\ Budget

-----------------------------------------------------------------------------
(* Type correctness.                                                       *)

\* Every nonempty set of batch numbers has a least one.
LEMMA LeastNat ==
  ASSUME NEW S \in SUBSET Nat, S # {}
  PROVE  Least(S) \in Nat /\ Least(S) \in S /\ \A y \in S : Least(S) <= y
  <1> DEFINE R == OpToRel(<, Nat)
  <1>1. IsWellFoundedOn(R, Nat)
    BY NatLessThanWellFounded
  <1>2. \A x, y \in Nat : <<x, y>> \in R <=> x < y
    BY DEF OpToRel
  <1> HIDE DEF R
  <1>3. PICK x \in S : \A y \in S : ~(<<y, x>> \in R)
    BY <1>1, WFMin
  <1>4. ASSUME NEW y \in S
        PROVE  x <= y
    <2>1. x \in Nat /\ y \in Nat
      OBVIOUS
    <2>2. ~(y < x)
      BY <1>2, <1>3, <2>1
    <2>3. QED
      BY <2>1, <2>2
  <1>5. QED
    BY <1>4 DEF Least

\* Batches are numbered by naturals.
LEMMA BatchType ==
  ASSUME NEW pilot, NEW e \in Endpoints
  PROVE  BatchOf(pilot, e) \in Nat
  <1> DEFINE before == {d \in Endpoints \ pilot : d < e}
  <1>1. IsFiniteSet(Endpoints)
    BY FS_Interval, ConstantsAssumption DEF Endpoints
  <1>2. IsFiniteSet(before)
    BY <1>1, FS_Subset
  <1>3. Cardinality(before) \in Nat
    BY <1>2, FS_CardinalityType
  <1> HIDE DEF before
  <1>4. \A n \in Nat, b \in Nat \ {0} : n \div b \in Nat
    OBVIOUS
  <1>5. Cardinality(before) \div BatchSize \in Nat
    BY <1>3, <1>4, ConstantsAssumption
  <1>6. QED
    BY <1>5 DEF BatchOf, before

\* A job id and its parts.
LEMMA Ids ==
  /\ \A id \in JobIds : id[1] \in Rollouts /\ id[2] \in Endpoints
  /\ \A r \in Rollouts : JobsOf(r) \subseteq JobIds
  /\ \A e : JobsAt(e) \subseteq JobIds
  /\ \A r \in Rollouts, e \in Endpoints : r # 0 /\ e # 0
  BY ConstantsAssumption DEF JobIds, JobsOf, JobsAt, Rollouts, Endpoints

\* Copies of jobs that exist are copies.
LEMMA CopiesType ==
  ASSUME job \in [JobIds -> Job], NEW ids \in SUBSET JobIds,
         \A id \in ids : job[id].status # "NONE"
  PROVE  Copies(ids) \subseteq JobCopy
  BY DEF Copies, Job, JobCopy

\* A handler that moves to p with the locals of p keeps everything typed.
LEMMA GotoType ==
  ASSUME Typed, NEW w \in Workers, NEW p \in PCs, NEW l \in LocalsAt(p), Goto(w, p, l),
         roll' \in [Rollouts -> Rollout], job' \in [JobIds -> Job],
         overdue' \subseteq JobIds, backoff' \subseteq JobIds, ran' \subseteq JobIds
  PROVE  Typed'
  <1>1. pc' \in [Workers -> PCs] /\ DOMAIN loc' = Workers
    BY DEF Typed, TypeOK, Goto
  <1>2. ASSUME NEW v \in Workers
        PROVE  loc'[v] \in LocalsAt(pc'[v])
    <2>1. CASE v = w
      <3>1. loc'[v] = l /\ pc'[v] = p
        BY <2>1 DEF Typed, TypeOK, Goto
      <3>2. QED
        BY <3>1
    <2>2. CASE v # w
      <3>1. loc'[v] = loc[v] /\ pc'[v] = pc[v]
        BY <2>2 DEF Typed, TypeOK, Goto
      <3>2. QED
        BY <3>1 DEF Typed
    <2>3. QED
      BY <2>1, <2>2
  <1>3. ASSUME NEW v \in Workers
        PROVE  /\ loc'[v].list \subseteq JobCopy /\ loc'[v].plan \subseteq RolloutCopy
               /\ loc'[v].r \in Rollouts \cup {0} /\ loc'[v].e \in Endpoints \cup {0}
               /\ loc'[v].batch \in Nat /\ loc'[v].back \in PCs
               /\ loc'[v].component \in Components \cup {"NONE"}
    BY <1>2 DEF LocalsAt
  <1>4. QED
    BY <1>1, <1>2, <1>3 DEF Typed, TypeOK, LocalsAt

\* A handler at rest, or at a point where all it has is jobs or a rollout.
LEMMA SimpleLocals ==
  /\ \A p \in {"idle", "tick"} : NoLoc \in LocalsAt(p)
  /\ \A p \in {"cancelJobs", "cancelOne", "dispatch", "fetched"}, ids \in SUBSET JobIds :
       [NoLoc EXCEPT !.ids = ids] \in LocalsAt(p)
  /\ \A p \in {"canceling", "canceled"}, r \in Rollouts : [NoLoc EXCEPT !.r = r] \in LocalsAt(p)
  /\ \A r \in Rollouts, b \in Nat :
       [NoLoc EXCEPT !.r = r, !.batch = b] \in LocalsAt("starting")
  /\ \A r \in Rollouts, c \in Components, ids \in SUBSET Endpoints :
       [NoLoc EXCEPT !.r = r, !.component = c, !.ids = ids] \in LocalsAt("creating")
  /\ \A e \in Endpoints, list \in SUBSET JobCopy :
       [NoLoc EXCEPT !.e = e, !.list = list] \in LocalsAt("evidence")
  /\ \A plan \in SUBSET RolloutCopy : [NoLoc EXCEPT !.plan = plan] \in LocalsAt("rollouts")
  BY DEF LocalsAt, NoLoc, PCs

\* A handler goes back to where the threshold check was called from.
LEMMA ThresholdLocals ==
  ASSUME NEW p \in {"threshold", "pausing"}, NEW l \in LocalsAt(p)
  PROVE  l \in LocalsAt("pausing") /\ l.back \in PCs /\ l \in LocalsAt(l.back)
  BY DEF LocalsAt, PCs

\* A job is dropped from the list of a handler that judges jobs.
LEMMA JudgeLocals ==
  ASSUME NEW p \in {"expire", "evidence"}, NEW l \in LocalsAt(p), NEW list \in SUBSET JobCopy
  PROVE  /\ [l EXCEPT !.list = list] \in LocalsAt(p)
         /\ \A r \in Rollouts :
              [l EXCEPT !.list = list, !.r = r, !.back = p] \in LocalsAt("threshold")
  BY DEF LocalsAt, PCs

\* The heartbeat asks for the presence of the computer, and goes on.
LEMMA EvidenceLocals ==
  /\ \A l \in LocalsAt("evidence"), list \in SUBSET JobCopy, ids \in SUBSET JobIds :
       [l EXCEPT !.list = list, !.ids = ids] \in LocalsAt("hbbs")
  /\ \A l \in LocalsAt("hbbs") : [l EXCEPT !.ids = {}] \in LocalsAt("evidence")
  BY DEF LocalsAt, PCs

\* The loop over the rollouts.
LEMMA LoopLocals ==
  /\ \A l \in LocalsAt("rollouts"), r \in Rollouts, list \in SUBSET JobCopy :
       [l EXCEPT !.r = r, !.list = list] \in LocalsAt("expire")
  /\ \A l \in LocalsAt("expire") : l \in LocalsAt("complete")
  /\ \A l \in LocalsAt("expire"), b \in Nat :
       [l EXCEPT !.batch = b, !.back = "boundary"] \in LocalsAt("threshold")
  /\ \A l \in LocalsAt("boundary") : l \in LocalsAt("setBatch")
  BY DEF LocalsAt, PCs

\* The loop goes on with the rollouts that are left.
LEMMA NextRolloutLocals ==
  ASSUME NEW p \in {"expire", "complete", "boundary", "setBatch"}, NEW l \in LocalsAt(p)
  PROVE  [l EXCEPT !.r = 0, !.batch = 0, !.back = "idle", !.plan = {c \in @ : c.r # l.r}]
           \in LocalsAt("rollouts")
  <1> DEFINE plan == {c \in l.plan : c.r # l.r}
             k    == [l EXCEPT !.r = 0, !.batch = 0, !.back = "idle", !.plan = plan]
  <1>1. plan \subseteq RolloutCopy
    BY DEF LocalsAt
  <1> HIDE DEF plan
  <1>2. k \in LocalsAt("rollouts")
    BY <1>1 DEF LocalsAt, PCs
  <1>3. QED
    BY <1>2 DEF plan

\* cancel() walks through the jobs it collected.
LEMMA CancelLocals ==
  /\ \A l \in LocalsAt("canceling") : l \in LocalsAt("canceled")
  /\ \A l \in LocalsAt("cancelJobs"), ids \in SUBSET JobIds :
       [l EXCEPT !.ids = ids] \in LocalsAt("cancelJobs")
  BY DEF LocalsAt, PCs

\* Among jobs, one belongs to the oldest rollout.
LEMMA FirstCopy ==
  ASSUME NEW S \in SUBSET JobCopy, S # {}
  PROVE  (CHOOSE c \in S : \A d \in S : c.id[1] <= d.id[1]) \in S
  <1> DEFINE R == OpToRel(<, Nat)
             N == {c.id[1] : c \in S}
  <1>1. IsWellFoundedOn(R, Nat)
    BY NatLessThanWellFounded
  <1>2. \A x, y \in Nat : <<x, y>> \in R <=> x < y
    BY DEF OpToRel
  <1>3. N \subseteq Nat /\ N # {}
    BY Ids, ConstantsAssumption DEF JobCopy, Rollouts
  <1> HIDE DEF R, N
  <1>4. PICK x \in N : \A y \in N : ~(<<y, x>> \in R)
    BY <1>1, <1>3, WFMin
  <1>5. ASSUME NEW y \in N
        PROVE  x <= y
    <2>1. x \in Nat /\ y \in Nat
      BY <1>3
    <2>2. ~(y < x)
      BY <1>2, <1>4, <2>1
    <2>3. QED
      BY <2>1, <2>2
  <1>6. PICK c \in S : x = c.id[1]
    BY <1>4 DEF N
  <1>7. \A d \in S : c.id[1] <= d.id[1]
    BY <1>5, <1>6 DEF N
  <1>8. QED
    BY <1>7

\* The same for ids of jobs.
LEMMA FirstId ==
  ASSUME NEW S \in SUBSET JobIds, S # {}
  PROVE  (CHOOSE i \in S : \A k \in S : i[1] <= k[1]) \in S
  <1> DEFINE R == OpToRel(<, Nat)
             N == {i[1] : i \in S}
  <1>1. IsWellFoundedOn(R, Nat)
    BY NatLessThanWellFounded
  <1>2. \A x, y \in Nat : <<x, y>> \in R <=> x < y
    BY DEF OpToRel
  <1>3. N \subseteq Nat /\ N # {}
    BY Ids, ConstantsAssumption DEF Rollouts
  <1> HIDE DEF R, N
  <1>4. PICK x \in N : \A y \in N : ~(<<y, x>> \in R)
    BY <1>1, <1>3, WFMin
  <1>5. ASSUME NEW y \in N
        PROVE  x <= y
    <2>1. x \in Nat /\ y \in Nat
      BY <1>3
    <2>2. ~(y < x)
      BY <1>2, <1>4, <2>1
    <2>3. QED
      BY <2>1, <2>2
  <1>6. PICK i \in S : x = i[1]
    BY <1>4 DEF N
  <1>7. \A k \in S : i[1] <= k[1]
    BY <1>5, <1>6 DEF N
  <1>8. QED
    BY <1>7

\* The writes to a job keep its type.
LEMMA JobWrites ==
  ASSUME job \in [JobIds -> Job], NEW id \in JobIds, NEW s \in NOT_DONE \cup DONE
  PROVE  /\ [job EXCEPT ![id].status = s] \in [JobIds -> Job]
         /\ [job EXCEPT ![id].status = s, ![id].nonce = FALSE] \in [JobIds -> Job]
         /\ [job EXCEPT ![id].status = s, ![id].nonce = TRUE, ![id].attempts = @ + 1]
              \in [JobIds -> Job]
  <1>1. job[id] \in Job
    OBVIOUS
  <1>2. [job[id] EXCEPT !.status = s] \in Job
    BY <1>1 DEF Job
  <1>3. [job[id] EXCEPT !.status = s, !.nonce = FALSE] \in Job
    BY <1>1, Zenon DEF Job
  <1>4. [job[id] EXCEPT !.status = s, !.nonce = TRUE, !.attempts = @ + 1] \in Job
    <2>1. job[id].attempts + 1 \in Nat
      BY <1>1 DEF Job
    <2>2. QED
      BY <1>1, <2>1, Zenon DEF Job
  <1>5. QED
    BY <1>2, <1>3, <1>4

\* The writes to a rollout keep its type.
LEMMA RolloutWrites ==
  ASSUME roll \in [Rollouts -> Rollout], NEW r \in Rollouts
  PROVE  /\ \A s \in {"DRAFT", "RUNNING", "PAUSED", "COMPLETED", "CANCELED"} :
              /\ [roll EXCEPT ![r].status = s] \in [Rollouts -> Rollout]
              /\ \A b \in Nat :
                   [roll EXCEPT ![r].status = s, ![r].batch = b] \in [Rollouts -> Rollout]
              /\ \A c \in Components \cup {"NONE"} :
                   [roll EXCEPT ![r].status = s, ![r].component = c] \in [Rollouts -> Rollout]
         /\ \A b \in Nat : [roll EXCEPT ![r].batch = b] \in [Rollouts -> Rollout]
  BY DEF Rollout

\* failAttempt() keeps everything typed.
LEMMA FailAttemptType ==
  ASSUME Typed, NEW w \in Workers, NEW back \in {"expire", "evidence"}, pc[w] = back,
         NEW j \in loc[w].list,
         failAttempt(w, j, back) \/ fail(w, j, back), UNCHANGED roll
  PROVE  Typed'
  <1>1. /\ j \in JobCopy /\ j.id \in JobIds /\ j.id[1] \in Rollouts
        /\ loc[w].list \ {j} \in SUBSET JobCopy
    BY Ids DEF Typed, TypeOK, JobCopy
  <1>2. loc[w] \in LocalsAt(back)
    BY DEF Typed
  <1>3. /\ [loc[w] EXCEPT !.list = @ \ {j}] \in LocalsAt(back)
        /\ [loc[w] EXCEPT !.list = @ \ {j}, !.r = j.id[1], !.back = back]
             \in LocalsAt("threshold")
    BY <1>1, <1>2, JudgeLocals
  <1>4. back \in PCs /\ "threshold" \in PCs
    BY DEF PCs
  <1>5. \A s \in NOT_DONE \cup DONE :
          [job EXCEPT ![j.id].status = s, ![j.id].nonce = FALSE] \in [JobIds -> Job]
    BY <1>1, JobWrites DEF Typed, TypeOK
  <1>6. CASE fail(w, j, back)
    <2>1. job' \in [JobIds -> Job]
      BY <1>5, <1>6 DEF fail, DONE
    <2>2. QED
      BY <1>3, <1>4, <1>6, <2>1, GotoType DEF fail, Typed, TypeOK, clock
  <1>7. CASE j.attempts < MaxAttempts /\ failAttempt(w, j, back) /\ ~fail(w, j, back)
    <2>1. job' \in [JobIds -> Job]
      BY <1>5, <1>7 DEF failAttempt, NOT_DONE
    <2>2. Goto(w, back, [loc[w] EXCEPT !.list = @ \ {j}])
      BY <1>7 DEF failAttempt
    <2>3. overdue' \subseteq JobIds /\ backoff' \subseteq JobIds /\ ran' \subseteq JobIds
      BY <1>1, <1>7 DEF failAttempt, Typed, TypeOK
    <2>4. QED
      BY <1>3, <1>4, <2>1, <2>2, <2>3, GotoType DEF Typed, TypeOK
  <1>8. QED
    <2>1. j.attempts \in Nat /\ MaxAttempts \in Nat
      BY <1>1, ConstantsAssumption DEF JobCopy
    <2>2. j.attempts < MaxAttempts \/ fail(w, j, back)
      BY <2>1 DEF failAttempt
    <2>3. QED
      BY <1>6, <1>7, <2>2

\* Requests, heartbeats and ticks that begin.
LEMMA TypedBegin ==
  ASSUME Typed, NEW w \in Workers, timer(w) \/ Operate(w) \/ Report(w)
  PROVE  Typed'
  <1> DEFINE Same == UNCHANGED <<roll, job, clock>>
  <1>1. /\ roll \in [Rollouts -> Rollout] /\ job \in [JobIds -> Job]
        /\ overdue \subseteq JobIds /\ backoff \subseteq JobIds /\ ran \subseteq JobIds
    BY DEF Typed, TypeOK
  <1>2. ASSUME NEW p \in PCs, NEW l \in LocalsAt(p), Goto(w, p, l), Same
        PROVE  Typed'
    BY <1>1, <1>2, GotoType DEF clock
  <1>3. {"tick", "creating", "starting", "canceling", "cancelOne", "evidence", "fetched"}
          \subseteq PCs
    BY DEF PCs
  <1>4. CASE timer(w)
    BY <1>2, <1>3, <1>4, SimpleLocals DEF timer
  <1>5. ASSUME NEW r \in Rollouts, NEW c \in Components, create(w, r, c)
        PROVE  Typed'
    <2>1. Busy(c) \subseteq Endpoints
      BY Ids DEF Busy
    <2>2. [NoLoc EXCEPT !.r = r, !.component = c, !.ids = Busy(c)] \in LocalsAt("creating")
      BY <2>1, SimpleLocals
    <2>3. QED
      BY <1>2, <1>3, <1>5, <2>2 DEF create
  <1>6. ASSUME NEW r \in Rollouts, start(w, r)
        PROVE  Typed'
    <2> DEFINE pending == {job[id].batch : id \in In(JobsOf(r), {"REQUESTED"})}
               b == IF roll[r].status = "PAUSED" THEN roll[r].batch
                    ELSE IF pending = {} THEN 0 ELSE Least(pending)
    <2>1. pending \subseteq Nat
      BY <1>1, Ids DEF In, Job
    <2>2. roll[r].batch \in Nat
      BY <1>1 DEF Rollout
    <2> HIDE DEF pending
    <2>3. b \in Nat
      BY <2>1, <2>2, LeastNat
    <2>4. Goto(w, "starting", [NoLoc EXCEPT !.r = r, !.batch = b]) /\ Same
      BY <1>6 DEF start, pending
    <2> HIDE DEF b
    <2>5. QED
      BY <1>2, <1>3, <2>3, <2>4, SimpleLocals
  <1>7. ASSUME NEW r \in Rollouts, pause(w, r)
        PROVE  Typed'
    <2>1. roll' \in [Rollouts -> Rollout]
      BY <1>1, <1>7, RolloutWrites DEF pause
    <2>2. QED
      BY <1>7, <2>1 DEF pause, Typed, TypeOK, clock
  <1>8. ASSUME NEW r \in Rollouts, cancel(w, r)
        PROVE  Typed'
    BY <1>2, <1>3, <1>8, SimpleLocals DEF cancel
  <1>9. ASSUME NEW r \in Rollouts, NEW id \in JobsOf(r), cancelJob(w, id)
        PROVE  Typed'
    <2>1. {id} \in SUBSET JobIds
      BY Ids
    <2>2. QED
      BY <1>2, <1>3, <1>9, <2>1, SimpleLocals DEF cancelJob
  <1>10. ASSUME NEW e \in Endpoints, onHeartbeat(w, e)
         PROVE  Typed'
    <2>1. InFlight(e) \subseteq JobIds /\ \A id \in InFlight(e) : job[id].status # "NONE"
      BY Ids DEF InFlight, In, ACTIVE
    <2>2. Copies(InFlight(e)) \in SUBSET JobCopy
      BY <1>1, <2>1, CopiesType
    <2>3. QED
      BY <1>2, <1>3, <1>10, <2>2, SimpleLocals DEF onHeartbeat
  <1>11. ASSUME NEW id \in JobIds, installerFetched(w, id)
         PROVE  Typed'
    BY <1>2, <1>3, <1>11, SimpleLocals DEF installerFetched
  <1>12. QED
    BY <1>4, <1>5, <1>6, <1>7, <1>8, <1>9, <1>10, <1>11 DEF Operate, Report

\* Requests of operators that go on.
LEMMA TypedRequests ==
  ASSUME Typed, NEW w \in Workers,
         \/ createRows(w) \/ startRunning(w) \/ cancelRollout(w) \/ cancelCollect(w)
         \/ cancelEach(w) \/ cancelOne(w)
  PROVE  Typed'
  <1>1. /\ roll \in [Rollouts -> Rollout] /\ job \in [JobIds -> Job]
        /\ overdue \subseteq JobIds /\ backoff \subseteq JobIds /\ ran \subseteq JobIds
    BY DEF Typed, TypeOK
  <1>2. ASSUME NEW p \in PCs, NEW l \in LocalsAt(p), Goto(w, p, l), UNCHANGED clock,
               roll' \in [Rollouts -> Rollout], job' \in [JobIds -> Job]
        PROVE  Typed'
    BY <1>1, <1>2, GotoType DEF clock
  <1>3. {"idle", "tick", "canceled", "cancelJobs"} \subseteq PCs
    BY DEF PCs
  <1>4. NoLoc \in LocalsAt("idle")
    BY SimpleLocals
  <1>5. loc[w] \in LocalsAt(pc[w])
    BY DEF Typed
  <1>6. CASE createRows(w)
    <2>1. loc[w].r \in Rollouts /\ loc[w].component \in Components \cup {"NONE"}
      BY <1>5, <1>6 DEF createRows, LocalsAt
    <2>2. roll' \in [Rollouts -> Rollout]
      BY <1>1, <1>6, <2>1, RolloutWrites DEF createRows
    <2>3. job' \in [JobIds -> Job]
      <3>1. PICK pilot, unfit \in SUBSET Endpoints :
              job' = [id \in JobIds |->
                       IF id[1] # loc[w].r THEN job[id]
                       ELSE [status   |-> IF id[2] \in loc[w].ids \cup unfit
                                          THEN "SKIPPED" ELSE "REQUESTED",
                             attempts |-> 0, batch |-> BatchOf(pilot, id[2]),
                             nonce    |-> FALSE]]
        BY <1>6 DEF createRows
      <3>2. ASSUME NEW id \in JobIds
            PROVE  BatchOf(pilot, id[2]) \in Nat
        BY Ids, BatchType
      <3>3. \A b \in Nat, s \in {"SKIPPED", "REQUESTED"} :
              [status |-> s, attempts |-> 0, batch |-> b, nonce |-> FALSE] \in Job
        BY DEF Job, NOT_DONE, DONE
      <3>4. \A id \in JobIds : job'[id] \in Job
        BY <1>1, <3>1, <3>2, <3>3
      <3>5. QED
        BY <3>1, <3>4
    <2>4. Goto(w, "idle", NoLoc) /\ UNCHANGED clock
      BY <1>6 DEF createRows, Return
    <2>5. QED
      BY <1>2, <1>3, <1>4, <2>2, <2>3, <2>4
  <1>7. CASE startRunning(w)
    <2>1. loc[w].r \in Rollouts /\ loc[w].batch \in Nat
      BY <1>5, <1>7 DEF startRunning, LocalsAt
    <2>2. roll' \in [Rollouts -> Rollout]
      <3>1. roll' = [roll EXCEPT ![loc[w].r].status = "RUNNING", ![loc[w].r].batch = loc[w].batch]
        BY <1>7 DEF startRunning
      <3>2. QED
        BY <1>1, <2>1, <3>1, RolloutWrites
    <2>3. QED
      BY <1>1, <1>2, <1>3, <1>7, <2>2, SimpleLocals DEF startRunning
  <1>8. CASE cancelRollout(w)
    <2>1. loc[w].r \in Rollouts /\ loc[w] \in LocalsAt("canceled")
      BY <1>5, <1>8, CancelLocals DEF cancelRollout, LocalsAt
    <2>2. roll' \in [Rollouts -> Rollout]
      BY <1>1, <1>8, <2>1, RolloutWrites DEF cancelRollout
    <2>3. QED
      BY <1>1, <1>2, <1>3, <1>8, <2>1, <2>2 DEF cancelRollout
  <1>9. CASE cancelCollect(w)
    <2>1. In(JobsOf(loc[w].r), NOT_DONE) \in SUBSET JobIds
      BY DEF In, JobsOf
    <2>2. QED
      BY <1>1, <1>2, <1>3, <1>9, <2>1, SimpleLocals DEF cancelCollect
  <1>10. CASE cancelEach(w)
    <2>1. loc[w] \in LocalsAt("cancelJobs") /\ loc[w].ids \subseteq JobIds
      BY <1>5, <1>10 DEF cancelEach, LocalsAt
    <2>2. CASE loc[w].ids = {}
      BY <1>1, <1>2, <1>3, <1>4, <1>10, <2>2 DEF cancelEach, Return
    <2>3. CASE loc[w].ids # {}
      <3>1. PICK id \in loc[w].ids :
              /\ job' = [job EXCEPT ![id].status = "CANCELED"]
              /\ Goto(w, "cancelJobs", [loc[w] EXCEPT !.ids = @ \ {id}])
        BY <1>10, <2>3 DEF cancelEach
      <3>2. job' \in [JobIds -> Job]
        BY <1>1, <2>1, <3>1, JobWrites DEF DONE
      <3>3. [loc[w] EXCEPT !.ids = @ \ {id}] \in LocalsAt("cancelJobs")
        BY <2>1, CancelLocals
      <3>4. QED
        BY <1>1, <1>2, <1>3, <1>10, <3>1, <3>2, <3>3 DEF cancelEach
    <2>4. QED
      BY <2>2, <2>3
  <1>11. CASE cancelOne(w)
    <2>1. loc[w].ids \subseteq JobIds
      BY <1>5, <1>11 DEF cancelOne, LocalsAt
    <2>2. job' \in [JobIds -> Job]
      <3>1. PICK id \in loc[w].ids : job' = [job EXCEPT ![id].status = "CANCELED"]
        BY <1>11 DEF cancelOne
      <3>2. QED
        BY <1>1, <2>1, <3>1, JobWrites DEF DONE
    <2>3. QED
      BY <1>1, <1>2, <1>3, <1>4, <1>11, <2>2 DEF cancelOne, Return
  <1>12. QED
    BY <1>6, <1>7, <1>8, <1>9, <1>10, <1>11

\* The threshold check and the loop of tick().
LEMMA TypedTick ==
  ASSUME Typed, NEW w \in Workers,
         \/ checkThreshold(w) \/ autoPause(w) \/ tick(w) \/ findStale(w) \/ expire(w)
         \/ advance(w) \/ complete(w) \/ boundary(w) \/ setBatch(w)
  PROVE  Typed'
  <1>1. /\ roll \in [Rollouts -> Rollout] /\ job \in [JobIds -> Job]
        /\ overdue \subseteq JobIds /\ backoff \subseteq JobIds /\ ran \subseteq JobIds
    BY DEF Typed, TypeOK
  <1>2. ASSUME NEW p \in PCs, NEW l \in LocalsAt(p), Goto(w, p, l), UNCHANGED <<job, clock>>,
               roll' \in [Rollouts -> Rollout]
        PROVE  Typed'
    <2>1. /\ job' \in [JobIds -> Job] /\ overdue' \subseteq JobIds
          /\ backoff' \subseteq JobIds /\ ran' \subseteq JobIds
      BY <1>1, <1>2 DEF clock
    <2>2. QED
      BY <1>2, <2>1, GotoType
  <1>3. {"idle", "rollouts", "expire", "complete", "threshold", "setBatch", "pausing"}
          \subseteq PCs
    BY DEF PCs
  <1>4. loc[w] \in LocalsAt(pc[w])
    BY DEF Typed
  <1>5. ASSUME NEW p \in {"expire", "complete", "boundary", "setBatch"}, pc[w] = p,
               NextRollout(w, loc[w]), UNCHANGED <<job, clock>>, roll' \in [Rollouts -> Rollout]
        PROVE  Typed'
    <2> DEFINE l == [loc[w] EXCEPT !.r = 0, !.batch = 0, !.back = "idle",
                                   !.plan = {c \in @ : c.r # loc[w].r}]
    <2>1. l \in LocalsAt("rollouts")
      BY <1>4, <1>5, NextRolloutLocals
    <2>2. Goto(w, "rollouts", l)
      BY <1>5 DEF NextRollout
    <2> HIDE DEF l
    <2>3. QED
      BY <1>2, <1>3, <1>5, <2>1, <2>2
  <1>6. CASE checkThreshold(w)
    <2>1. /\ loc[w] \in LocalsAt("pausing") /\ loc[w].back \in PCs
          /\ loc[w] \in LocalsAt(loc[w].back)
      BY <1>4, <1>6, ThresholdLocals DEF checkThreshold
    <2>2. CASE TooManyFailed(loc[w].r)
      BY <1>1, <1>2, <1>3, <1>6, <2>1, <2>2 DEF checkThreshold
    <2>3. CASE ~TooManyFailed(loc[w].r)
      BY <1>1, <1>2, <1>3, <1>6, <2>1, <2>3 DEF checkThreshold
    <2>4. QED
      BY <2>2, <2>3
  <1>7. CASE autoPause(w)
    <2>1. loc[w].back \in PCs /\ loc[w] \in LocalsAt(loc[w].back)
      BY <1>4, <1>7, ThresholdLocals DEF autoPause
    <2>2. loc[w].r \in Rollouts
      BY <1>4, <1>7 DEF autoPause, LocalsAt
    <2>3. roll' \in [Rollouts -> Rollout]
      BY <1>1, <1>7, <2>2, RolloutWrites DEF autoPause
    <2>4. QED
      BY <1>2, <1>7, <2>1, <2>3 DEF autoPause
  <1>8. CASE tick(w)
    <2> DEFINE plan == {[r |-> r, status |-> roll[r].status, batch |-> roll[r].batch] :
                          r \in {q \in Rollouts : roll[q].status \in {"RUNNING", "PAUSED"}}}
    <2>1. plan \in SUBSET RolloutCopy
      BY <1>1 DEF Rollout, RolloutCopy
    <2>2. Goto(w, "rollouts", [NoLoc EXCEPT !.plan = plan])
      BY <1>8 DEF tick
    <2> HIDE DEF plan
    <2>3. QED
      BY <1>1, <1>2, <1>3, <1>8, <2>1, <2>2, SimpleLocals DEF tick
  <1>9. CASE findStale(w)
    <2>1. CASE loc[w].plan = {}
      BY <1>1, <1>2, <1>3, <1>9, <2>1, SimpleLocals DEF findStale, Return
    <2>2. CASE loc[w].plan # {}
      <3>1. PICK r \in loc[w].plan :
              Goto(w, "expire",
                   [loc[w] EXCEPT !.r = r.r,
                      !.list = Copies({id \in In(JobsOf(r.r), ACTIVE) : id \in overdue})])
        BY <1>9, <2>2 DEF findStale
      <3>2. r.r \in Rollouts
        BY DEF Typed, TypeOK, RolloutCopy
      <3> DEFINE ids == {id \in In(JobsOf(r.r), ACTIVE) : id \in overdue}
      <3>3. ids \subseteq JobIds /\ \A id \in ids : job[id].status # "NONE"
        BY <3>2, Ids DEF In, ACTIVE
      <3> HIDE DEF ids
      <3>4. Copies(ids) \in SUBSET JobCopy
        BY <1>1, <3>3, CopiesType
      <3>5. [loc[w] EXCEPT !.r = r.r, !.list = Copies(ids)] \in LocalsAt("expire")
        BY <1>4, <1>9, <3>2, <3>4, LoopLocals DEF findStale
      <3>6. QED
        BY <1>1, <1>2, <1>3, <1>9, <3>1, <3>5 DEF findStale, ids
    <2>3. QED
      BY <2>1, <2>2
  <1>10. CASE expire(w)
    BY <1>10, FailAttemptType DEF expire
  <1>11. CASE advance(w)
    <2> DEFINE l     == loc[w]
               copy  == CHOOSE c \in l.plan : c.r = l.r
               later == {job[id].batch : id \in {i \in In(JobsOf(l.r), {"REQUESTED"}) :
                                                   job[i].batch > copy.batch}}
    <2>1. l \in LocalsAt("expire") /\ roll' \in [Rollouts -> Rollout] /\ UNCHANGED <<job, clock>>
      BY <1>1, <1>4, <1>11 DEF advance
    <2>2. later \subseteq Nat
      BY <1>1 DEF In, JobsOf, Job
    <2>3. \/ NextRollout(w, loc[w])
          \/ Goto(w, "complete", l)
          \/ later # {} /\ Goto(w, "threshold", [l EXCEPT !.batch = Least(later), !.back = "boundary"])
      BY <1>11 DEF advance
    <2> HIDE DEF later
    <2>4. CASE NextRollout(w, loc[w])
      BY <1>5, <1>11, <2>1, <2>4 DEF advance
    <2>5. CASE Goto(w, "complete", l)
      BY <1>2, <1>3, <2>1, <2>5, LoopLocals
    <2>6. CASE later # {} /\ Goto(w, "threshold", [l EXCEPT !.batch = Least(later),
                                                            !.back = "boundary"])
      <3>1. Least(later) \in Nat
        BY <2>2, <2>6, LeastNat
      <3>2. [l EXCEPT !.batch = Least(later), !.back = "boundary"] \in LocalsAt("threshold")
        BY <2>1, <3>1, LoopLocals
      <3>3. QED
        BY <1>2, <1>3, <2>1, <2>6, <3>2
    <2>7. QED
      BY <2>3, <2>4, <2>5, <2>6
  <1>12. CASE complete(w)
    <2>1. loc[w].r \in Rollouts
      BY <1>4, <1>12 DEF complete, LocalsAt
    <2>2. roll' \in [Rollouts -> Rollout]
      BY <1>1, <1>12, <2>1, RolloutWrites DEF complete
    <2>3. QED
      BY <1>5, <1>12, <2>2 DEF complete
  <1>13. CASE boundary(w)
    <2>1. loc[w] \in LocalsAt("setBatch")
      BY <1>4, <1>13, LoopLocals DEF boundary
    <2>2. QED
      BY <1>1, <1>2, <1>3, <1>5, <1>13, <2>1 DEF boundary
  <1>14. CASE setBatch(w)
    <2>1. loc[w].r \in Rollouts /\ loc[w].batch \in Nat
      BY <1>4, <1>14 DEF setBatch, LocalsAt
    <2>2. roll' \in [Rollouts -> Rollout]
      BY <1>1, <1>14, <2>1, RolloutWrites DEF setBatch
    <2>3. QED
      BY <1>5, <1>14, <2>2 DEF setBatch
  <1>15. QED
    BY <1>6, <1>7, <1>8, <1>9, <1>10, <1>11, <1>12, <1>13, <1>14

\* What recordEvidence() may do with a job: nothing, fail() it, count a failed
\* attempt against it, or ask whether the computer is registered.
Judged(w, j) ==
  \/ /\ Goto(w, "evidence", [loc[w] EXCEPT !.list = @ \ {j}])
     /\ UNCHANGED <<job, clock>>
  \/ fail(w, j, "evidence")
  \/ /\ j.id \in ran /\ j.status \in {"DISPATCHED", "INSTALLING"}
     /\ failAttempt(w, j, "evidence")
  \/ /\ job' = IF j.status = "AWAITING_VERIFICATION" THEN job
               ELSE [job EXCEPT ![j.id].status = "AWAITING_VERIFICATION"]
     /\ Goto(w, "hbbs", [loc[w] EXCEPT !.list = @ \ {j}, !.ids = {j.id}])
     /\ UNCHANGED clock

\* recordEvidence() judges a job that the heartbeat read, in one of four ways.
LEMMA EvidenceCases ==
  ASSUME Typed, NEW w \in Workers, NEW version \in Versions, NEW echo \in BOOLEAN,
         recordEvidence(w, version, echo)
  PROVE  /\ pc[w] = "evidence" /\ UNCHANGED roll
         /\ \E j \in loc[w].list : Judged(w, j)
  <1> DEFINE j == CHOOSE c \in loc[w].list : \A d \in loc[w].list : c.id[1] <= d.id[1]
  <1>1. loc[w].list \in SUBSET JobCopy /\ loc[w].list # {}
    BY DEF Typed, TypeOK, recordEvidence
  <1>2. j \in loc[w].list
    BY <1>1, FirstCopy
  <1>3. Judged(w, j)
    BY DEF recordEvidence, Versions, Judged
  <1>4. pc[w] = "evidence" /\ UNCHANGED roll
    BY DEF recordEvidence
  <1> HIDE DEF j
  <1>5. QED
    BY <1>2, <1>3, <1>4

\* selectJob() returns, or picks one job that nothing holds back.
LEMMA SelectCases ==
  ASSUME Typed, NEW w \in Workers, selectJob(w)
  PROVE  \/ Return(w)
         \/ \E id \in Eligible(loc[w].e) :
              /\ In(JobsAt(loc[w].e), ACTIVE) = {}
              /\ Goto(w, "dispatch", [NoLoc EXCEPT !.ids = {id}])
  <1> DEFINE S  == Eligible(loc[w].e)
             id == CHOOSE i \in S : \A k \in S : i[1] <= k[1]
  <1>1. S \subseteq JobIds
    BY DEF Eligible, In, JobsAt
  <1>2. CASE S # {} /\ In(JobsAt(loc[w].e), ACTIVE) = {}
    <2>1. id \in S
      BY <1>1, <1>2, FirstId
    <2>2. Goto(w, "dispatch", [NoLoc EXCEPT !.ids = {id}])
      BY <1>2 DEF selectJob
    <2> HIDE DEF id
    <2>3. QED
      BY <1>2, <2>1, <2>2
  <1>3. CASE ~(S # {} /\ In(JobsAt(loc[w].e), ACTIVE) = {})
    BY <1>3 DEF selectJob
  <1>4. QED
    BY <1>2, <1>3

\* Heartbeats and downloads that go on.
LEMMA TypedHeartbeat ==
  ASSUME Typed, NEW w \in Workers,
         \/ \E version \in Versions, echo \in BOOLEAN : recordEvidence(w, version, echo)
         \/ \E registered \in BOOLEAN : verify(w, registered)
         \/ selectJob(w) \/ markInstalling(w)
         \/ \E deferred \in BOOLEAN : dispatch(w, deferred)
  PROVE  Typed'
  <1>1. /\ roll \in [Rollouts -> Rollout] /\ job \in [JobIds -> Job]
        /\ overdue \subseteq JobIds /\ backoff \subseteq JobIds /\ ran \subseteq JobIds
    BY DEF Typed, TypeOK
  <1>2. ASSUME NEW p \in PCs, NEW l \in LocalsAt(p), Goto(w, p, l), UNCHANGED <<roll, clock>>,
               job' \in [JobIds -> Job]
        PROVE  Typed'
    <2>1. /\ roll' \in [Rollouts -> Rollout] /\ overdue' \subseteq JobIds
          /\ backoff' \subseteq JobIds /\ ran' \subseteq JobIds
      BY <1>1, <1>2 DEF clock
    <2>2. QED
      BY <1>2, <2>1, GotoType
  <1>3. {"idle", "evidence", "hbbs", "dispatch"} \subseteq PCs
    BY DEF PCs
  <1>4. loc[w] \in LocalsAt(pc[w])
    BY DEF Typed
  <1>5. NoLoc \in LocalsAt("idle")
    BY SimpleLocals
  <1>6. ASSUME NEW version \in Versions, NEW echo \in BOOLEAN, recordEvidence(w, version, echo)
        PROVE  Typed'
    <2>1. pc[w] = "evidence" /\ UNCHANGED roll
      BY <1>6, EvidenceCases
    <2>2. PICK j \in loc[w].list : Judged(w, j)
      BY <1>6, EvidenceCases
    <2>3. /\ j.id \in JobIds /\ {j.id} \in SUBSET JobIds
          /\ loc[w].list \ {j} \in SUBSET JobCopy
      BY DEF Typed, TypeOK, JobCopy
    <2>4. CASE /\ Goto(w, "evidence", [loc[w] EXCEPT !.list = @ \ {j}])
               /\ UNCHANGED <<job, clock>>
      <3>1. [loc[w] EXCEPT !.list = @ \ {j}] \in LocalsAt("evidence")
        BY <1>4, <2>1, <2>3, JudgeLocals
      <3>2. QED
        BY <1>1, <1>2, <1>3, <2>1, <2>4, <3>1
    <2>5. CASE fail(w, j, "evidence") \/ failAttempt(w, j, "evidence")
      BY <2>1, <2>5, FailAttemptType
    <2>6. CASE /\ job' = IF j.status = "AWAITING_VERIFICATION" THEN job
                         ELSE [job EXCEPT ![j.id].status = "AWAITING_VERIFICATION"]
               /\ Goto(w, "hbbs", [loc[w] EXCEPT !.list = @ \ {j}, !.ids = {j.id}])
               /\ UNCHANGED clock
      <3>1. job' \in [JobIds -> Job]
        <4>1. [job EXCEPT ![j.id].status = "AWAITING_VERIFICATION"] \in [JobIds -> Job]
          BY <1>1, <2>3, JobWrites DEF NOT_DONE, ACTIVE
        <4>2. QED
          BY <1>1, <2>6, <4>1
      <3>2. [loc[w] EXCEPT !.list = @ \ {j}, !.ids = {j.id}] \in LocalsAt("hbbs")
        BY <1>4, <2>1, <2>3, EvidenceLocals
      <3>3. QED
        BY <1>2, <1>3, <2>1, <2>6, <3>1, <3>2
    <2>7. QED
      BY <2>2, <2>4, <2>5, <2>6 DEF Judged
  <1>7. ASSUME NEW registered \in BOOLEAN, verify(w, registered)
        PROVE  Typed'
    <2>1. job' \in [JobIds -> Job]
      <3>1. \A id \in JobIds : [job[id] EXCEPT !.status = "SUCCEEDED", !.nonce = FALSE] \in Job
        <4>1. "SUCCEEDED" \in NOT_DONE \cup DONE \cup {"NONE"}
          BY DEF DONE
        <4>2. QED
          BY <1>1, <4>1, Zenon DEF Job
      <3>2. QED
        BY <1>1, <1>7, <3>1 DEF verify
    <2>2. [loc[w] EXCEPT !.ids = {}] \in LocalsAt("evidence")
      BY <1>4, <1>7, EvidenceLocals DEF verify
    <2>3. QED
      BY <1>2, <1>3, <1>7, <2>1, <2>2 DEF verify
  <1>8. CASE selectJob(w)
    <2>1. UNCHANGED <<roll, clock>> /\ job' \in [JobIds -> Job]
      BY <1>1, <1>8 DEF selectJob
    <2>2. \A id \in Eligible(loc[w].e) : {id} \in SUBSET JobIds
      BY DEF Eligible, In, JobsAt
    <2>3. CASE Goto(w, "idle", NoLoc)
      BY <1>2, <1>3, <1>5, <2>1, <2>3
    <2>4. ASSUME NEW id \in Eligible(loc[w].e), Goto(w, "dispatch", [NoLoc EXCEPT !.ids = {id}])
          PROVE  Typed'
      <3>1. [NoLoc EXCEPT !.ids = {id}] \in LocalsAt("dispatch")
        BY <2>2, SimpleLocals
      <3>2. QED
        BY <1>2, <1>3, <2>1, <2>4, <3>1
    <2>5. QED
      BY <1>8, <2>3, <2>4, SelectCases DEF Return
  <1>9. CASE markInstalling(w)
    <2>1. loc[w].ids \subseteq JobIds
      BY <1>4, <1>9 DEF markInstalling, LocalsAt
    <2>2. PICK id \in loc[w].ids :
            job' = IF job[id].status = "DISPATCHED"
                   THEN [job EXCEPT ![id].status = "INSTALLING"] ELSE job
      BY <1>9 DEF markInstalling
    <2>3. [job EXCEPT ![id].status = "INSTALLING"] \in [JobIds -> Job]
      BY <1>1, <2>1, JobWrites DEF NOT_DONE, ACTIVE
    <2>4. job' \in [JobIds -> Job]
      BY <1>1, <2>2, <2>3
    <2>5. QED
      BY <1>2, <1>3, <1>5, <1>9, <2>4 DEF markInstalling, Return
  <1>10. ASSUME NEW deferred \in BOOLEAN, dispatch(w, deferred)
         PROVE  Typed'
    <2>1. loc[w].ids \subseteq JobIds
      BY <1>4, <1>10 DEF dispatch, LocalsAt
    <2>2. PICK id \in loc[w].ids :
            \/ UNCHANGED <<job, overdue, ran>>
            \/ /\ job' = [job EXCEPT ![id].status = "DISPATCHED", ![id].nonce = TRUE,
                                     ![id].attempts = @ + 1]
               /\ overdue' = overdue \ {id}
               /\ ran' = ran \ {id}
      BY <1>10 DEF dispatch
    <2>3. [job EXCEPT ![id].status = "DISPATCHED", ![id].nonce = TRUE, ![id].attempts = @ + 1]
            \in [JobIds -> Job]
      BY <1>1, <2>1, JobWrites DEF NOT_DONE, ACTIVE
    <2>4. job' \in [JobIds -> Job] /\ overdue' \subseteq JobIds /\ ran' \subseteq JobIds
      BY <1>1, <2>2, <2>3
    <2>5. QED
      BY <1>1, <1>3, <1>5, <1>10, <2>4, GotoType DEF dispatch, Return
  <1>11. QED
    BY <1>6, <1>7, <1>8, <1>9, <1>10

\* Every step keeps everything typed.
LEMMA TypedStep ==
  Typed /\ [Next]_vars => Typed'
  <1> SUFFICES ASSUME Typed, [Next]_vars
               PROVE  Typed'
    OBVIOUS
  <1>1. ASSUME NEW id \in JobIds, verifyTimeout(id) \/ backoffOver(id) \/ installerRan(id)
        PROVE  Typed'
    BY <1>1 DEF verifyTimeout, backoffOver, installerRan, Typed, TypeOK
  <1>2. ASSUME NEW w \in Workers, Continue(w)
        PROVE  Typed'
    BY <1>2, TypedRequests, TypedTick, TypedHeartbeat DEF Continue
  <1>3. CASE UNCHANGED vars
    BY <1>3 DEF vars, clock, Typed, TypeOK
  <1>4. QED
    BY <1>1, <1>2, <1>3, TypedBegin DEF Next

\* At the start everything is typed.
LEMMA TypedInit ==
  Init => Typed
  <1> SUFFICES ASSUME Init
               PROVE  Typed
    OBVIOUS
  <1>1. roll \in [Rollouts -> Rollout] /\ job \in [JobIds -> Job]
    BY DEF Init, Rollout, Job
  <1>2. pc \in [Workers -> PCs] /\ DOMAIN loc = Workers
    BY DEF Init, PCs
  <1>3. \A w \in Workers : pc[w] = "idle" /\ loc[w] = NoLoc
    BY DEF Init
  <1>4. NoLoc \in LocalsAt("idle")
    BY SimpleLocals
  <1>5. QED
    BY <1>1, <1>2, <1>3, <1>4 DEF Init, Typed, TypeOK, LocalsAt

\* The rows, the clock and the locals of the handlers keep their types; the
\* jobs a handler judges were read from rows that exist.
THEOREM TypeCorrect == Spec => []TypeOK
  <1>1. Typed => TypeOK
    BY DEF Typed
  <1>2. QED
    BY <1>1, TypedInit, TypedStep, PTL DEF Spec

-----------------------------------------------------------------------------
(* What one handler may do in a step.                                      *)

\* The other handlers stay where they are.
Others(w) == \A v \in Workers \ {w} : pc'[v] = pc[v] /\ loc'[v] = loc[v]

\* No row appears or disappears.
SameRows ==
  /\ \A r \in Rollouts : roll'[r].status = "NONE" <=> roll[r].status = "NONE"
  /\ \A id \in JobIds : job'[id].status = "NONE" <=> job[id].status = "NONE"

\* What the handler goes on to write exists, what it goes on to create does not.
EntersWell(w) ==
  /\ pc'[w] = "creating" => /\ roll[loc'[w].r].status = "NONE"
                            /\ ~Creating(loc'[w].r)
  /\ pc'[w] \in {"starting", "canceling"} => roll[loc'[w].r].status # "NONE"
  /\ pc'[w] \in {"cancelJobs", "cancelOne", "hbbs", "dispatch"} =>
       \A id \in loc'[w].ids : job[id].status # "NONE"

\* The handler keeps at most the jobs it holds, and selects none.
Drops(w) ==
  /\ pc'[w] # "dispatch"
  /\ \/ loc'[w].list = {}
     \/ loc'[w].list \subseteq loc[w].list /\ loc'[w].e = loc[w].e

\* A write to an existing job that uses no attempt and does not requeue it;
\* only a handler that holds a job moves it to an active status.
Settled(w, id) ==
  /\ job[id].status # "NONE" /\ job'[id].status \notin {"NONE", "REQUESTED"}
  /\ job'[id].attempts = job[id].attempts
  /\ job'[id].status \in ACTIVE =>
       job[id].status \in ACTIVE \/ \E j \in loc[w].list : j.id = id

\* Jobs are settled or left alone.
Settles(w) ==
  /\ UNCHANGED clock
  /\ Drops(w)
  /\ \A id \in JobIds : job'[id] = job[id] \/ Settled(w, id)

\* Active jobs are read: by a heartbeat, or because they are overdue.
Reads(w) ==
  /\ UNCHANGED <<job, clock>>
  /\ pc'[w] # "dispatch"
  /\ \A j \in loc'[w].list : /\ job[j.id].status \in ACTIVE
                             /\ j.attempts = job[j.id].attempts
                             /\ loc'[w].e # 0 \/ j.id \in overdue

\* A job that the handler holds is queued again.
Requeues(w) ==
  /\ UNCHANGED <<overdue, ran>>
  /\ Drops(w)
  /\ \E j \in loc[w].list :
       /\ loc[w].e = 0 \/ j.id \in ran
       /\ j.attempts < MaxAttempts
       /\ job' = [job EXCEPT ![j.id].status = "REQUESTED", ![j.id].nonce = FALSE]
       /\ backoff' = backoff \cup {j.id}

\* A job is about to be handed out.
Selects(w) ==
  /\ UNCHANGED <<job, clock>>
  /\ pc'[w] = "dispatch" /\ loc'[w].list = {}
  /\ \E id \in JobIds \ backoff : job[id].status = "REQUESTED" /\ loc'[w].ids = {id}

\* A job is handed out.
HandsOut(w) ==
  /\ UNCHANGED backoff
  /\ pc[w] = "dispatch" /\ pc'[w] # "dispatch" /\ loc'[w].list = {}
  /\ \E id \in loc[w].ids :
       /\ id \in JobIds
       /\ job[id].status = "REQUESTED"
       /\ job' = [job EXCEPT ![id].status = "DISPATCHED", ![id].nonce = TRUE,
                             ![id].attempts = @ + 1]
       /\ overdue' = overdue \ {id}
       /\ ran' = ran \ {id}

\* A step of a handler that creates no rollout.
Moves(w) ==
  /\ Others(w) /\ SameRows /\ EntersWell(w)
  /\ Settles(w) \/ Reads(w) \/ Requeues(w) \/ Selects(w) \/ HandsOut(w)

\* Where a handler is after Goto.
LEMMA GotoEffect ==
  ASSUME Typed, NEW w \in Workers, NEW p, NEW l, Goto(w, p, l)
  PROVE  Others(w) /\ pc'[w] = p /\ loc'[w] = l
  BY DEF Typed, TypeOK, Goto, Others

\* A handler that goes to p with locals l drops jobs, and what it goes on to
\* write exists.
Keeps(w, p, l) ==
  /\ p # "dispatch"
  /\ l.list = {} \/ (l.list \subseteq loc[w].list /\ l.e = loc[w].e)
  /\ p = "creating" => roll[l.r].status = "NONE" /\ ~Creating(l.r)
  /\ p \in {"starting", "canceling"} => roll[l.r].status # "NONE"
  /\ p \in {"cancelJobs", "cancelOne", "hbbs"} => \A id \in l.ids : job[id].status # "NONE"

\* No rollout appears or disappears.
SameRollouts == \A r \in Rollouts : roll'[r].status = "NONE" <=> roll[r].status = "NONE"

\* A handler that only changes its own locals and drops jobs.
LEMMA Quietly ==
  ASSUME Typed, NEW w \in Workers, NEW p, NEW l, Goto(w, p, l), Keeps(w, p, l),
         UNCHANGED job, UNCHANGED clock, SameRollouts
  PROVE  Moves(w)
  <1>1. Others(w) /\ pc'[w] = p /\ loc'[w] = l
    BY GotoEffect
  <1>2. SameRows
    BY DEF SameRows, SameRollouts
  <1>3. EntersWell(w)
    BY <1>1 DEF EntersWell, Keeps
  <1>4. Drops(w)
    BY <1>1 DEF Drops, Keeps
  <1>5. Settles(w)
    BY <1>4 DEF Settles
  <1>6. QED
    BY <1>1, <1>2, <1>3, <1>5 DEF Moves

\* A handler that settles one job it may settle, and drops jobs.
LEMMA SettlesOne ==
  ASSUME Typed, NEW w \in Workers, NEW p, NEW l, Goto(w, p, l), Keeps(w, p, l),
         UNCHANGED roll, UNCHANGED clock,
         NEW id \in JobIds, Settled(w, id), \A i \in JobIds \ {id} : job'[i] = job[i]
  PROVE  Moves(w)
  <1>1. Others(w) /\ pc'[w] = p /\ loc'[w] = l
    BY GotoEffect
  <1>2. SameRows
    BY DEF SameRows, SameRollouts, Settled
  <1>3. EntersWell(w)
    BY <1>1 DEF EntersWell, Keeps
  <1>4. Drops(w)
    BY <1>1 DEF Drops, Keeps
  <1>5. Settles(w)
    BY <1>4 DEF Settles
  <1>6. QED
    BY <1>1, <1>2, <1>3, <1>5 DEF Moves

\* The fields of the locals that Drops looks at.
LEMMA DropFields ==
  /\ NoLoc.list = {}
  /\ \A ids : [NoLoc EXCEPT !.ids = ids].list = {} /\ [NoLoc EXCEPT !.ids = ids].ids = ids
  /\ \A r : [NoLoc EXCEPT !.r = r].list = {} /\ [NoLoc EXCEPT !.r = r].r = r
  /\ \A r, b : /\ [NoLoc EXCEPT !.r = r, !.batch = b].list = {}
              /\ [NoLoc EXCEPT !.r = r, !.batch = b].r = r
  /\ \A r, c, ids : /\ [NoLoc EXCEPT !.r = r, !.component = c, !.ids = ids].list = {}
                    /\ [NoLoc EXCEPT !.r = r, !.component = c, !.ids = ids].r = r
  /\ \A plan : [NoLoc EXCEPT !.plan = plan].list = {}
  BY DEF NoLoc

\* Requests, heartbeats and ticks that begin.
LEMMA BeginMoves ==
  ASSUME Typed, NEW w \in Workers, timer(w) \/ Operate(w) \/ Report(w)
  PROVE  Moves(w)
  <1>1. CASE timer(w)
    <2>1. Goto(w, "tick", NoLoc) /\ UNCHANGED <<roll, job, clock>>
      BY <1>1 DEF timer
    <2>2. Keeps(w, "tick", NoLoc)
      BY DropFields DEF Keeps
    <2>3. QED
      BY <2>1, <2>2, Quietly DEF SameRollouts
  <1>2. ASSUME NEW r \in Rollouts, NEW c \in Components, create(w, r, c)
        PROVE  Moves(w)
    <2> DEFINE l == [NoLoc EXCEPT !.r = r, !.component = c, !.ids = Busy(c)]
    <2>1. l.list = {} /\ l.r = r
      BY DropFields
    <2>2. Goto(w, "creating", l)
      BY <1>2 DEF create
    <2> HIDE DEF l
    <2>3. QED
      <3>1. Keeps(w, "creating", l)
        BY <1>2, <2>1 DEF create, Keeps
      <3>2. QED
        BY <1>2, <2>2, <3>1, Quietly DEF create, SameRollouts
  <1>3. ASSUME NEW r \in Rollouts, start(w, r)
        PROVE  Moves(w)
    <2> DEFINE pending == {job[id].batch : id \in In(JobsOf(r), {"REQUESTED"})}
               b == IF roll[r].status = "PAUSED" THEN roll[r].batch
                    ELSE IF pending = {} THEN 0 ELSE Least(pending)
               l == [NoLoc EXCEPT !.r = r, !.batch = b]
    <2>1. l.list = {} /\ l.r = r
      BY DropFields
    <2>2. Goto(w, "starting", l)
      BY <1>3 DEF start
    <2> HIDE DEF l
    <2>3. QED
      <3>1. Keeps(w, "starting", l)
        BY <1>3, <2>1 DEF start, Keeps
      <3>2. QED
        BY <1>3, <2>2, <3>1, Quietly DEF start, SameRollouts
  <1>4. ASSUME NEW r \in Rollouts, pause(w, r)
        PROVE  Moves(w)
    <2>1. \A q \in Rollouts : roll'[q].status = "NONE" <=> roll[q].status = "NONE"
      BY <1>4 DEF pause, Typed, TypeOK, Rollout
    <2>2. UNCHANGED <<job, clock, pc, loc>> /\ pc[w] = "idle"
      BY <1>4 DEF pause
    <2>3. SameRows /\ Others(w) /\ EntersWell(w)
      BY <2>1, <2>2 DEF SameRows, Others, EntersWell
    <2>4. Settles(w)
      BY <2>2 DEF Settles, Drops
    <2>5. QED
      BY <2>3, <2>4 DEF Moves
  <1>5. ASSUME NEW r \in Rollouts, cancel(w, r)
        PROVE  Moves(w)
    <2>1. Goto(w, "canceling", [NoLoc EXCEPT !.r = r]) /\ UNCHANGED <<roll, job, clock>>
      BY <1>5 DEF cancel
    <2>2. Keeps(w, "canceling", [NoLoc EXCEPT !.r = r])
      BY <1>5, DropFields DEF cancel, Keeps
    <2>3. QED
      BY <2>1, <2>2, Quietly DEF SameRollouts
  <1>6. ASSUME NEW r \in Rollouts, NEW id \in JobsOf(r), cancelJob(w, id)
        PROVE  Moves(w)
    <2>1. job[id].status # "NONE"
      BY <1>6 DEF cancelJob, NOT_DONE, ACTIVE
    <2>2. Goto(w, "cancelOne", [NoLoc EXCEPT !.ids = {id}]) /\ UNCHANGED <<roll, job, clock>>
      BY <1>6 DEF cancelJob
    <2>3. Keeps(w, "cancelOne", [NoLoc EXCEPT !.ids = {id}])
      BY <2>1, DropFields DEF Keeps
    <2>4. QED
      BY <2>2, <2>3, Quietly DEF SameRollouts
  <1>7. ASSUME NEW e \in Endpoints, onHeartbeat(w, e)
        PROVE  Moves(w)
    <2> DEFINE l == [NoLoc EXCEPT !.e = e, !.list = Copies(InFlight(e))]
    <2>1. l.list = Copies(InFlight(e)) /\ l.e = e /\ e # 0
      BY DEF NoLoc, Endpoints
    <2>2. Goto(w, "evidence", l) /\ UNCHANGED <<roll, job, clock>>
      BY <1>7 DEF onHeartbeat
    <2> HIDE DEF l
    <2>3. Others(w) /\ pc'[w] = "evidence" /\ loc'[w] = l
      BY <2>2, GotoEffect
    <2>4. SameRows /\ EntersWell(w)
      BY <2>2, <2>3 DEF SameRows, EntersWell
    <2>5. \A j \in Copies(InFlight(e)) :
            job[j.id].status \in ACTIVE /\ j.attempts = job[j.id].attempts
      BY DEF Copies, InFlight, In
    <2>6. Reads(w)
      BY <2>1, <2>2, <2>3, <2>5 DEF Reads
    <2>7. QED
      BY <2>3, <2>4, <2>6 DEF Moves
  <1>8. ASSUME NEW id \in JobIds, installerFetched(w, id)
        PROVE  Moves(w)
    <2>1. Goto(w, "fetched", [NoLoc EXCEPT !.ids = {id}]) /\ UNCHANGED <<roll, job, clock>>
      BY <1>8 DEF installerFetched
    <2>2. Keeps(w, "fetched", [NoLoc EXCEPT !.ids = {id}])
      BY DropFields DEF Keeps
    <2>3. QED
      BY <2>1, <2>2, Quietly DEF SameRollouts
  <1>9. QED
    BY <1>1, <1>2, <1>3, <1>4, <1>5, <1>6, <1>7, <1>8 DEF Operate, Report

\* Canceling a job that exists.
LEMMA CancelSettles ==
  ASSUME Typed, NEW w \in Workers, NEW id \in JobIds, job[id].status # "NONE",
         job' = [job EXCEPT ![id].status = "CANCELED"]
  PROVE  Settled(w, id) /\ \A i \in JobIds \ {id} : job'[i] = job[i]
  BY DEF Typed, TypeOK, Job, Settled, ACTIVE

\* Requests of operators that go on; createRows() is apart.
LEMMA RequestMoves ==
  ASSUME Typed, Created, NEW w \in Workers,
         \/ startRunning(w) \/ cancelRollout(w) \/ cancelCollect(w)
         \/ cancelEach(w) \/ cancelOne(w)
  PROVE  Moves(w)
  <1>1. loc[w] \in LocalsAt(pc[w])
    BY DEF Typed
  <1>2. CASE startRunning(w)
    <2>1. loc[w].r \in Rollouts /\ roll[loc[w].r].status # "NONE"
      BY <1>1, <1>2 DEF startRunning, LocalsAt, Created
    <2>2. \A q \in Rollouts : roll'[q].status = "NONE" <=> roll[q].status = "NONE"
      BY <1>2, <2>1 DEF startRunning, Typed, TypeOK, Rollout
    <2>3. QED
      <3>1. Keeps(w, "tick", NoLoc)
        BY DropFields DEF Keeps
      <3>2. QED
        BY <1>2, <2>2, <3>1, Quietly DEF startRunning, SameRollouts
  <1>3. CASE cancelRollout(w)
    <2>1. loc[w].r \in Rollouts /\ roll[loc[w].r].status # "NONE"
      BY <1>1, <1>3 DEF cancelRollout, LocalsAt, Created
    <2>2. \A q \in Rollouts : roll'[q].status = "NONE" <=> roll[q].status = "NONE"
      BY <1>3, <2>1 DEF cancelRollout, Typed, TypeOK, Rollout
    <2>3. QED
      <3>1. Keeps(w, "canceled", loc[w])
        BY DEF Keeps
      <3>2. QED
        BY <1>3, <2>2, <3>1, Quietly DEF cancelRollout, SameRollouts
  <1>4. CASE cancelCollect(w)
    <2> DEFINE ids == In(JobsOf(loc[w].r), NOT_DONE)
    <2>1. \A id \in ids : job[id].status # "NONE"
      BY DEF In, NOT_DONE, ACTIVE
    <2> HIDE DEF ids
    <2>2. Goto(w, "cancelJobs", [NoLoc EXCEPT !.ids = ids]) /\ UNCHANGED <<roll, job, clock>>
      BY <1>4 DEF cancelCollect, ids
    <2>3. QED
      <3>1. Keeps(w, "cancelJobs", [NoLoc EXCEPT !.ids = ids])
        BY <2>1, DropFields DEF Keeps
      <3>2. QED
        BY <2>2, <3>1, Quietly DEF SameRollouts
  <1>5. CASE cancelEach(w)
    <2>1. loc[w].ids \subseteq JobIds /\ \A id \in loc[w].ids : job[id].status # "NONE"
      BY <1>1, <1>5 DEF cancelEach, LocalsAt, Created
    <2>2. CASE loc[w].ids = {}
      <3>1. Keeps(w, "idle", NoLoc)
        BY DropFields DEF Keeps
      <3>2. Goto(w, "idle", NoLoc) /\ UNCHANGED <<roll, job, clock>>
        BY <1>5, <2>2 DEF cancelEach, Return
      <3>3. QED
        BY <3>1, <3>2, Quietly DEF SameRollouts
    <2>3. CASE loc[w].ids # {}
      <3>1. PICK id \in loc[w].ids :
              /\ job' = [job EXCEPT ![id].status = "CANCELED"]
              /\ Goto(w, "cancelJobs", [loc[w] EXCEPT !.ids = @ \ {id}])
        BY <1>5, <2>3 DEF cancelEach
      <3> DEFINE l == [loc[w] EXCEPT !.ids = @ \ {id}]
      <3>2. l.list = loc[w].list /\ l.e = loc[w].e /\ l.ids \subseteq loc[w].ids
        BY <1>1 DEF LocalsAt
      <3> HIDE DEF l
      <3>3. Settled(w, id) /\ \A i \in JobIds \ {id} : job'[i] = job[i]
        BY <2>1, <3>1, CancelSettles
      <3>4. Goto(w, "cancelJobs", l) /\ UNCHANGED <<roll, clock>>
        BY <1>5, <3>1 DEF cancelEach, l
      <3>5. \A i \in l.ids : job[i].status # "NONE"
        BY <2>1, <3>2
      <3>6. id \in JobIds
        BY <2>1
      <3>7. QED
        <4>1. Keeps(w, "cancelJobs", l)
          BY <3>2, <3>5 DEF Keeps
        <4>2. QED
          BY <3>3, <3>4, <3>6, <4>1, SettlesOne
    <2>4. QED
      BY <2>2, <2>3
  <1>6. CASE cancelOne(w)
    <2>1. loc[w].ids \subseteq JobIds /\ \A id \in loc[w].ids : job[id].status # "NONE"
      BY <1>1, <1>6 DEF cancelOne, LocalsAt, Created
    <2>2. PICK id \in loc[w].ids : job' = [job EXCEPT ![id].status = "CANCELED"]
      BY <1>6 DEF cancelOne
    <2>3. Settled(w, id) /\ \A i \in JobIds \ {id} : job'[i] = job[i]
      BY <2>1, <2>2, CancelSettles
    <2>4. Goto(w, "idle", NoLoc) /\ UNCHANGED <<roll, clock>>
      BY <1>6 DEF cancelOne, Return
    <2>5. id \in JobIds
      BY <2>1
    <2>6. QED
      <3>1. Keeps(w, "idle", NoLoc)
        BY DropFields DEF Keeps
      <3>2. QED
        BY <2>3, <2>4, <2>5, <3>1, SettlesOne
  <1>7. QED
    BY <1>2, <1>3, <1>4, <1>5, <1>6

\* fail() settles the job, failAttempt() settles it or queues it again.
LEMMA FailMoves ==
  ASSUME Typed, CopiesAgree, NEW w \in Workers, NEW back \in {"expire", "evidence"},
         pc[w] = back, NEW j \in loc[w].list, UNCHANGED roll,
         fail(w, j, back) \/ (failAttempt(w, j, back) /\ (loc[w].e = 0 \/ j.id \in ran))
  PROVE  Moves(w)
  <1>1. j \in JobCopy /\ j.id \in JobIds /\ job[j.id].status # "NONE" /\ job[j.id] \in Job
    BY DEF Typed, TypeOK, JobCopy, CopiesAgree
  <1>2. loc[w] \in LocalsAt(back)
    BY DEF Typed
  <1> DEFINE k == [loc[w] EXCEPT !.list = @ \ {j}]
             l == [loc[w] EXCEPT !.list = @ \ {j}, !.r = j.id[1], !.back = back]
  <1>3. /\ k.list \subseteq loc[w].list /\ k.e = loc[w].e
        /\ l.list \subseteq loc[w].list /\ l.e = loc[w].e
    BY <1>2 DEF LocalsAt
  <1>4. CASE fail(w, j, back)
    <2>1. job' = [job EXCEPT ![j.id].status = "FAILED", ![j.id].nonce = FALSE]
      BY <1>4 DEF fail
    <2>2. Settled(w, j.id) /\ \A i \in JobIds \ {j.id} : job'[i] = job[i]
      BY <1>1, <2>1 DEF Settled, Typed, TypeOK, Job, ACTIVE
    <2>3. Goto(w, "threshold", l) /\ UNCHANGED clock
      BY <1>4 DEF fail
    <2> HIDE DEF l
    <2>4. Keeps(w, "threshold", l)
      BY <1>3 DEF Keeps
    <2>5. QED
      BY <1>1, <2>2, <2>3, <2>4, SettlesOne
  <1>5. CASE /\ failAttempt(w, j, back) /\ j.attempts < MaxAttempts
             /\ loc[w].e = 0 \/ j.id \in ran
    <2>1. /\ job' = [job EXCEPT ![j.id].status = "REQUESTED", ![j.id].nonce = FALSE]
          /\ backoff' = backoff \cup {j.id} /\ UNCHANGED <<overdue, ran>>
          /\ Goto(w, back, k)
      <3>1. ~(j.attempts >= MaxAttempts)
        BY <1>1, <1>5, ConstantsAssumption DEF JobCopy
      <3>2. QED
        BY <1>5, <3>1 DEF failAttempt
    <2> HIDE DEF k
    <2>2. Others(w) /\ pc'[w] = back /\ loc'[w] = k
      BY <2>1, GotoEffect
    <2>3. SameRows /\ EntersWell(w)
      BY <1>1, <2>1, <2>2 DEF SameRows, EntersWell, Typed, TypeOK, Job
    <2>4. Drops(w)
      BY <1>3, <2>2 DEF Drops
    <2>5. Requeues(w)
      BY <1>5, <2>1, <2>4 DEF Requeues
    <2>6. QED
      BY <2>2, <2>3, <2>5 DEF Moves
  <1>6. QED
    <2>1. j.attempts \in Nat /\ MaxAttempts \in Nat
      BY <1>1, ConstantsAssumption DEF JobCopy
    <2>2. j.attempts < MaxAttempts \/ j.attempts >= MaxAttempts
      BY <2>1
    <2>3. QED
      BY <1>4, <1>5, <2>2 DEF failAttempt

\* The threshold check and the loop of tick().
LEMMA TickMoves ==
  ASSUME Typed, CopiesAgree, NEW w \in Workers,
         \/ checkThreshold(w) \/ autoPause(w) \/ tick(w) \/ findStale(w) \/ expire(w)
         \/ advance(w) \/ complete(w) \/ boundary(w) \/ setBatch(w)
  PROVE  Moves(w)
  <1>1. loc[w] \in LocalsAt(pc[w])
    BY DEF Typed
  <1>2. ASSUME NEW p \in PCs, NEW l, Goto(w, p, l), UNCHANGED job, UNCHANGED clock,
               p \notin {"dispatch", "creating", "starting", "canceling", "cancelJobs",
                         "cancelOne", "hbbs"},
               l.list = {} \/ (l.list \subseteq loc[w].list /\ l.e = loc[w].e), SameRollouts
        PROVE  Moves(w)
    <2>1. Keeps(w, p, l)
      BY <1>2 DEF Keeps
    <2>2. QED
      BY <1>2, <2>1, Quietly
  <1>3. ASSUME NextRollout(w, loc[w]), UNCHANGED job, UNCHANGED clock, SameRollouts
        PROVE  Moves(w)
    <2> DEFINE l == [loc[w] EXCEPT !.r = 0, !.batch = 0, !.back = "idle",
                                   !.plan = {c \in @ : c.r # loc[w].r}]
    <2>1. l.list = loc[w].list /\ l.e = loc[w].e
      BY <1>1 DEF LocalsAt
    <2>2. Goto(w, "rollouts", l)
      BY <1>3 DEF NextRollout
    <2> HIDE DEF l
    <2>3. "rollouts" \in PCs
      BY DEF PCs
    <2>4. QED
      BY <1>2, <1>3, <2>1, <2>2, <2>3
  <1>4. roll \in [Rollouts -> Rollout]
    BY DEF Typed, TypeOK
  <1>5. roll' = roll => SameRollouts
    BY DEF SameRollouts
  <1>6. ASSUME NEW r \in Rollouts, NEW s \in {"PAUSED", "COMPLETED"},
               roll' = IF roll[r].status = "RUNNING" THEN [roll EXCEPT ![r].status = s] ELSE roll
        PROVE  SameRollouts
    BY <1>4, <1>6 DEF SameRollouts, Rollout
  <1>7. /\ "pausing" \in PCs /\ "rollouts" \in PCs /\ "idle" \in PCs /\ "complete" \in PCs
        /\ "threshold" \in PCs /\ "setBatch" \in PCs
    BY DEF PCs
  <1>8. ASSUME NEW p \in {"threshold", "pausing"}, pc[w] = p
        PROVE  loc[w].r \in Rollouts /\ loc[w].back \in {"expire", "boundary", "evidence"}
    BY <1>1, <1>8 DEF LocalsAt
  <1>9. CASE checkThreshold(w)
    <2>1. \/ Goto(w, "pausing", loc[w])
          \/ Goto(w, loc[w].back, loc[w])
      BY <1>9 DEF checkThreshold
    <2>2. UNCHANGED <<roll, job, clock>> /\ loc[w].back \in {"expire", "boundary", "evidence"}
      BY <1>8, <1>9 DEF checkThreshold
    <2>3. loc[w].back \in PCs
      BY <2>2 DEF PCs
    <2>4. QED
      BY <1>2, <1>5, <1>7, <2>1, <2>2, <2>3
  <1>10. CASE autoPause(w)
    <2>1. loc[w].r \in Rollouts /\ loc[w].back \in {"expire", "boundary", "evidence"}
      BY <1>8, <1>10 DEF autoPause
    <2>2. loc[w].back \in PCs
      BY <2>1 DEF PCs
    <2>3. SameRollouts
      BY <1>6, <1>10, <2>1 DEF autoPause
    <2>4. QED
      BY <1>2, <1>10, <2>1, <2>2, <2>3 DEF autoPause
  <1>11. CASE tick(w)
    <2> DEFINE plan == {[r |-> r, status |-> roll[r].status, batch |-> roll[r].batch] :
                          r \in {q \in Rollouts : roll[q].status \in {"RUNNING", "PAUSED"}}}
    <2>1. Goto(w, "rollouts", [NoLoc EXCEPT !.plan = plan]) /\ UNCHANGED <<roll, job, clock>>
      BY <1>11 DEF tick
    <2> HIDE DEF plan
    <2>2. QED
      BY <1>2, <1>5, <1>7, <2>1, DropFields
  <1>12. CASE findStale(w)
    <2>1. UNCHANGED <<roll, job, clock>>
      BY <1>12 DEF findStale
    <2>2. CASE loc[w].plan = {}
      BY <1>2, <1>5, <1>7, <1>12, <2>1, <2>2, DropFields DEF findStale, Return
    <2>3. CASE loc[w].plan # {}
      <3>1. PICK r \in loc[w].plan :
              Goto(w, "expire",
                   [loc[w] EXCEPT !.r = r.r,
                      !.list = Copies({id \in In(JobsOf(r.r), ACTIVE) : id \in overdue})])
        BY <1>12, <2>3 DEF findStale
      <3> DEFINE S == Copies({id \in In(JobsOf(r.r), ACTIVE) : id \in overdue})
                 l == [loc[w] EXCEPT !.r = r.r, !.list = S]
      <3>2. \A j \in S : /\ job[j.id].status \in ACTIVE /\ j.attempts = job[j.id].attempts
                         /\ j.id \in overdue
        BY DEF Copies, In
      <3> HIDE DEF S
      <3>3. l.list = S
        BY <1>1 DEF LocalsAt
      <3>4. Others(w) /\ pc'[w] = "expire" /\ loc'[w] = l
        BY <3>1, GotoEffect DEF S
      <3> HIDE DEF l
      <3>5. SameRows /\ EntersWell(w)
        BY <2>1, <3>4 DEF SameRows, EntersWell
      <3>6. Reads(w)
        BY <2>1, <3>2, <3>3, <3>4 DEF Reads
      <3>7. QED
        BY <3>4, <3>5, <3>6 DEF Moves
    <2>4. QED
      BY <2>2, <2>3
  <1>13. CASE expire(w)
    <2>1. loc[w].e = 0
      BY <1>1, <1>13 DEF expire, LocalsAt
    <2>2. QED
      BY <1>13, <2>1, FailMoves DEF expire
  <1>14. CASE advance(w)
    <2> DEFINE l     == loc[w]
               copy  == CHOOSE c \in l.plan : c.r = l.r
               later == {job[id].batch : id \in {i \in In(JobsOf(l.r), {"REQUESTED"}) :
                                                   job[i].batch > copy.batch}}
               k     == [l EXCEPT !.batch = Least(later), !.back = "boundary"]
    <2>1. UNCHANGED <<roll, job, clock>>
      BY <1>14 DEF advance
    <2>2. \/ NextRollout(w, loc[w])
          \/ Goto(w, "complete", loc[w])
          \/ Goto(w, "threshold", k)
      BY <1>14 DEF advance
    <2>3. k.list = loc[w].list /\ k.e = loc[w].e
      BY <1>1 DEF LocalsAt
    <2> HIDE DEF k
    <2>4. CASE NextRollout(w, loc[w])
      BY <1>3, <1>5, <2>1, <2>4
    <2>5. CASE Goto(w, "complete", loc[w])
      BY <1>2, <1>5, <1>7, <2>1, <2>5
    <2>6. CASE Goto(w, "threshold", k)
      BY <1>2, <1>5, <1>7, <2>1, <2>3, <2>6
    <2>7. QED
      BY <2>2, <2>4, <2>5, <2>6
  <1>15. CASE complete(w)
    <2>1. loc[w].r \in Rollouts
      BY <1>1, <1>15 DEF complete, LocalsAt
    <2>2. SameRollouts
      BY <1>6, <1>15, <2>1 DEF complete
    <2>3. QED
      BY <1>3, <1>15, <2>2 DEF complete
  <1>16. CASE boundary(w)
    <2>1. UNCHANGED <<roll, job, clock>>
      BY <1>16 DEF boundary
    <2>2. NextRollout(w, loc[w]) \/ Goto(w, "setBatch", loc[w])
      BY <1>16 DEF boundary
    <2>3. QED
      BY <1>2, <1>3, <1>5, <1>7, <2>1, <2>2
  <1>17. CASE setBatch(w)
    <2>1. loc[w].r \in Rollouts
      BY <1>1, <1>17 DEF setBatch, LocalsAt
    <2>2. SameRollouts
      BY <1>4, <1>17, <2>1 DEF setBatch, SameRollouts, Rollout
    <2>3. QED
      BY <1>3, <1>17, <2>2 DEF setBatch
  <1>18. QED
    BY <1>9, <1>10, <1>11, <1>12, <1>13, <1>14, <1>15, <1>16, <1>17

\* Heartbeats and downloads that go on.
LEMMA HeartbeatMoves ==
  ASSUME Typed, Created, CopiesAgree, NEW w \in Workers,
         \/ \E version \in Versions, echo \in BOOLEAN : recordEvidence(w, version, echo)
         \/ \E registered \in BOOLEAN : verify(w, registered)
         \/ selectJob(w) \/ markInstalling(w)
         \/ \E deferred \in BOOLEAN : dispatch(w, deferred)
  PROVE  Moves(w)
  <1>1. loc[w] \in LocalsAt(pc[w])
    BY DEF Typed
  <1>2. job \in [JobIds -> Job]
    BY DEF Typed, TypeOK
  <1>3. roll' = roll => SameRollouts
    BY DEF SameRollouts
  <1>4. Keeps(w, "idle", NoLoc)
    BY DropFields DEF Keeps
  <1>5. ASSUME NEW version \in Versions, NEW echo \in BOOLEAN, recordEvidence(w, version, echo)
        PROVE  Moves(w)
    <2>1. pc[w] = "evidence" /\ UNCHANGED roll
      BY <1>5, EvidenceCases
    <2>2. PICK j \in loc[w].list : Judged(w, j)
      BY <1>5, EvidenceCases
    <2>3. j.id \in JobIds /\ job[j.id].status # "NONE" /\ job[j.id] \in Job
      BY DEF Typed, TypeOK, JobCopy, CopiesAgree
    <2>4. CASE /\ Goto(w, "evidence", [loc[w] EXCEPT !.list = @ \ {j}])
               /\ UNCHANGED <<job, clock>>
      <3> DEFINE l == [loc[w] EXCEPT !.list = @ \ {j}]
      <3>1. l.list \subseteq loc[w].list /\ l.e = loc[w].e
        BY <1>1 DEF LocalsAt
      <3> HIDE DEF l
      <3>2. Keeps(w, "evidence", l)
        BY <3>1 DEF Keeps
      <3>3. QED
        BY <1>3, <2>1, <2>4, <3>2, Quietly DEF l
    <2>5. CASE fail(w, j, "evidence") \/ (j.id \in ran /\ failAttempt(w, j, "evidence"))
      BY <2>1, <2>5, FailMoves
    <2>6. CASE /\ job' = IF j.status = "AWAITING_VERIFICATION" THEN job
                         ELSE [job EXCEPT ![j.id].status = "AWAITING_VERIFICATION"]
               /\ Goto(w, "hbbs", [loc[w] EXCEPT !.list = @ \ {j}, !.ids = {j.id}])
               /\ UNCHANGED clock
      <3> DEFINE l == [loc[w] EXCEPT !.list = @ \ {j}, !.ids = {j.id}]
      <3>1. l.list \subseteq loc[w].list /\ l.e = loc[w].e /\ l.ids = {j.id}
        BY <1>1 DEF LocalsAt
      <3> HIDE DEF l
      <3>2. Keeps(w, "hbbs", l)
        BY <2>3, <3>1 DEF Keeps
      <3>3. Goto(w, "hbbs", l)
        BY <2>6 DEF l
      <3>4. CASE job' = job
        BY <1>3, <2>1, <2>6, <3>2, <3>3, <3>4, Quietly
      <3>5. CASE job' = [job EXCEPT ![j.id].status = "AWAITING_VERIFICATION"]
        <4>1. Settled(w, j.id) /\ \A i \in JobIds \ {j.id} : job'[i] = job[i]
          BY <1>2, <2>3, <3>5 DEF Settled, Job
        <4>2. QED
          BY <2>1, <2>3, <2>6, <3>2, <3>3, <4>1, SettlesOne
      <3>6. QED
        BY <2>6, <3>4, <3>5
    <2>7. QED
      BY <2>2, <2>4, <2>5, <2>6 DEF Judged
  <1>6. ASSUME NEW registered \in BOOLEAN, verify(w, registered)
        PROVE  Moves(w)
    <2> DEFINE l == [loc[w] EXCEPT !.ids = {}]
    <2>1. l.list = loc[w].list /\ l.e = loc[w].e
      BY <1>1 DEF LocalsAt
    <2>2. Goto(w, "evidence", l) /\ UNCHANGED <<roll, clock>>
      BY <1>6 DEF verify
    <2> HIDE DEF l
    <2>3. Others(w) /\ pc'[w] = "evidence" /\ loc'[w] = l
      BY <2>2, GotoEffect
    <2>4. \A id \in loc[w].ids : job[id].status # "NONE"
      BY <1>6 DEF verify, Created
    <2>5. ASSUME NEW id \in JobIds
          PROVE  job'[id] = job[id] \/ Settled(w, id)
      BY <1>2, <1>6, <2>4 DEF verify, Settled, Job, ACTIVE
    <2>6. SameRows
      BY <2>2, <2>5 DEF SameRows, Settled
    <2>7. EntersWell(w) /\ Drops(w)
      BY <2>1, <2>3 DEF EntersWell, Drops
    <2>8. Settles(w)
      BY <2>2, <2>5, <2>7 DEF Settles
    <2>9. QED
      BY <2>3, <2>6, <2>7, <2>8 DEF Moves
  <1>7. CASE selectJob(w)
    <2>1. UNCHANGED <<roll, job, clock>>
      BY <1>7 DEF selectJob
    <2>2. CASE Goto(w, "idle", NoLoc)
      BY <1>3, <1>4, <2>1, <2>2, Quietly
    <2>3. ASSUME NEW id \in Eligible(loc[w].e), Goto(w, "dispatch", [NoLoc EXCEPT !.ids = {id}])
          PROVE  Moves(w)
      <3>1. id \in JobIds \ backoff /\ job[id].status = "REQUESTED"
        BY DEF Eligible, In, JobsAt
      <3>2. /\ Others(w) /\ pc'[w] = "dispatch"
            /\ loc'[w].list = {} /\ loc'[w].ids = {id}
        <4>1. loc'[w] = [NoLoc EXCEPT !.ids = {id}] /\ pc'[w] = "dispatch" /\ Others(w)
          BY <2>3, GotoEffect
        <4>2. QED
          BY <4>1, DropFields
      <3>3. SameRows /\ EntersWell(w)
        BY <2>1, <3>1, <3>2 DEF SameRows, EntersWell
      <3>4. Selects(w)
        BY <2>1, <3>1, <3>2 DEF Selects
      <3>5. QED
        BY <3>2, <3>3, <3>4 DEF Moves
    <2>4. QED
      BY <1>7, <2>2, <2>3, SelectCases DEF Return
  <1>8. CASE markInstalling(w)
    <2>1. loc[w].ids \subseteq JobIds
      BY <1>1, <1>8 DEF markInstalling, LocalsAt
    <2>2. PICK id \in loc[w].ids :
            job' = IF job[id].status = "DISPATCHED"
                   THEN [job EXCEPT ![id].status = "INSTALLING"] ELSE job
      BY <1>8 DEF markInstalling
    <2>3. Goto(w, "idle", NoLoc) /\ UNCHANGED <<roll, clock>>
      BY <1>8 DEF markInstalling, Return
    <2>4. CASE job' = job
      BY <1>3, <1>4, <2>3, <2>4, Quietly
    <2>5. CASE /\ job[id].status = "DISPATCHED"
               /\ job' = [job EXCEPT ![id].status = "INSTALLING"]
      <3>1. id \in JobIds
        BY <2>1
      <3>2. Settled(w, id) /\ \A i \in JobIds \ {id} : job'[i] = job[i]
        BY <1>2, <2>5, <3>1 DEF Settled, Job, ACTIVE
      <3>3. QED
        BY <1>4, <2>3, <3>1, <3>2, SettlesOne
    <2>6. QED
      BY <2>2, <2>4, <2>5
  <1>9. ASSUME NEW deferred \in BOOLEAN, dispatch(w, deferred)
        PROVE  Moves(w)
    <2>1. /\ loc[w].ids \subseteq JobIds /\ Goto(w, "idle", NoLoc) /\ pc[w] = "dispatch"
          /\ UNCHANGED <<roll, backoff>>
      BY <1>1, <1>9 DEF dispatch, LocalsAt, Return
    <2>2. PICK id \in loc[w].ids :
            IF deferred \/ job[id].status # "REQUESTED" THEN UNCHANGED <<job, overdue, ran>>
            ELSE /\ job' = [job EXCEPT ![id].status = "DISPATCHED", ![id].nonce = TRUE,
                                       ![id].attempts = @ + 1]
                 /\ overdue' = overdue \ {id}
                 /\ ran' = ran \ {id}
      BY <1>9 DEF dispatch
    <2>3. CASE UNCHANGED <<job, overdue, ran>>
      <3>1. UNCHANGED clock
        BY <2>1, <2>3 DEF clock
      <3>2. QED
        BY <1>3, <1>4, <2>1, <2>3, <3>1, Quietly
    <2>4. CASE ~(deferred \/ job[id].status # "REQUESTED")
      <3>1. Others(w) /\ pc'[w] = "idle" /\ loc'[w] = NoLoc
        BY <2>1, GotoEffect
      <3>2. HandsOut(w)
        BY <2>1, <2>2, <2>4, <3>1, DropFields DEF HandsOut
      <3>3. SameRows
        <4>1. id \in JobIds /\ job[id].status = "REQUESTED" /\ job[id] \in Job
          BY <1>2, <2>1, <2>4
        <4>2. job' = [job EXCEPT ![id].status = "DISPATCHED", ![id].nonce = TRUE,
                                 ![id].attempts = @ + 1]
          BY <2>2, <2>4
        <4>3. job'[id].status = "DISPATCHED" /\ \A i \in JobIds \ {id} : job'[i] = job[i]
          BY <1>2, <4>1, <4>2 DEF Job
        <4>4. QED
          BY <2>1, <4>1, <4>3 DEF SameRows
      <3>4. EntersWell(w)
        BY <3>1 DEF EntersWell
      <3>5. QED
        BY <3>1, <3>2, <3>3, <3>4 DEF Moves
    <2>5. QED
      BY <2>2, <2>3, <2>4
  <1>10. QED
    BY <1>5, <1>6, <1>7, <1>8, <1>9

\* A step is a move of a handler, the creation of a rollout, or time passing.
LEMMA StepCases ==
  ASSUME Typed, Created, CopiesAgree, Next
  PROVE  \/ \E w \in Workers : Moves(w) \/ createRows(w)
         \/ \E id \in JobIds : verifyTimeout(id) \/ backoffOver(id) \/ installerRan(id)
  BY BeginMoves, RequestMoves, TickMoves, HeartbeatMoves DEF Next, Continue

-----------------------------------------------------------------------------
(* The attempts.                                                           *)

\* A job that is about to be handed out and is queued is read by nobody; a
\* job that a handler holds and may queue again is about to be handed out by
\* nobody.
LEMMA NoOverlap ==
  ASSUME Typed, Selected, NEW v \in Workers, pc[v] = "dispatch", NEW id \in loc[v].ids
  PROVE  /\ job[id].status = "REQUESTED" => Unread(id)
         /\ \A w \in Workers : \A j \in loc[w].list :
              j.id = id => loc[w].e # 0 /\ j.id \notin ran /\ j.id \notin overdue
  BY DEF Selected, Unread, HandedOut

\* A step of a handler keeps rollouts and jobs created once.
LEMMA MovesCreated ==
  ASSUME Typed, Created, NEW w \in Workers, Moves(w), Typed'
  PROVE  Created'
  <1>1. Others(w) /\ SameRows /\ EntersWell(w)
    BY DEF Moves
  <1>2. \A v \in Workers : loc'[v] \in LocalsAt(pc'[v])
    BY DEF Typed
  <1>3. \A v \in Workers : pc'[v] \in {"creating", "starting", "canceling"} =>
                             loc'[v].r \in Rollouts
    BY <1>2 DEF LocalsAt
  <1>4. \A v \in Workers : pc'[v] \in {"cancelJobs", "cancelOne", "hbbs", "dispatch"} =>
                             loc'[v].ids \subseteq JobIds
    BY <1>2 DEF LocalsAt
  <1>5. \A id \in JobIds : roll'[id[1]].status = "NONE" => job'[id].status = "NONE"
    BY <1>1, Ids DEF SameRows, Created
  <1>6. ASSUME NEW v \in Workers
        PROVE  /\ pc'[v] = "creating" => roll'[loc'[v].r].status = "NONE"
               /\ pc'[v] \in {"starting", "canceling"} => roll'[loc'[v].r].status # "NONE"
               /\ pc'[v] \in {"cancelJobs", "cancelOne", "hbbs", "dispatch"} =>
                    \A id \in loc'[v].ids : job'[id].status # "NONE"
    <2>1. CASE v = w
      BY <1>1, <1>3, <1>4, <2>1 DEF SameRows, EntersWell
    <2>2. CASE v # w
      <3>1. pc'[v] = pc[v] /\ loc'[v] = loc[v]
        BY <1>1, <2>2 DEF Others
      <3>2. QED
        BY <1>1, <1>3, <1>4, <3>1 DEF SameRows, Created
    <2>3. QED
      BY <2>1, <2>2
  <1>7. ASSUME NEW u \in Workers, NEW v \in Workers, pc'[u] = "creating", pc'[v] = "creating",
               loc'[u].r = loc'[v].r
        PROVE  u = v
    <2>1. CASE u # w /\ v # w
      BY <1>1, <1>7, <2>1 DEF Others, Created
    <2>2. ASSUME NEW x \in Workers, x # w, pc'[x] = "creating"
          PROVE  Creating(loc'[x].r)
      BY <1>1, <2>2 DEF Others, Creating
    <2>3. pc'[w] = "creating" => ~Creating(loc'[w].r)
      BY <1>1 DEF EntersWell
    <2>4. QED
      BY <1>7, <2>1, <2>2, <2>3
  <1>8. QED
    BY <1>5, <1>6, <1>7 DEF Created

\* A step of a handler keeps the copies in agreement with the rows.
LEMMA MovesCopies ==
  ASSUME Typed, CopiesAgree, Selected, NEW w \in Workers, Moves(w), Typed'
  PROVE  CopiesAgree'
  <1> SUFFICES ASSUME NEW v \in Workers, NEW j \in loc'[v].list
               PROVE  /\ job'[j.id].status # "NONE"
                      /\ j.attempts = job'[j.id].attempts
                      /\ job'[j.id].status = "REQUESTED" => j.id \in backoff'
    BY DEF CopiesAgree
  <1>1. j.id \in JobIds
    BY DEF Typed, TypeOK, JobCopy
  <1>2. v # w => j \in loc[v].list
    BY DEF Moves, Others
  <1>3. ASSUME NEW x \in Workers, j \in loc[x].list
        PROVE  /\ job[j.id].status # "NONE"
               /\ j.attempts = job[j.id].attempts
               /\ job[j.id].status = "REQUESTED" => j.id \in backoff
    BY <1>3 DEF CopiesAgree
  <1>4. Drops(w) => \E x \in Workers : j \in loc[x].list
    BY <1>2 DEF Drops
  <1>5. CASE Settles(w)
    <2>1. PICK x \in Workers : j \in loc[x].list
      BY <1>4, <1>5 DEF Settles
    <2>2. job'[j.id] = job[j.id] \/ Settled(w, j.id)
      BY <1>1, <1>5 DEF Settles
    <2>3. backoff' = backoff
      BY <1>5 DEF Settles, clock
    <2>4. QED
      BY <1>3, <2>1, <2>2, <2>3 DEF Settled
  <1>6. CASE Reads(w)
    <2>1. job' = job /\ backoff' = backoff
      BY <1>6 DEF Reads, clock
    <2>2. CASE v = w
      BY <1>6, <2>1, <2>2 DEF Reads, ACTIVE
    <2>3. QED
      BY <1>2, <1>3, <2>1, <2>2
  <1>7. CASE Requeues(w)
    <2>1. PICK x \in Workers : j \in loc[x].list
      BY <1>4, <1>7 DEF Requeues
    <2>2. PICK k \in loc[w].list :
            /\ job' = [job EXCEPT ![k.id].status = "REQUESTED", ![k.id].nonce = FALSE]
            /\ backoff' = backoff \cup {k.id}
      BY <1>7 DEF Requeues
    <2>3. job[j.id] \in Job
      BY <1>1 DEF Typed, TypeOK
    <2>4. CASE j.id = k.id
      <3>1. job'[j.id].status = "REQUESTED" /\ job'[j.id].attempts = job[j.id].attempts
        BY <1>1, <2>2, <2>3, <2>4 DEF Typed, TypeOK, Job
      <3>2. QED
        BY <1>3, <2>1, <2>2, <2>4, <3>1
    <2>5. CASE j.id # k.id
      <3>1. job'[j.id] = job[j.id]
        BY <1>1, <2>2, <2>5 DEF Typed, TypeOK
      <3>2. QED
        BY <1>3, <2>1, <2>2, <3>1
    <2>6. QED
      BY <2>4, <2>5
  <1>8. CASE Selects(w)
    <2>1. job' = job /\ backoff' = backoff /\ v # w
      BY <1>8 DEF Selects, clock
    <2>2. QED
      BY <1>2, <1>3, <2>1
  <1>9. CASE HandsOut(w)
    <2>1. v # w /\ backoff' = backoff /\ pc[w] = "dispatch"
      BY <1>9 DEF HandsOut
    <2>2. PICK id \in loc[w].ids :
            /\ id \in JobIds /\ job[id].status = "REQUESTED"
            /\ job' = [job EXCEPT ![id].status = "DISPATCHED", ![id].nonce = TRUE,
                                  ![id].attempts = @ + 1]
      BY <1>9 DEF HandsOut
    <2>3. Unread(id)
      BY <2>1, <2>2, NoOverlap
    <2>4. j.id # id
      BY <1>2, <2>1, <2>3 DEF Unread
    <2>5. job'[j.id] = job[j.id]
      BY <1>1, <2>2, <2>4 DEF Typed, TypeOK
    <2>6. QED
      BY <1>2, <1>3, <2>1, <2>5
  <1>10. QED
    BY <1>5, <1>6, <1>7, <1>8, <1>9 DEF Moves

\* A step of a handler keeps what holds of the jobs about to be handed out.
LEMMA MovesSelected ==
  ASSUME Typed, CopiesAgree, Selected, NEW w \in Workers, Moves(w), Typed'
  PROVE  Selected'
  <1> SUFFICES ASSUME NEW v \in Workers, pc'[v] = "dispatch", NEW id \in loc'[v].ids
               PROVE  \/ Unread(id)' /\ job'[id].status \notin ACTIVE
                      \/ HandedOut(id)'
    BY DEF Selected, ACTIVE
  <1> DEFINE O1 == Unread(id) /\ job[id].status \notin ACTIVE
             O2 == HandedOut(id)
  <1>1. id \in JobIds
    <2>1. loc'[v] \in LocalsAt("dispatch")
      BY DEF Typed
    <2>2. QED
      BY <2>1 DEF LocalsAt
  <1>2. job \in [JobIds -> Job]
    BY DEF Typed, TypeOK
  <1>3. v # w => pc[v] = "dispatch" /\ id \in loc[v].ids
    BY DEF Moves, Others
  <1>4. v # w => O1 \/ O2
    BY <1>3 DEF Selected
  <1>5. ASSUME NEW x \in Workers, x # w
        PROVE  loc'[x] = loc[x]
    BY <1>5 DEF Moves, Others
  <1>6. ASSUME Drops(w), NEW x \in Workers, NEW j \in loc'[x].list
        PROVE  j \in loc[x].list /\ loc'[x].e = loc[x].e
    BY <1>5, <1>6 DEF Drops
  <1>7. CASE Settles(w)
    <2>1. /\ Drops(w) /\ overdue' = overdue /\ ran' = ran
          /\ job'[id] = job[id] \/ Settled(w, id)
      BY <1>1, <1>7 DEF Settles, clock
    <2>2. v # w
      BY <2>1 DEF Drops
    <2>3. CASE O1
      <3>1. Unread(id)'
        BY <1>6, <2>1, <2>3 DEF Unread
      <3>2. job'[id].status \notin ACTIVE
        BY <2>1, <2>3 DEF Settled, Unread
      <3>3. QED
        BY <3>1, <3>2
    <2>4. CASE O2
      <3>1. job'[id].status # "REQUESTED" /\ id \notin (overdue \cup ran)'
        BY <2>1, <2>4 DEF HandedOut, Settled
      <3>2. \A x \in Workers : \A j \in loc'[x].list : j.id = id => loc'[x].e # 0
        BY <1>6, <2>1, <2>4 DEF HandedOut
      <3>3. QED
        BY <3>1, <3>2 DEF HandedOut
    <2>5. QED
      BY <1>4, <2>2, <2>3, <2>4
  <1>8. CASE Reads(w)
    <2>1. job' = job /\ overdue' = overdue /\ ran' = ran /\ v # w
      BY <1>8 DEF Reads, clock
    <2>2. CASE O1
      <3>1. \A x \in Workers : \A j \in loc'[x].list : j.id # id
        BY <1>5, <1>8, <2>2 DEF Reads, Unread
      <3>2. QED
        BY <2>1, <2>2, <3>1 DEF Unread
    <2>3. CASE O2
      <3>1. \A x \in Workers : \A j \in loc'[x].list : j.id = id => loc'[x].e # 0
        BY <1>5, <1>8, <2>3 DEF Reads, HandedOut
      <3>2. QED
        BY <2>1, <2>3, <3>1 DEF HandedOut
    <2>4. QED
      BY <1>4, <2>1, <2>2, <2>3
  <1>9. CASE Requeues(w)
    <2>1. Drops(w) /\ overdue' = overdue /\ ran' = ran
      BY <1>9 DEF Requeues
    <2>2. PICK k \in loc[w].list :
            /\ loc[w].e = 0 \/ k.id \in ran
            /\ job' = [job EXCEPT ![k.id].status = "REQUESTED", ![k.id].nonce = FALSE]
      BY <1>9 DEF Requeues
    <2>3. v # w
      BY <2>1 DEF Drops
    <2>4. k.id # id
      BY <1>3, <2>2, <2>3, NoOverlap
    <2>5. job'[id] = job[id]
      BY <1>1, <1>2, <2>2, <2>4
    <2>6. CASE O1
      <3>1. Unread(id)'
        BY <1>6, <2>1, <2>6 DEF Unread
      <3>2. QED
        BY <2>5, <2>6, <3>1
    <2>7. CASE O2
      <3>1. \A x \in Workers : \A j \in loc'[x].list : j.id = id => loc'[x].e # 0
        BY <1>6, <2>1, <2>7 DEF HandedOut
      <3>2. QED
        BY <2>1, <2>5, <2>7, <3>1 DEF HandedOut
    <2>8. QED
      BY <1>4, <2>3, <2>6, <2>7
  <1>10. CASE Selects(w)
    <2>1. job' = job /\ overdue' = overdue /\ ran' = ran /\ loc'[w].list = {}
      BY <1>10 DEF Selects, clock
    <2>2. \A x \in Workers : \A j \in loc'[x].list : j \in loc[x].list /\ loc'[x].e = loc[x].e
      BY <1>5, <2>1
    <2>3. CASE v = w
      <3>1. id \notin backoff /\ job[id].status = "REQUESTED"
        BY <1>10, <2>3 DEF Selects
      <3>2. Unread(id)
        BY <3>1 DEF CopiesAgree, Unread
      <3>3. Unread(id)'
        BY <2>2, <3>2 DEF Unread
      <3>4. QED
        BY <2>1, <3>1, <3>3 DEF ACTIVE
    <2>4. CASE v # w /\ O1
      <3>1. Unread(id)'
        BY <2>2, <2>4 DEF Unread
      <3>2. QED
        BY <2>1, <2>4, <3>1
    <2>5. CASE v # w /\ O2
      <3>1. \A x \in Workers : \A j \in loc'[x].list : j.id = id => loc'[x].e # 0
        BY <2>2, <2>5 DEF HandedOut
      <3>2. QED
        BY <2>1, <2>5, <3>1 DEF HandedOut
    <2>6. QED
      BY <1>4, <2>3, <2>4, <2>5
  <1>11. CASE HandsOut(w)
    <2>1. v # w /\ loc'[w].list = {} /\ pc[w] = "dispatch"
      BY <1>11 DEF HandsOut
    <2>2. \A x \in Workers : \A j \in loc'[x].list : j \in loc[x].list /\ loc'[x].e = loc[x].e
      BY <1>5, <2>1
    <2>3. PICK k \in loc[w].ids :
            /\ k \in JobIds /\ job[k].status = "REQUESTED"
            /\ job' = [job EXCEPT ![k].status = "DISPATCHED", ![k].nonce = TRUE,
                                  ![k].attempts = @ + 1]
            /\ overdue' = overdue \ {k}
            /\ ran' = ran \ {k}
      BY <1>11 DEF HandsOut
    <2>4. CASE id = k
      <3>1. Unread(id)
        BY <2>1, <2>3, <2>4, NoOverlap
      <3>2. job[id] \in Job
        BY <1>1, <1>2
      <3>3. job'[id].status = "DISPATCHED"
        BY <1>1, <1>2, <2>3, <2>4, <3>2 DEF Job
      <3>4. \A x \in Workers : \A j \in loc'[x].list : j.id # id
        BY <2>2, <3>1 DEF Unread
      <3>5. QED
        BY <2>3, <2>4, <3>3, <3>4 DEF HandedOut
    <2>5. CASE id # k
      <3>1. job'[id] = job[id]
        BY <1>1, <1>2, <2>3, <2>5
      <3>2. CASE O1
        <4>1. Unread(id)'
          BY <2>2, <3>2 DEF Unread
        <4>2. QED
          BY <3>1, <3>2, <4>1
      <3>3. CASE O2
        <4>1. \A x \in Workers : \A j \in loc'[x].list : j.id = id => loc'[x].e # 0
          BY <2>2, <3>3 DEF HandedOut
        <4>2. QED
          BY <2>3, <3>1, <3>3, <4>1 DEF HandedOut
      <3>4. QED
        BY <1>4, <2>1, <3>2, <3>3
    <2>6. QED
      BY <2>4, <2>5
  <1>12. QED
    BY <1>7, <1>8, <1>9, <1>10, <1>11 DEF Moves

\* A step of a handler keeps the attempts within the limit.
LEMMA MovesBudget ==
  ASSUME Typed, CopiesAgree, Budget, NEW w \in Workers, Moves(w), Typed'
  PROVE  Budget'
  <1> SUFFICES ASSUME NEW id \in JobIds
               PROVE  /\ job'[id].attempts <= MaxAttempts
                      /\ job'[id].status = "REQUESTED" => job'[id].attempts < MaxAttempts
    BY DEF Budget
  <1>1. /\ job \in [JobIds -> Job] /\ job[id] \in Job
        /\ job[id].attempts \in Nat /\ MaxAttempts \in Nat
    BY ConstantsAssumption DEF Typed, TypeOK, Job
  <1>2. /\ job[id].attempts <= MaxAttempts
        /\ job[id].status = "REQUESTED" => job[id].attempts < MaxAttempts
    BY DEF Budget
  <1>3. CASE Settles(w) \/ Reads(w) \/ Selects(w)
    <2>1. job'[id] = job[id] \/ Settled(w, id)
      BY <1>3 DEF Settles, Reads, Selects
    <2>2. QED
      BY <1>2, <2>1 DEF Settled
  <1>4. CASE Requeues(w)
    <2>1. PICK k \in loc[w].list :
            /\ k.attempts < MaxAttempts
            /\ job' = [job EXCEPT ![k.id].status = "REQUESTED", ![k.id].nonce = FALSE]
      BY <1>4 DEF Requeues
    <2>2. k.attempts = job[k.id].attempts
      BY DEF CopiesAgree
    <2>3. CASE id = k.id
      <3>1. job'[id].attempts = job[id].attempts
        BY <1>1, <2>1, <2>3 DEF Job
      <3>2. QED
        BY <1>1, <1>2, <2>1, <2>2, <2>3, <3>1
    <2>4. CASE id # k.id
      <3>1. job'[id] = job[id]
        BY <1>1, <2>1, <2>4
      <3>2. QED
        BY <1>2, <3>1
    <2>5. QED
      BY <2>3, <2>4
  <1>5. CASE HandsOut(w)
    <2>1. PICK k \in loc[w].ids :
            /\ k \in JobIds /\ job[k].status = "REQUESTED"
            /\ job' = [job EXCEPT ![k].status = "DISPATCHED", ![k].nonce = TRUE,
                                  ![k].attempts = @ + 1]
      BY <1>5 DEF HandsOut
    <2>2. CASE id = k
      <3>1. job'[id].attempts = job[id].attempts + 1 /\ job'[id].status = "DISPATCHED"
        BY <1>1, <2>1, <2>2 DEF Job
      <3>2. job[id].attempts < MaxAttempts
        BY <1>2, <2>1, <2>2
      <3>3. job[id].attempts + 1 <= MaxAttempts
        BY <1>1, <3>2
      <3>4. QED
        BY <3>1, <3>3
    <2>3. CASE id # k
      <3>1. job'[id] = job[id]
        BY <1>1, <2>1, <2>3
      <3>2. QED
        BY <1>2, <3>1
    <2>4. QED
      BY <2>2, <2>3
  <1>6. QED
    BY <1>3, <1>4, <1>5 DEF Moves

\* create() writes the rows of a rollout that no handler knows yet.
LEMMA CreatesStep ==
  ASSUME IInv, NEW w \in Workers, createRows(w), Typed'
  PROVE  Created' /\ CopiesAgree' /\ Selected' /\ Budget'
  <1> DEFINE r == loc[w].r
  <1>1. /\ Typed /\ Created /\ CopiesAgree /\ Selected /\ Budget
        /\ pc[w] = "creating" /\ r \in Rollouts /\ roll[r].status = "NONE"
    <2>1. Typed /\ Created /\ CopiesAgree /\ Selected /\ Budget /\ pc[w] = "creating"
      BY DEF IInv, createRows
    <2>2. QED
      BY <2>1 DEF Typed, LocalsAt, Created
  <1>2. Goto(w, "idle", NoLoc) /\ overdue' = overdue /\ backoff' = backoff /\ ran' = ran
    BY DEF createRows, Return, clock
  <1>3. Others(w) /\ pc'[w] = "idle" /\ loc'[w] = NoLoc /\ loc'[w].list = {}
    BY <1>1, <1>2, GotoEffect, DropFields
  <1>4. \A q \in Rollouts : IF q = r THEN roll'[q].status # "NONE" ELSE roll'[q] = roll[q]
    BY <1>1 DEF createRows, Typed, TypeOK, Rollout
  <1>5. \A id \in JobIds :
          IF id[1] = r THEN job'[id].attempts = 0 /\ job[id].status = "NONE"
          ELSE job'[id] = job[id]
    <2>1. PICK pilot, unfit \in SUBSET Endpoints :
            job' = [id \in JobIds |->
                     IF id[1] # loc[w].r THEN job[id]
                     ELSE [status   |-> IF id[2] \in loc[w].ids \cup unfit
                                        THEN "SKIPPED" ELSE "REQUESTED",
                           attempts |-> 0, batch |-> BatchOf(pilot, id[2]),
                           nonce    |-> FALSE]]
      BY DEF createRows
    <2>2. QED
      BY <1>1, <2>1 DEF Created
  <1> HIDE DEF r
  <1>6. ASSUME NEW id \in JobIds, job[id].status # "NONE"
        PROVE  id[1] # r /\ job'[id] = job[id]
    BY <1>5, <1>6
  <1>7. \A v \in Workers : \A j \in loc'[v].list : v # w /\ j \in loc[v].list /\ loc'[v] = loc[v]
    BY <1>3 DEF Others
  <1>8. ASSUME NEW v \in Workers
        PROVE  loc[v] \in LocalsAt(pc[v])
    BY <1>1 DEF Typed
  <1>9. Created'
    <2>1. \A id \in JobIds : roll'[id[1]].status = "NONE" => job'[id].status = "NONE"
      BY <1>1, <1>4, <1>5, Ids DEF Created
    <2>2. ASSUME NEW v \in Workers
          PROVE  /\ pc'[v] = "creating" => roll'[loc'[v].r].status = "NONE"
                 /\ pc'[v] \in {"starting", "canceling"} => roll'[loc'[v].r].status # "NONE"
                 /\ pc'[v] \in {"cancelJobs", "cancelOne", "hbbs", "dispatch"} =>
                      \A id \in loc'[v].ids : job'[id].status # "NONE"
      <3>1. CASE v = w
        BY <1>3, <3>1
      <3>2. CASE v # w
        <4>1. pc'[v] = pc[v] /\ loc'[v] = loc[v]
          BY <1>3, <3>2 DEF Others
        <4>2. pc[v] \in {"creating", "starting", "canceling"} => loc[v].r \in Rollouts
          BY <1>8 DEF LocalsAt
        <4>3. pc[v] = "creating" => loc[v].r # r
          BY <1>1, <3>2 DEF Created, r
        <4>4. pc[v] \in {"cancelJobs", "cancelOne", "hbbs", "dispatch"} =>
                loc[v].ids \subseteq JobIds
          BY <1>8 DEF LocalsAt
        <4>5. QED
          BY <1>1, <1>4, <1>6, <4>1, <4>2, <4>3, <4>4 DEF Created
      <3>3. QED
        BY <3>1, <3>2
    <2>3. \A u, v \in Workers :
            pc'[u] = "creating" /\ pc'[v] = "creating" /\ loc'[u].r = loc'[v].r => u = v
      BY <1>1, <1>3 DEF Others, Created
    <2>4. QED
      BY <2>1, <2>2, <2>3 DEF Created
  <1>10. CopiesAgree'
    <2> SUFFICES ASSUME NEW v \in Workers, NEW j \in loc'[v].list
                 PROVE  /\ job'[j.id].status # "NONE"
                        /\ j.attempts = job'[j.id].attempts
                        /\ job'[j.id].status = "REQUESTED" => j.id \in backoff'
      BY DEF CopiesAgree
    <2>1. j.id \in JobIds /\ j \in loc[v].list
      BY <1>1, <1>7 DEF Typed, TypeOK, JobCopy
    <2>2. job[j.id].status # "NONE"
      BY <1>1, <2>1 DEF CopiesAgree
    <2>3. job'[j.id] = job[j.id]
      BY <1>6, <2>1, <2>2
    <2>4. QED
      BY <1>1, <1>2, <2>1, <2>3 DEF CopiesAgree
  <1>11. Selected'
    <2> SUFFICES ASSUME NEW v \in Workers, pc'[v] = "dispatch", NEW id \in loc'[v].ids
                 PROVE  \/ Unread(id)' /\ job'[id].status \notin ACTIVE
                        \/ HandedOut(id)'
      BY DEF Selected, ACTIVE
    <2>1. pc[v] = "dispatch" /\ id \in loc[v].ids
      BY <1>3 DEF Others
    <2>2. id \in JobIds /\ job[id].status # "NONE"
      BY <1>1, <1>8, <2>1 DEF LocalsAt, Created
    <2>3. job'[id] = job[id]
      BY <1>6, <2>2
    <2>4. CASE Unread(id) /\ job[id].status \notin ACTIVE
      <3>1. Unread(id)'
        BY <1>7, <2>4 DEF Unread
      <3>2. QED
        BY <2>3, <2>4, <3>1
    <2>5. CASE HandedOut(id)
      <3>1. \A x \in Workers : \A j \in loc'[x].list : j.id = id => loc'[x].e # 0
        BY <1>7, <2>5 DEF HandedOut
      <3>2. QED
        BY <1>2, <2>3, <2>5, <3>1 DEF HandedOut
    <2>6. QED
      BY <1>1, <2>1, <2>4, <2>5 DEF Selected
  <1>12. Budget'
    <2>1. 0 < MaxAttempts /\ 0 <= MaxAttempts
      BY ConstantsAssumption
    <2>2. QED
      BY <1>1, <1>5, <2>1 DEF Budget
  <1>13. QED
    BY <1>9, <1>10, <1>11, <1>12

\* Time passes only while no handler holds anything.
LEMMA TimeStep ==
  ASSUME IInv, NEW id \in JobIds, verifyTimeout(id) \/ backoffOver(id) \/ installerRan(id)
  PROVE  Created' /\ CopiesAgree' /\ Selected' /\ Budget'
  <1>1. Quiet /\ UNCHANGED <<roll, job, pc, loc>>
    BY DEF verifyTimeout, backoffOver, installerRan
  <1>2. \A w \in Workers : pc[w] = "idle" /\ loc[w] = NoLoc
    BY <1>1 DEF Quiet, IInv, Typed, LocalsAt
  <1>3. \A w \in Workers : pc'[w] = "idle" /\ loc'[w].list = {}
    BY <1>1, <1>2, DropFields
  <1>4. Created' /\ Budget'
    BY <1>1 DEF IInv, Created, Budget
  <1>5. CopiesAgree' /\ Selected'
    BY <1>3 DEF CopiesAgree, Selected
  <1>6. QED
    BY <1>4, <1>5

\* IInv is inductive: it holds initially and every step preserves it.
THEOREM InductiveInvariant ==
  /\ Init => IInv
  /\ IInv /\ [Next]_vars => IInv'
  <1>1. Init => IInv
    <2> SUFFICES ASSUME Init
                 PROVE  IInv
      OBVIOUS
    <2>1. Typed
      BY TypedInit
    <2>2. \A w \in Workers : pc[w] = "idle" /\ loc[w].list = {}
      BY DropFields DEF Init
    <2>3. \A id \in JobIds : job[id].status = "NONE" /\ job[id].attempts = 0
      BY DEF Init
    <2>4. Created /\ CopiesAgree /\ Selected
      BY <2>2, <2>3 DEF Created, CopiesAgree, Selected
    <2>5. Budget
      <3>1. 0 <= MaxAttempts
        BY ConstantsAssumption
      <3>2. QED
        BY <2>3, <3>1 DEF Budget
    <2>6. QED
      BY <2>1, <2>4, <2>5 DEF IInv
  <1>2. ASSUME IInv, [Next]_vars
        PROVE  IInv'
    <2>1. Typed /\ Created /\ CopiesAgree /\ Selected /\ Budget
      BY <1>2 DEF IInv
    <2>2. Typed'
      BY <1>2, <2>1, TypedStep
    <2>3. ASSUME NEW w \in Workers, Moves(w)
          PROVE  IInv'
      BY <2>1, <2>2, <2>3, MovesCreated, MovesCopies, MovesSelected, MovesBudget DEF IInv
    <2>4. ASSUME NEW w \in Workers, createRows(w)
          PROVE  IInv'
      BY <1>2, <2>2, <2>4, CreatesStep DEF IInv
    <2>5. ASSUME NEW id \in JobIds, verifyTimeout(id) \/ backoffOver(id) \/ installerRan(id)
          PROVE  IInv'
      BY <1>2, <2>2, <2>5, TimeStep DEF IInv
    <2>6. CASE UNCHANGED vars
      BY <2>1, <2>2, <2>6 DEF vars, clock, IInv, Created, CopiesAgree, Selected, Unread,
                              HandedOut, Budget
    <2>7. QED
      BY <1>2, <2>1, <2>3, <2>4, <2>5, <2>6, StepCases
  <1>3. QED
    BY <1>1, <1>2

\* "Bounded by construction": no computer is handed an installer more often
\* than maxAttempts, whichever heartbeats, ticks and operators overlap: the
\* attempts that failAttempt() compares are read before an await, but a job
\* that somebody still judges is never handed out again.
THEOREM AttemptsAreBounded == Spec => []AttemptsBounded
  <1>1. IInv => AttemptsBounded
    BY DEF IInv, Budget, AttemptsBounded
  <1>2. QED
    BY <1>1, InductiveInvariant, PTL DEF Spec

-----------------------------------------------------------------------------
(* The batches, with handlers one at a time.  Every handler acts on what   *)
(* it read as if nothing had changed since; the invariant says what each   *)
(* of them has made sure of at each statement.                             *)

\* Every job of rollout r before batch b is finished.
Finished(r, b) == \A id \in JobsOf(r) : job[id].batch < b => job[id].status \notin NOT_DONE

\* Fewer of them failed than the threshold allows.
FailedBefore(r, b) == {id \in JobsOf(r) : job[id].batch < b /\ job[id].status = "FAILED"}
FewFailed(r, b)    == Threshold > 0 => Cardinality(FailedBefore(r, b)) < Threshold

\* The same of all jobs of the rollout.
NotMany(r) == Threshold > 0 => Cardinality(In(JobsOf(r), {"FAILED"})) < Threshold

\* The current batch of a rollout is only ever entered past the gate, and
\* nothing of a later batch is in flight.
RolloutGate(r) ==
  /\ Finished(r, roll[r].batch) /\ FewFailed(r, roll[r].batch)
  /\ roll[r].status \in {"NONE", "DRAFT"} => roll[r].batch = 0
  /\ roll[r].status = "DRAFT" =>
       \A id \in JobsOf(r) : job[id].status \in {"REQUESTED", "SKIPPED", "CANCELED"}
  /\ \A id \in JobsOf(r) : job[id].status \in ACTIVE => job[id].batch <= roll[r].batch

\* The rollouts tick() still has to look at are as it read them, and the jobs
\* a handler holds are in flight.
Held(l) ==
  /\ \A c \in l.plan : c.batch = roll[c.r].batch
  /\ \A j \in l.list : job[j.id].status \in ACTIVE
  /\ \A j, k \in l.list : j.id = k.id => j = k

\* What a handler at p with locals l has made sure of.
Sure(p, l) ==
  /\ Held(l)
  /\ p = "starting" =>
       /\ roll[l.r].status \in {"DRAFT", "PAUSED"}
       /\ Finished(l.r, l.batch) /\ FewFailed(l.r, l.batch)
       /\ roll[l.r].status = "PAUSED" => l.batch = roll[l.r].batch
  /\ p = "expire" \/ (p \in {"threshold", "pausing"} /\ l.back = "expire") =>
       (\E c \in l.plan : c.r = l.r) /\ (\A j \in l.list : j.id[1] = l.r)
  /\ p \in {"boundary", "setBatch"} \/ (p \in {"threshold", "pausing"} /\ l.back = "boundary") =>
       Finished(l.r, l.batch) /\ roll[l.r].batch <= l.batch
  /\ p = "boundary" => (roll[l.r].status = "RUNNING" => NotMany(l.r))
  /\ p = "setBatch" => NotMany(l.r) /\ roll[l.r].status = "RUNNING"
  /\ p = "cancelJobs" => l.list = {}
  /\ p = "hbbs" => \A id \in l.ids : /\ job[id].status \in ACTIVE
                                     /\ \A j \in l.list : j.id # id
  /\ p = "dispatch" => \A id \in l.ids : /\ roll[id[1]].status = "RUNNING"
                                         /\ job[id].status = "REQUESTED"
                                         /\ job[id].batch <= roll[id[1]].batch

Gate == /\ \A r \in Rollouts : RolloutGate(r)
        /\ \A w \in Workers : Sure(pc[w], loc[w])

\* Steps that move no rollout to another batch and every job as the gate
\* allows: canceled, judged while in flight, or handed out in its turn.
RowsKept ==
  /\ \A r \in Rollouts :
       /\ roll'[r].batch = roll[r].batch
       /\ roll'[r].status \in {"NONE", "DRAFT"} => roll'[r].status = roll[r].status
  /\ \A id \in JobIds :
       /\ job'[id].batch = job[id].batch
       /\ \/ job'[id].status = job[id].status
          \/ job'[id].status = "CANCELED"
          \/ job[id].status \in ACTIVE /\ job'[id].status \in NOT_DONE \cup DONE
          \/ /\ job[id].status = "REQUESTED" /\ job'[id].status = "DISPATCHED"
             /\ roll[id[1]].status = "RUNNING" /\ job[id].batch <= roll[id[1]].batch

\* Of fewer jobs no more failed.
LEMMA CountLess ==
  ASSUME NEW S \in SUBSET JobIds, NEW T \in SUBSET S
  PROVE  /\ Cardinality(S) \in Nat /\ Cardinality(T) \in Nat
         /\ Cardinality(T) <= Cardinality(S)
  <1>1. IsFiniteSet(Rollouts) /\ IsFiniteSet(Endpoints)
    BY FS_Interval, ConstantsAssumption DEF Rollouts, Endpoints
  <1>2. IsFiniteSet(JobIds)
    BY <1>1, FS_Product DEF JobIds
  <1>3. IsFiniteSet(S)
    BY <1>2, FS_Subset
  <1>4. IsFiniteSet(T) /\ Cardinality(T) <= Cardinality(S)
    BY <1>3, FS_Subset
  <1>5. QED
    BY <1>3, <1>4, FS_CardinalityType

\* When no new job of the earlier batches failed, still few did.
LEMMA FewLess ==
  ASSUME NEW S \in SUBSET JobIds, NEW T \in SUBSET S,
         Threshold > 0 => Cardinality(S) < Threshold
  PROVE  Threshold > 0 => Cardinality(T) < Threshold
  <1>1. /\ Cardinality(S) \in Nat /\ Cardinality(T) \in Nat
        /\ Cardinality(T) <= Cardinality(S) /\ Threshold \in Nat
    BY CountLess, ConstantsAssumption
  <1>2. QED
    BY <1>1

\* When no job failed, few did.
LEMMA NoneFailed ==
  ASSUME NEW S, S = {}
  PROVE  Threshold > 0 => Cardinality(S) < Threshold
  BY FS_EmptySet, ConstantsAssumption

\* Steps of the kind RowsKept keep the gate of every rollout.
LEMMA RowsKeptStep ==
  ASSUME Typed, Typed', RowsKept, NEW r \in Rollouts, RolloutGate(r)
  PROVE  RolloutGate(r)'
  <1> DEFINE b == roll[r].batch
  <1>1. roll'[r].batch = b /\ b \in Nat
    BY DEF RowsKept, Typed, TypeOK, Rollout
  <1>2. ASSUME NEW id \in JobsOf(r)
        PROVE  /\ id \in JobIds /\ id[1] = r /\ job[id].batch \in Nat
               /\ job'[id].batch = job[id].batch
               /\ \/ job'[id].status = job[id].status
                  \/ job'[id].status = "CANCELED"
                  \/ job[id].status \in ACTIVE /\ job'[id].status \in NOT_DONE \cup DONE
                  \/ /\ job[id].status = "REQUESTED" /\ job'[id].status = "DISPATCHED"
                     /\ roll[r].status = "RUNNING" /\ job[id].batch <= b
    BY DEF RowsKept, JobsOf, Typed, TypeOK, Job
  <1>3. ASSUME NEW id \in JobsOf(r), job[id].batch < b
        PROVE  job[id].status \notin NOT_DONE
    BY <1>3 DEF RolloutGate, Finished
  <1>4. ASSUME NEW id \in JobsOf(r), job[id].batch < b
        PROVE  job'[id].status = job[id].status \/ job'[id].status = "CANCELED"
    BY <1>2, <1>3, <1>4 DEF NOT_DONE
  <1>5. Finished(r, roll[r].batch)'
    <2>1. ASSUME NEW id \in JobsOf(r), job'[id].batch < b
          PROVE  job'[id].status \notin NOT_DONE
      BY <1>2, <1>3, <1>4, <2>1 DEF NOT_DONE, ACTIVE
    <2>2. QED
      BY <1>1, <2>1 DEF Finished
  <1>6. FewFailed(r, roll[r].batch)'
    <2> DEFINE S == {id \in JobsOf(r) : job[id].batch < b /\ job[id].status = "FAILED"}
               T == {id \in JobsOf(r) : job'[id].batch < b /\ job'[id].status = "FAILED"}
    <2>1. T \subseteq S /\ S \subseteq JobIds
      BY <1>2, <1>4
    <2>2. Threshold > 0 => Cardinality(S) < Threshold
      BY DEF RolloutGate, FewFailed, FailedBefore
    <2> HIDE DEF S, T
    <2>3. Threshold > 0 => Cardinality(T) < Threshold
      BY <2>1, <2>2, FewLess
    <2>4. QED
      BY <1>1, <2>3 DEF FewFailed, FailedBefore, T
  <1>7. roll'[r].status \in {"NONE", "DRAFT"} => roll'[r].batch = 0
    BY <1>1 DEF RowsKept, RolloutGate
  <1>8. roll'[r].status = "DRAFT" =>
          \A id \in JobsOf(r) : job'[id].status \in {"REQUESTED", "SKIPPED", "CANCELED"}
    <2> SUFFICES ASSUME roll'[r].status = "DRAFT", NEW id \in JobsOf(r)
                 PROVE  job'[id].status \in {"REQUESTED", "SKIPPED", "CANCELED"}
      OBVIOUS
    <2>1. roll[r].status = "DRAFT"
      BY DEF RowsKept
    <2>2. job[id].status \in {"REQUESTED", "SKIPPED", "CANCELED"}
      BY <2>1 DEF RolloutGate
    <2>3. QED
      BY <1>2, <2>1, <2>2 DEF ACTIVE
  <1>9. ASSUME NEW id \in JobsOf(r), job'[id].status \in ACTIVE
        PROVE  job'[id].batch <= roll'[r].batch
    BY <1>1, <1>2, <1>9 DEF RolloutGate, ACTIVE
  <1>10. QED
    BY <1>5, <1>6, <1>7, <1>8, <1>9 DEF RolloutGate

\* A handler holds nothing, or part of what it held.
LEMMA HeldStep ==
  ASSUME Typed, NEW w \in Workers, Held(loc[w]),
         loc'[w].list \subseteq loc[w].list, loc'[w].plan \subseteq loc[w].plan,
         \A c \in loc'[w].plan : roll'[c.r].batch = roll[c.r].batch,
         \A j \in loc'[w].list : job'[j.id].status \in ACTIVE
  PROVE  Held(loc[w])'
  BY DEF Held, ACTIVE

\* A handler at a point that needs no more than what is held.
LEMMA SurePlainly ==
  ASSUME NEW w \in Workers, Held(loc[w])',
         pc'[w] \in {"idle", "creating", "tick", "rollouts", "complete", "canceling",
                     "canceled", "cancelJobs", "cancelOne", "evidence", "fetched"},
         pc'[w] = "cancelJobs" => loc'[w].list = {}
  PROVE  Sure(pc[w], loc[w])'
  BY DEF Sure

\* A handler that holds nothing, at such a point.
LEMMA SureEmpty ==
  ASSUME NEW w \in Workers, loc'[w].list = {}, loc'[w].plan = {},
         pc'[w] \in {"idle", "creating", "tick", "rollouts", "complete", "canceling",
                     "canceled", "cancelJobs", "cancelOne", "evidence", "fetched"}
  PROVE  Sure(pc[w], loc[w])'
  <1>1. Held(loc[w])'
    BY DEF Held
  <1>2. QED
    BY <1>1, SurePlainly

\* The plan in the locals a handler begins with.
LEMMA PlanFields ==
  /\ NoLoc.plan = {}
  /\ \A ids : [NoLoc EXCEPT !.ids = ids].plan = {}
  /\ \A r : [NoLoc EXCEPT !.r = r].plan = {}
  /\ \A r, b : /\ [NoLoc EXCEPT !.r = r, !.batch = b].plan = {}
              /\ [NoLoc EXCEPT !.r = r, !.batch = b].batch = b
  /\ \A r, c, ids : [NoLoc EXCEPT !.r = r, !.component = c, !.ids = ids].plan = {}
  /\ \A plan : [NoLoc EXCEPT !.plan = plan].plan = plan
  BY DEF NoLoc

\* A step that leaves the rows alone.
LEMMA RowsSame ==
  ASSUME UNCHANGED <<roll, job>>
  PROVE  RowsKept
  BY DEF RowsKept

\* A step that begins with nothing, at a point that needs nothing.
LEMMA SureFresh ==
  ASSUME Typed, NEW w \in Workers, NEW p, NEW l, Goto(w, p, l), l.list = {}, l.plan = {},
         p \in {"idle", "creating", "tick", "rollouts", "complete", "canceling",
                "canceled", "cancelJobs", "cancelOne", "evidence", "fetched"}
  PROVE  Sure(pc[w], loc[w])'
  <1>1. pc'[w] = p /\ loc'[w] = l
    BY GotoEffect
  <1>2. QED
    BY <1>1, SureEmpty

\* Requests, heartbeats and ticks that begin.
LEMMA GateBegin ==
  ASSUME Typed, \A r \in Rollouts : RolloutGate(r), NEW w \in Workers, Sure(pc[w], loc[w]),
         timer(w) \/ Operate(w) \/ Report(w)
  PROVE  RowsKept /\ Sure(pc[w], loc[w])'
  <1> DEFINE Goal == RowsKept /\ Sure(pc[w], loc[w])'
  <1> SUFFICES Goal
    OBVIOUS
  <1>1. CASE timer(w)
    <2>1. Goto(w, "tick", NoLoc) /\ UNCHANGED <<roll, job>>
      BY <1>1 DEF timer
    <2>2. QED
      BY <2>1, SureFresh, RowsSame, DropFields, PlanFields
  <1>2. ASSUME NEW r \in Rollouts, NEW c \in Components, create(w, r, c)
        PROVE  Goal
    <2> DEFINE l == [NoLoc EXCEPT !.r = r, !.component = c, !.ids = Busy(c)]
    <2>1. l.list = {} /\ l.plan = {}
      BY DropFields, PlanFields
    <2>2. Goto(w, "creating", l) /\ UNCHANGED <<roll, job>>
      BY <1>2 DEF create
    <2> HIDE DEF l
    <2>3. QED
      BY <2>1, <2>2, SureFresh, RowsSame
  <1>3. ASSUME NEW r \in Rollouts, start(w, r)
        PROVE  Goal
    <2> DEFINE pending == {job[id].batch : id \in In(JobsOf(r), {"REQUESTED"})}
               b == IF roll[r].status = "PAUSED" THEN roll[r].batch
                    ELSE IF pending = {} THEN 0 ELSE Least(pending)
    <2>1. Goto(w, "starting", [NoLoc EXCEPT !.r = r, !.batch = b]) /\ UNCHANGED <<roll, job>>
      BY <1>3 DEF start
    <2>2. pending \subseteq Nat
      BY Ids DEF In, Job, Typed, TypeOK
    <2>3. RolloutGate(r) /\ roll[r].status \in {"DRAFT", "PAUSED"}
      BY <1>3 DEF start
    <2>4. Finished(r, b) /\ FewFailed(r, b) /\ (roll[r].status = "PAUSED" => b = roll[r].batch)
      <3>1. CASE roll[r].status = "PAUSED"
        BY <2>3, <3>1 DEF RolloutGate
      <3>2. CASE roll[r].status = "DRAFT"
        <4>1. b = IF pending = {} THEN 0 ELSE Least(pending)
          BY <3>2
        <4>2. \A id \in JobsOf(r) : /\ job[id].status \in {"REQUESTED", "SKIPPED", "CANCELED"}
                                    /\ job[id].batch \in Nat
          BY <2>3, <3>2, Ids DEF RolloutGate, Typed, TypeOK, Job
        <4>3. ASSUME NEW id \in JobsOf(r), job[id].batch < b
              PROVE  job[id].status # "REQUESTED"
          <5>1. CASE pending = {}
            BY <4>1, <4>2, <4>3, <5>1
          <5>2. CASE pending # {}
            <6>1. b \in Nat /\ \A y \in pending : b <= y
              BY <2>2, <4>1, <5>2, LeastNat
            <6>2. job[id].status = "REQUESTED" => job[id].batch \in pending
              BY DEF In
            <6> HIDE DEF pending, b
            <6>3. QED
              BY <4>2, <4>3, <6>1, <6>2
          <5>3. QED
            BY <5>1, <5>2
        <4> HIDE DEF b, pending
        <4>4. Finished(r, b)
          BY <4>2, <4>3 DEF Finished, NOT_DONE, ACTIVE
        <4>5. FailedBefore(r, b) = {}
          BY <4>2 DEF FailedBefore
        <4>6. FewFailed(r, b)
          BY <4>5, NoneFailed DEF FewFailed
        <4>7. QED
          BY <3>2, <4>4, <4>6
      <3>3. QED
        BY <2>3, <3>1, <3>2
    <2> HIDE DEF b
    <2>5. /\ pc'[w] = "starting" /\ loc'[w].list = {} /\ loc'[w].plan = {}
          /\ loc'[w].r = r /\ loc'[w].batch = b
      <3>1. pc'[w] = "starting" /\ loc'[w] = [NoLoc EXCEPT !.r = r, !.batch = b]
        BY <2>1, GotoEffect
      <3>2. QED
        BY <3>1, DropFields, PlanFields
    <2>6. Finished(loc[w].r, loc[w].batch)' /\ FewFailed(loc[w].r, loc[w].batch)'
      <3>1. job' = job
        BY <2>1
      <3>2. \A id \in JobsOf(r) : job'[id].batch < b => job'[id].status \notin NOT_DONE
        BY <2>4, <3>1 DEF Finished
      <3>3. Threshold > 0 => Cardinality({id \in JobsOf(r) : /\ job'[id].batch < b
                                                             /\ job'[id].status = "FAILED"}) < Threshold
        BY <2>4, <3>1 DEF FewFailed, FailedBefore
      <3>4. QED
        BY <2>5, <3>2, <3>3 DEF Finished, FewFailed, FailedBefore
    <2>7. Held(loc[w])'
      BY <2>5 DEF Held
    <2>8. /\ roll'[loc'[w].r].status \in {"DRAFT", "PAUSED"}
          /\ roll'[loc'[w].r].status = "PAUSED" => loc'[w].batch = roll'[loc'[w].r].batch
      BY <2>1, <2>3, <2>4, <2>5
    <2>9. Sure(pc[w], loc[w])'
      BY <2>5, <2>6, <2>7, <2>8 DEF Sure
    <2>10. QED
      BY <2>1, <2>9, RowsSame
  <1>4. ASSUME NEW r \in Rollouts, pause(w, r)
        PROVE  Goal
    <2>1. roll' = [roll EXCEPT ![r].status = "PAUSED"] /\ UNCHANGED <<job, pc, loc>>
      BY <1>4 DEF pause
    <2>2. RowsKept
      BY <2>1 DEF RowsKept, Typed, TypeOK, Rollout
    <2>3. pc'[w] = "idle" /\ loc'[w] = NoLoc
      BY <1>4, <2>1 DEF pause, Typed, LocalsAt
    <2>4. QED
      BY <2>2, <2>3, SureEmpty, DropFields, PlanFields
  <1>5. ASSUME NEW r \in Rollouts, cancel(w, r)
        PROVE  Goal
    BY <1>5, SureFresh, RowsSame, DropFields, PlanFields DEF cancel
  <1>6. ASSUME NEW id \in JobIds, cancelJob(w, id)
        PROVE  Goal
    BY <1>6, SureFresh, RowsSame, DropFields, PlanFields DEF cancelJob
  <1>7. ASSUME NEW id \in JobIds, installerFetched(w, id)
        PROVE  Goal
    BY <1>7, SureFresh, RowsSame, DropFields, PlanFields DEF installerFetched
  <1>8. ASSUME NEW e \in Endpoints, onHeartbeat(w, e)
        PROVE  Goal
    <2> DEFINE list == Copies(InFlight(e))
    <2>1. Goto(w, "evidence", [NoLoc EXCEPT !.e = e, !.list = list]) /\ UNCHANGED <<roll, job>>
      BY <1>8 DEF onHeartbeat
    <2>2. \A j \in list : job[j.id].status \in ACTIVE
      BY DEF Copies, InFlight, In
    <2>3. \A j, k \in list : j.id = k.id => j = k
      BY DEF Copies
    <2> HIDE DEF list
    <2>4. pc'[w] = "evidence" /\ loc'[w] = [NoLoc EXCEPT !.e = e, !.list = list]
      BY <2>1, GotoEffect
    <2>5. loc'[w].list = list /\ loc'[w].plan = {}
      BY <2>4 DEF NoLoc
    <2>6. Held(loc[w])'
      BY <2>1, <2>2, <2>3, <2>5 DEF Held, ACTIVE
    <2>7. QED
      BY <2>1, <2>4, <2>6, SurePlainly, RowsSame
  <1>9. QED
    BY <1>1, <1>2, <1>3, <1>4, <1>5, <1>6, <1>7, <1>8, Ids DEF Operate, Report

\* A job is judged while in flight, or canceled.
LEMMA JobKept ==
  ASSUME Typed, roll' = roll, NEW id \in JobIds,
         \A i \in JobIds \ {id} : job'[i] = job[i],
         job'[id].batch = job[id].batch,
         \/ job'[id].status \in {job[id].status, "CANCELED"}
         \/ job[id].status \in ACTIVE /\ job'[id].status \in NOT_DONE \cup DONE
  PROVE  RowsKept
  BY DEF RowsKept

\* Cancellations.
LEMMA GateCancel ==
  ASSUME Typed, NEW w \in Workers, Sure(pc[w], loc[w]),
         cancelRollout(w) \/ cancelCollect(w) \/ cancelEach(w) \/ cancelOne(w)
  PROVE  RowsKept /\ Sure(pc[w], loc[w])'
  <1> DEFINE Goal == RowsKept /\ Sure(pc[w], loc[w])'
  <1> SUFFICES Goal
    OBVIOUS
  <1>1. loc[w] \in LocalsAt(pc[w]) /\ Held(loc[w])
    BY DEF Typed, Sure
  <1>2. \A c \in loc[w].plan : c.r \in Rollouts
    BY DEF Typed, TypeOK, RolloutCopy
  <1>3. ASSUME NEW id \in JobIds, job' = [job EXCEPT ![id].status = "CANCELED"], roll' = roll
        PROVE  RowsKept
    <2>1. /\ \A i \in JobIds \ {id} : job'[i] = job[i]
          /\ job'[id].batch = job[id].batch /\ job'[id].status = "CANCELED"
      BY <1>3 DEF Typed, TypeOK, Job
    <2>2. QED
      BY <1>3, <2>1, JobKept
  <1>4. CASE cancelRollout(w)
    <2>1. /\ Goto(w, "canceled", loc[w]) /\ loc[w].r \in Rollouts
          /\ roll' = [roll EXCEPT ![loc[w].r].status = "CANCELED"] /\ job' = job
      BY <1>1, <1>4 DEF cancelRollout, LocalsAt
    <2>2. \A r \in Rollouts : roll'[r].batch = roll[r].batch
                              /\ (roll'[r].status = roll[r].status \/ roll'[r].status = "CANCELED")
      BY <2>1 DEF Typed, TypeOK, Rollout
    <2>3. RowsKept
      BY <2>1, <2>2 DEF RowsKept
    <2>4. pc'[w] = "canceled" /\ loc'[w] = loc[w]
      BY <2>1, GotoEffect
    <2>5. \A j \in loc[w].list : job[j.id].status \in ACTIVE
      BY <1>1 DEF Held
    <2>6. Held(loc[w])'
      BY <1>1, <1>2, <2>1, <2>2, <2>4, <2>5, HeldStep
    <2>7. QED
      BY <2>3, <2>4, <2>6, SurePlainly
  <1>5. CASE cancelCollect(w)
    BY <1>5, SureFresh, RowsSame, DropFields, PlanFields DEF cancelCollect
  <1>6. CASE cancelEach(w)
    <2>1. loc[w].ids \subseteq JobIds /\ loc[w].list = {} /\ roll' = roll
      BY <1>1, <1>6 DEF cancelEach, LocalsAt, Sure
    <2>2. CASE loc[w].ids = {}
      BY <1>6, <2>2, SureFresh, RowsSame, DropFields, PlanFields DEF cancelEach, Return
    <2>3. CASE loc[w].ids # {}
      <3>1. PICK id \in loc[w].ids :
              /\ job' = [job EXCEPT ![id].status = "CANCELED"]
              /\ Goto(w, "cancelJobs", [loc[w] EXCEPT !.ids = @ \ {id}])
        BY <1>6, <2>3 DEF cancelEach
      <3>2. RowsKept
        BY <1>3, <2>1, <3>1
      <3>3. pc'[w] = "cancelJobs" /\ loc'[w] = [loc[w] EXCEPT !.ids = @ \ {id}]
        BY <3>1, GotoEffect
      <3>4. loc'[w].list = {} /\ loc'[w].plan = loc[w].plan
        BY <1>1, <2>1, <3>3 DEF LocalsAt
      <3>5. Held(loc[w])'
        BY <1>1, <2>1, <3>4, HeldStep
      <3>6. QED
        BY <3>2, <3>3, <3>4, <3>5, SurePlainly
    <2>4. QED
      BY <2>2, <2>3
  <1>7. CASE cancelOne(w)
    <2>1. Goto(w, "idle", NoLoc) /\ roll' = roll
      BY <1>7 DEF cancelOne, Return
    <2>2. PICK id \in loc[w].ids : job' = [job EXCEPT ![id].status = "CANCELED"]
      BY <1>7 DEF cancelOne
    <2>3. id \in JobIds
      BY <1>1, <1>7 DEF cancelOne, LocalsAt
    <2>4. QED
      BY <1>3, <2>1, <2>2, <2>3, SureFresh, DropFields, PlanFields
  <1>8. QED
    BY <1>4, <1>5, <1>6, <1>7

\* A rollout that a step leaves alone with all its jobs.
LEMMA GateSame ==
  ASSUME NEW r \in Rollouts, RolloutGate(r), roll'[r] = roll[r],
         \A id \in JobsOf(r) : job'[id] = job[id]
  PROVE  RolloutGate(r)'
  <1>1. FailedBefore(r, roll[r].batch)' = FailedBefore(r, roll[r].batch)
    BY DEF FailedBefore
  <1>2. FewFailed(r, roll[r].batch)'
    BY <1>1 DEF FewFailed, RolloutGate
  <1>3. Finished(r, roll[r].batch)'
    BY DEF Finished, RolloutGate
  <1>4. QED
    BY <1>2, <1>3 DEF RolloutGate

\* create() makes a rollout at its first batch, with nothing in flight.
LEMMA GateCreate ==
  ASSUME Typed, Typed', Created, \A r \in Rollouts : RolloutGate(r), NEW w \in Workers,
         createRows(w)
  PROVE  (\A r \in Rollouts : RolloutGate(r)') /\ Sure(pc[w], loc[w])'
  <1> DEFINE r == loc[w].r
  <1>1. r \in Rollouts /\ roll[r].status = "NONE" /\ roll[r].batch = 0
    <2>1. pc[w] = "creating"
      BY DEF createRows
    <2>2. r \in Rollouts /\ roll[r].status = "NONE"
      BY <2>1 DEF Typed, LocalsAt, Created
    <2>3. QED
      BY <2>2 DEF RolloutGate
  <1>2. /\ roll'[r].status = "DRAFT" /\ roll'[r].batch = 0
        /\ \A q \in Rollouts \ {r} : roll'[q] = roll[q]
    BY <1>1 DEF createRows, Typed, TypeOK, Rollout
  <1>3. /\ \A id \in JobIds : id[1] = r => job'[id].status \in {"REQUESTED", "SKIPPED"}
        /\ \A id \in JobIds : id[1] # r => job'[id] = job[id]
    <2>1. PICK pilot, unfit \in SUBSET Endpoints :
            job' = [id \in JobIds |->
                     IF id[1] # loc[w].r THEN job[id]
                     ELSE [status   |-> IF id[2] \in loc[w].ids \cup unfit
                                        THEN "SKIPPED" ELSE "REQUESTED",
                           attempts |-> 0, batch |-> BatchOf(pilot, id[2]),
                           nonce    |-> FALSE]]
      BY DEF createRows
    <2>2. QED
      BY <2>1
  <1>4. \A id \in JobIds : job'[id].batch \in Nat
    BY DEF Typed, TypeOK, Job
  <1>5. Sure(pc[w], loc[w])'
    BY SureFresh, DropFields, PlanFields DEF createRows, Return
  <1> HIDE DEF r
  <1>6. ASSUME NEW q \in Rollouts
        PROVE  RolloutGate(q)'
    <2>1. CASE q # r
      BY <1>2, <1>3, <2>1, GateSame DEF JobsOf
    <2>2. CASE q = r
      <3>1. \A id \in JobsOf(q) : /\ id \in JobIds /\ job'[id].batch \in Nat
                                  /\ job'[id].status \in {"REQUESTED", "SKIPPED"}
        BY <1>3, <1>4, <2>2 DEF JobsOf
      <3>2. FailedBefore(q, roll[q].batch)' = {}
        BY <3>1 DEF FailedBefore
      <3>3. FewFailed(q, roll[q].batch)'
        BY <3>2, NoneFailed DEF FewFailed
      <3>4. roll'[q].status = "DRAFT" /\ roll'[q].batch = 0
        BY <1>2, <2>2
      <3>5. \A n \in Nat : ~(n < 0)
        OBVIOUS
      <3>6. Finished(q, roll[q].batch)'
        BY <3>1, <3>4, <3>5 DEF Finished
      <3>7. \A id \in JobsOf(q) : job'[id].status \notin ACTIVE
        BY <3>1 DEF ACTIVE
      <3>8. QED
        BY <3>1, <3>3, <3>4, <3>6, <3>7 DEF RolloutGate
    <2>3. QED
      BY <2>1, <2>2
  <1>7. QED
    BY <1>5, <1>6

\* start() goes on where the rollout was paused, or begins with the first
\* batch that has a job to do.
LEMMA GateStart ==
  ASSUME Typed, \A r \in Rollouts : RolloutGate(r), NEW w \in Workers, Sure(pc[w], loc[w]),
         startRunning(w)
  PROVE  (\A r \in Rollouts : RolloutGate(r)') /\ Sure(pc[w], loc[w])'
  <1> DEFINE r == loc[w].r
  <1>1. /\ pc[w] = "starting" /\ job' = job
        /\ roll' = [roll EXCEPT ![loc[w].r].status = "RUNNING", ![loc[w].r].batch = loc[w].batch]
    BY DEF startRunning
  <1>2. r \in Rollouts /\ loc[w].batch \in Nat
    BY <1>1 DEF Typed, LocalsAt
  <1>3. /\ roll'[r].status = "RUNNING" /\ roll'[r].batch = loc[w].batch
        /\ \A q \in Rollouts \ {r} : roll'[q] = roll[q]
    BY <1>1, <1>2 DEF Typed, TypeOK, Rollout
  <1>4. /\ roll[r].status \in {"DRAFT", "PAUSED"}
        /\ Finished(r, loc[w].batch) /\ FewFailed(r, loc[w].batch)
        /\ roll[r].status = "PAUSED" => loc[w].batch = roll[r].batch
    BY <1>1 DEF Sure
  <1>5. Sure(pc[w], loc[w])'
    BY SureFresh, DropFields, PlanFields DEF startRunning
  <1>6. ASSUME NEW q \in Rollouts
        PROVE  RolloutGate(q)'
    <2>1. CASE q # r
      BY <1>1, <1>3, <2>1, GateSame
    <2>2. CASE q = r
      <3>1. roll'[q].batch = loc[w].batch /\ roll'[q].status = "RUNNING"
        BY <1>3, <2>2
      <3>2. Finished(q, roll[q].batch)'
        BY <1>1, <1>4, <2>2, <3>1 DEF Finished
      <3>3. FailedBefore(q, roll[q].batch)' = FailedBefore(q, loc[w].batch)
        BY <1>1, <3>1 DEF FailedBefore
      <3>4. FewFailed(q, roll[q].batch)'
        BY <1>4, <2>2, <3>3 DEF FewFailed
      <3>5. \A id \in JobsOf(q) : job[id].status \in ACTIVE => job[id].batch <= loc[w].batch
        <4>1. CASE roll[r].status = "PAUSED"
          BY <1>4, <2>2, <4>1 DEF RolloutGate
        <4>2. CASE roll[r].status = "DRAFT"
          BY <2>2, <4>2 DEF RolloutGate, ACTIVE
        <4>3. QED
          BY <1>4, <4>1, <4>2
      <3>6. QED
        BY <1>1, <3>1, <3>2, <3>4, <3>5 DEF RolloutGate
    <2>3. QED
      BY <2>1, <2>2
  <1>7. QED
    BY <1>5, <1>6

\* A handler judges a job that it holds.
LEMMA GateFail ==
  ASSUME Typed, NEW w \in Workers, Sure(pc[w], loc[w]), NEW back \in {"expire", "evidence"},
         pc[w] = back, NEW j \in loc[w].list,
         failAttempt(w, j, back) \/ fail(w, j, back), UNCHANGED roll
  PROVE  RowsKept /\ Sure(pc[w], loc[w])'
  <1>1. loc[w] \in LocalsAt(pc[w]) /\ Held(loc[w])
    BY DEF Typed, Sure
  <1>2. j.id \in JobIds /\ job[j.id].status \in ACTIVE /\ job[j.id] \in Job
    BY <1>1 DEF Typed, TypeOK, JobCopy, Held
  <1>3. PICK s \in {"FAILED", "REQUESTED"} :
          job' = [job EXCEPT ![j.id].status = s, ![j.id].nonce = FALSE]
    BY DEF failAttempt, fail
  <1>4. /\ \A i \in JobIds \ {j.id} : job'[i] = job[i]
        /\ job'[j.id].batch = job[j.id].batch /\ job'[j.id].status = s
    BY <1>2, <1>3 DEF Typed, TypeOK, Job
  <1>5. RowsKept
    BY <1>2, <1>4, JobKept DEF NOT_DONE, DONE
  <1>6. /\ loc'[w].list = loc[w].list \ {j} /\ loc'[w].plan = loc[w].plan
        /\ \/ pc'[w] = back /\ loc'[w].r = loc[w].r
           \/ pc'[w] = "threshold" /\ loc'[w].r = j.id[1] /\ loc'[w].back = back
    <2>1. \/ Goto(w, "threshold", [loc[w] EXCEPT !.list = @ \ {j}, !.r = j.id[1], !.back = back])
          \/ Goto(w, back, [loc[w] EXCEPT !.list = @ \ {j}])
      BY DEF failAttempt, fail
    <2>2. \/ /\ pc'[w] = "threshold"
             /\ loc'[w] = [loc[w] EXCEPT !.list = @ \ {j}, !.r = j.id[1], !.back = back]
          \/ pc'[w] = back /\ loc'[w] = [loc[w] EXCEPT !.list = @ \ {j}]
      BY <2>1, GotoEffect
    <2>3. QED
      BY <1>1, <2>2 DEF LocalsAt
  <1>7. \A k \in loc'[w].list : job'[k.id].status \in ACTIVE
    <2>1. \A k \in loc'[w].list : k \in loc[w].list /\ k.id \in JobIds /\ k.id # j.id
      BY <1>1, <1>6 DEF Held, Typed, TypeOK, JobCopy
    <2>2. QED
      BY <1>1, <1>4, <2>1 DEF Held
  <1>8. Held(loc[w])'
    BY <1>1, <1>6, <1>7, HeldStep
  <1>9. CASE back = "evidence"
    <2>1. QED
      BY <1>5, <1>6, <1>8, <1>9 DEF Sure
  <1>10. CASE back = "expire"
    <2>1. (\E c \in loc[w].plan : c.r = loc[w].r) /\ (\A k \in loc[w].list : k.id[1] = loc[w].r)
      BY <1>10 DEF Sure
    <2>2. (\E c \in loc'[w].plan : c.r = loc'[w].r) /\ (\A k \in loc'[w].list : k.id[1] = loc'[w].r)
      BY <1>6, <2>1
    <2>3. QED
      BY <1>5, <1>6, <1>8, <1>10, <2>2 DEF Sure
  <1>11. QED
    BY <1>9, <1>10

\* The loop goes on: what is left of the plan is as it was read.
LEMMA GateNextRollout ==
  ASSUME Typed, NEW w \in Workers, Held(loc[w]), NextRollout(w, loc[w]), job' = job,
         \A r \in Rollouts \ {loc[w].r} : roll'[r].batch = roll[r].batch
  PROVE  Sure(pc[w], loc[w])'
  <1>1. loc[w] \in LocalsAt(pc[w])
    BY DEF Typed
  <1>2. /\ pc'[w] = "rollouts"
        /\ loc'[w] = [loc[w] EXCEPT !.r = 0, !.batch = 0, !.back = "idle",
                                    !.plan = {c \in @ : c.r # loc[w].r}]
    BY GotoEffect DEF NextRollout
  <1>3. loc'[w].plan = {c \in loc[w].plan : c.r # loc[w].r} /\ loc'[w].list = loc[w].list
    BY <1>1, <1>2 DEF LocalsAt
  <1>4. \A c \in loc'[w].plan : roll'[c.r].batch = roll[c.r].batch
    BY <1>3 DEF Typed, TypeOK, RolloutCopy
  <1>5. \A j \in loc'[w].list : job'[j.id].status \in ACTIVE
    BY <1>3 DEF Held
  <1>6. Held(loc[w])'
    BY <1>3, <1>4, <1>5, HeldStep
  <1>7. QED
    BY <1>2, <1>6, SurePlainly

\* checkThreshold() and the pause that follows: a handler that comes back
\* from it to release a batch finds the rollout paused or few jobs failed.
LEMMA GateThreshold ==
  ASSUME Typed, NEW w \in Workers, Sure(pc[w], loc[w]), checkThreshold(w) \/ autoPause(w)
  PROVE  RowsKept /\ Sure(pc[w], loc[w])'
  <1> DEFINE l == loc[w]
  <1>1. l \in LocalsAt(pc[w]) /\ Held(l) /\ pc[w] \in {"threshold", "pausing"}
    BY DEF Typed, Sure, checkThreshold, autoPause
  <1>2. l.r \in Rollouts /\ l.back \in {"expire", "boundary", "evidence"}
    BY <1>1 DEF LocalsAt
  <1>3. /\ job' = job /\ \A r \in Rollouts : roll'[r].batch = roll[r].batch
        /\ roll' = roll \/ \A r \in Rollouts : roll'[r].status \in {roll[r].status, "PAUSED"}
    BY <1>2 DEF checkThreshold, autoPause, Typed, TypeOK, Rollout
  <1>4. RowsKept
    BY <1>3 DEF RowsKept
  <1>5. loc'[w] = loc[w] /\ pc'[w] \in {"pausing", loc[w].back}
    <2>1. CASE checkThreshold(w)
      <3>1. Goto(w, IF TooManyFailed(loc[w].r) THEN "pausing" ELSE loc[w].back, loc[w])
        BY <2>1 DEF checkThreshold
      <3>2. QED
        BY <3>1, GotoEffect
    <2>2. CASE autoPause(w)
      <3>1. Goto(w, loc[w].back, loc[w])
        BY <2>2 DEF autoPause
      <3>2. QED
        BY <3>1, GotoEffect
    <2>3. QED
      BY <2>1, <2>2
  <1>6. Held(loc[w])'
    <2>1. \A c \in loc'[w].plan : roll'[c.r].batch = roll[c.r].batch
      BY <1>3, <1>5 DEF Typed, TypeOK, RolloutCopy
    <2>2. \A j \in loc'[w].list : job'[j.id].status \in ACTIVE
      BY <1>1, <1>3, <1>5 DEF Held
    <2>3. QED
      BY <1>1, <1>5, <2>1, <2>2, HeldStep
  <1>7. CASE l.back = "evidence"
    BY <1>4, <1>5, <1>6, <1>7 DEF Sure
  <1>8. CASE l.back = "expire"
    <2>1. (\E c \in l.plan : c.r = l.r) /\ (\A j \in l.list : j.id[1] = l.r)
      BY <1>1, <1>8 DEF Sure
    <2>2. QED
      BY <1>4, <1>5, <1>6, <1>8, <2>1 DEF Sure
  <1>9. CASE l.back = "boundary"
    <2>1. Finished(l.r, l.batch) /\ roll[l.r].batch <= l.batch
      BY <1>1, <1>9 DEF Sure
    <2>2. Finished(loc[w].r, loc[w].batch)' /\ roll'[loc'[w].r].batch <= loc'[w].batch
      BY <1>2, <1>3, <1>5, <2>1 DEF Finished
    <2>3. ASSUME pc'[w] = "boundary", roll'[l.r].status = "RUNNING"
          PROVE  NotMany(loc[w].r)'
      <3>1. checkThreshold(w) /\ roll' = roll /\ ~TooManyFailed(l.r)
        <4>1. CASE autoPause(w)
          BY <1>2, <2>3, <4>1 DEF autoPause, Typed, TypeOK, Rollout
        <4>2. CASE checkThreshold(w)
          <5>1. pc'[w] = IF TooManyFailed(loc[w].r) THEN "pausing" ELSE loc[w].back
            BY <4>2, GotoEffect DEF checkThreshold
          <5>2. QED
            BY <2>3, <4>2, <5>1 DEF checkThreshold
        <4>3. QED
          BY <4>1, <4>2
      <3> DEFINE S == In(JobsOf(l.r), {"FAILED"})
      <3>2. Cardinality(S) \in Nat
        <4>1. S \subseteq JobIds
          BY DEF In, JobsOf
        <4> HIDE DEF S
        <4>2. QED
          BY <4>1, CountLess
      <3>3. ~(Threshold > 0 /\ Cardinality(S) >= Threshold)
        BY <2>3, <3>1 DEF TooManyFailed
      <3>4. {id \in JobsOf(l.r) : job'[id].status \in {"FAILED"}} = S
        BY <1>3 DEF In
      <3> HIDE DEF S
      <3>5. Threshold > 0 => Cardinality(S) < Threshold
        BY <3>2, <3>3, ConstantsAssumption
      <3>6. QED
        BY <1>5, <3>4, <3>5 DEF NotMany, In
    <2>4. QED
      BY <1>4, <1>5, <1>6, <1>9, <2>2, <2>3 DEF Sure
  <1>10. QED
    BY <1>2, <1>7, <1>8, <1>9

\* With the current batch finished, every batch before the next one that has
\* a job to do is finished too: nothing of a later batch is in flight.
LEMMA NextBatch ==
  ASSUME Typed, NEW r \in Rollouts, RolloutGate(r), Unfinished(r, roll[r].batch) = {},
         NEW later,
         later = {job[id].batch : id \in {i \in In(JobsOf(r), {"REQUESTED"}) :
                                            job[i].batch > roll[r].batch}},
         later # {}
  PROVE  /\ Least(later) \in Nat /\ roll[r].batch <= Least(later)
         /\ Finished(r, Least(later))
  <1>1. \A id \in JobsOf(r) : id \in JobIds /\ job[id].batch \in Nat
    BY DEF JobsOf, Typed, TypeOK, Job
  <1>2. later \subseteq Nat /\ roll[r].batch \in Nat
    BY <1>1 DEF In, Typed, TypeOK, Rollout
  <1>3. Least(later) \in Nat /\ Least(later) \in later /\ \A y \in later : Least(later) <= y
    BY <1>2, LeastNat
  <1>4. \A y \in later : y > roll[r].batch
    OBVIOUS
  <1>5. ASSUME NEW id \in JobsOf(r), job[id].batch < Least(later)
        PROVE  job[id].status \notin NOT_DONE
    <2>1. CASE job[id].batch <= roll[r].batch
      BY <2>1 DEF Unfinished, In
    <2>2. CASE job[id].batch > roll[r].batch
      <3>1. job[id].status \notin ACTIVE
        BY <1>1, <1>2, <2>2 DEF RolloutGate
      <3>2. job[id].status = "REQUESTED" => job[id].batch \in later
        BY <2>2 DEF In
      <3>3. job[id].batch \notin later
        <4>1. job[id].batch \in later => Least(later) <= job[id].batch
          BY <1>3
        <4>2. QED
          BY <1>1, <1>3, <1>5, <4>1
      <3>4. QED
        BY <3>1, <3>2, <3>3 DEF NOT_DONE
    <2>3. QED
      BY <1>1, <1>2, <2>1, <2>2
  <1>6. QED
    BY <1>2, <1>3, <1>4, <1>5 DEF Finished

\* tick() up to the release of a batch.
LEMMA GateTick ==
  ASSUME Typed, \A r \in Rollouts : RolloutGate(r), NEW w \in Workers, Sure(pc[w], loc[w]),
         tick(w) \/ findStale(w) \/ expire(w) \/ advance(w) \/ complete(w) \/ boundary(w)
  PROVE  RowsKept /\ Sure(pc[w], loc[w])'
  <1> DEFINE Goal == RowsKept /\ Sure(pc[w], loc[w])'
             l    == loc[w]
  <1> SUFFICES Goal
    OBVIOUS
  <1>1. l \in LocalsAt(pc[w]) /\ Held(l)
    BY DEF Typed, Sure
  <1>2. CASE tick(w)
    <2> DEFINE plan == {[r |-> r, status |-> roll[r].status, batch |-> roll[r].batch] :
                          r \in {q \in Rollouts : roll[q].status \in {"RUNNING", "PAUSED"}}}
    <2>1. Goto(w, "rollouts", [NoLoc EXCEPT !.plan = plan]) /\ UNCHANGED <<roll, job>>
      BY <1>2 DEF tick
    <2>2. \A c \in plan : c.batch = roll[c.r].batch
      OBVIOUS
    <2> HIDE DEF plan
    <2>3. pc'[w] = "rollouts" /\ loc'[w] = [NoLoc EXCEPT !.plan = plan]
      BY <2>1, GotoEffect
    <2>4. loc'[w].plan = plan /\ loc'[w].list = {}
      BY <2>3, DropFields, PlanFields
    <2>5. Held(loc[w])'
      BY <2>1, <2>2, <2>4 DEF Held
    <2>6. QED
      BY <2>1, <2>3, <2>5, RowsSame, SurePlainly
  <1>3. CASE findStale(w)
    <2>1. UNCHANGED <<roll, job>> /\ pc[w] = "rollouts"
      BY <1>3 DEF findStale
    <2>2. CASE l.plan = {}
      BY <1>3, <2>2, SureFresh, RowsSame, DropFields, PlanFields DEF findStale, Return
    <2>3. CASE l.plan # {}
      <3>1. PICK c \in l.plan :
              Goto(w, "expire",
                   [loc[w] EXCEPT !.r = c.r,
                      !.list = Copies({id \in In(JobsOf(c.r), ACTIVE) : id \in overdue})])
        BY <1>3, <2>3 DEF findStale
      <3> DEFINE list == Copies({id \in In(JobsOf(c.r), ACTIVE) : id \in overdue})
      <3>2. \A j \in list : job[j.id].status \in ACTIVE /\ j.id[1] = c.r
        BY DEF Copies, In, JobsOf
      <3>3. \A j, k \in list : j.id = k.id => j = k
        BY DEF Copies
      <3>4. Goto(w, "expire", [loc[w] EXCEPT !.r = c.r, !.list = list])
        BY <3>1
      <3> HIDE DEF list
      <3>5. pc'[w] = "expire" /\ loc'[w] = [loc[w] EXCEPT !.r = c.r, !.list = list]
        BY <3>4, GotoEffect
      <3>6. loc'[w].plan = loc[w].plan /\ loc'[w].list = list /\ loc'[w].r = c.r
        BY <1>1, <3>5 DEF LocalsAt
      <3>7. Held(loc[w])'
        BY <1>1, <2>1, <3>2, <3>3, <3>6 DEF Held, ACTIVE
      <3>8. (\E d \in loc'[w].plan : d.r = loc'[w].r) /\ (\A j \in loc'[w].list : j.id[1] = loc'[w].r)
        BY <3>2, <3>6
      <3>9. QED
        BY <2>1, <3>5, <3>7, <3>8, RowsSame DEF Sure
    <2>4. QED
      BY <2>2, <2>3
  <1>4. CASE expire(w)
    <2>1. PICK j \in loc[w].list : failAttempt(w, j, "expire")
      BY <1>4 DEF expire
    <2>2. QED
      BY <1>4, <2>1, GateFail DEF expire
  <1>5. CASE advance(w)
    <2> DEFINE copy  == CHOOSE c \in l.plan : c.r = l.r
               later == {job[id].batch : id \in {i \in In(JobsOf(l.r), {"REQUESTED"}) :
                                                   job[i].batch > copy.batch}}
    <2>1. /\ pc[w] = "expire" /\ l.list = {} /\ UNCHANGED <<roll, job>>
          /\ IF copy.status # "RUNNING" \/ Unfinished(l.r, copy.batch) # {} THEN NextRollout(w, l)
             ELSE IF later = {} THEN Goto(w, "complete", l)
             ELSE Goto(w, "threshold", [l EXCEPT !.batch = Least(later), !.back = "boundary"])
      BY <1>5 DEF advance
    <2>2. copy \in l.plan /\ copy.r = l.r
      BY <2>1 DEF Sure
    <2>3. l.r \in Rollouts /\ copy.batch = roll[l.r].batch
      BY <1>1, <2>1, <2>2 DEF LocalsAt, Held
    <2>4. RowsKept
      BY <2>1, RowsSame
    <2> HIDE DEF copy
    <2>5. CASE NextRollout(w, l)
      BY <1>1, <2>1, <2>4, <2>5, GateNextRollout
    <2>6. CASE Goto(w, "complete", l)
      <3>1. pc'[w] = "complete" /\ loc'[w] = loc[w]
        BY <2>6, GotoEffect
      <3>2. Held(loc[w])'
        BY <1>1, <2>1, <3>1 DEF Held
      <3>3. QED
        BY <2>4, <3>1, <3>2, SurePlainly
    <2>7. CASE /\ Unfinished(l.r, copy.batch) = {} /\ later # {}
               /\ Goto(w, "threshold", [l EXCEPT !.batch = Least(later), !.back = "boundary"])
      <3> DEFINE b == Least(later)
      <3>1. RolloutGate(l.r) /\ Unfinished(l.r, roll[l.r].batch) = {}
        BY <2>3, <2>7
      <3>2. later = {job[id].batch : id \in {i \in In(JobsOf(l.r), {"REQUESTED"}) :
                                               job[i].batch > roll[l.r].batch}}
        BY <2>3
      <3> HIDE DEF later
      <3>3. b \in Nat /\ roll[l.r].batch <= b /\ Finished(l.r, b)
        BY <2>3, <2>7, <3>1, <3>2, NextBatch
      <3> HIDE DEF b
      <3>4. pc'[w] = "threshold" /\ loc'[w] = [loc[w] EXCEPT !.batch = b, !.back = "boundary"]
        BY <2>7, GotoEffect DEF b
      <3>5. /\ loc'[w].list = loc[w].list /\ loc'[w].plan = loc[w].plan
            /\ loc'[w].r = l.r /\ loc'[w].batch = b /\ loc'[w].back = "boundary"
        BY <1>1, <3>4 DEF LocalsAt
      <3>6. Held(loc[w])'
        BY <1>1, <2>1, <3>5 DEF Held
      <3>7. \A id \in JobsOf(l.r) : job'[id].batch < b => job'[id].status \notin NOT_DONE
        BY <2>1, <3>3 DEF Finished
      <3>8. Finished(loc[w].r, loc[w].batch)' /\ roll'[loc'[w].r].batch <= loc'[w].batch
        BY <2>1, <3>3, <3>5, <3>7 DEF Finished
      <3>9. QED
        BY <2>4, <3>4, <3>5, <3>6, <3>8 DEF Sure
    <2>8. QED
      BY <2>1, <2>5, <2>6, <2>7
  <1>6. CASE complete(w)
    <2>1. l.r \in Rollouts /\ job' = job /\ NextRollout(w, loc[w])
      BY <1>1, <1>6 DEF complete, LocalsAt
    <2>2. \A q \in Rollouts : roll'[q].batch = roll[q].batch
                              /\ roll'[q].status \in {roll[q].status, "COMPLETED"}
      BY <1>6, <2>1 DEF complete, Typed, TypeOK, Rollout
    <2>3. RowsKept
      BY <2>1, <2>2 DEF RowsKept
    <2>4. QED
      BY <1>1, <2>1, <2>2, <2>3, GateNextRollout
  <1>7. CASE boundary(w)
    <2>1. UNCHANGED <<roll, job>> /\ pc[w] = "boundary" /\ l.r \in Rollouts
      BY <1>1, <1>7 DEF boundary, LocalsAt
    <2>2. CASE roll[l.r].status # "RUNNING"
      <3>1. NextRollout(w, loc[w])
        BY <1>7, <2>2 DEF boundary
      <3>2. QED
        BY <1>1, <2>1, <3>1, RowsSame, GateNextRollout
    <2>3. CASE roll[l.r].status = "RUNNING"
      <3>1. pc'[w] = "setBatch" /\ loc'[w] = loc[w]
        BY <1>7, <2>3, GotoEffect DEF boundary
      <3>2. Finished(l.r, l.batch) /\ roll[l.r].batch <= l.batch /\ NotMany(l.r)
        BY <2>1, <2>3 DEF Sure
      <3>3. Held(loc[w])'
        BY <1>1, <2>1, <3>1 DEF Held
      <3>4. Finished(loc[w].r, loc[w].batch)' /\ NotMany(loc[w].r)'
        BY <2>1, <3>1, <3>2 DEF Finished, NotMany, In
      <3>5. roll'[loc'[w].r].batch <= loc'[w].batch /\ roll'[loc'[w].r].status = "RUNNING"
        BY <2>1, <2>3, <3>1, <3>2
      <3>6. QED
        BY <2>1, <3>1, <3>3, <3>4, <3>5, RowsSame DEF Sure
    <2>4. QED
      BY <2>2, <2>3
  <1>8. QED
    BY <1>2, <1>3, <1>4, <1>5, <1>6, <1>7

\* A batch is released: everything before it is finished, and few jobs of the
\* whole rollout failed.
LEMMA GateRelease ==
  ASSUME Typed, \A r \in Rollouts : RolloutGate(r), NEW w \in Workers, Sure(pc[w], loc[w]),
         setBatch(w)
  PROVE  (\A r \in Rollouts : RolloutGate(r)') /\ Sure(pc[w], loc[w])'
  <1> DEFINE l == loc[w]
  <1>1. /\ pc[w] = "setBatch" /\ job' = job /\ NextRollout(w, loc[w])
        /\ roll' = [roll EXCEPT ![l.r].batch = l.batch]
    BY DEF setBatch
  <1>2. l.r \in Rollouts /\ l.batch \in Nat
    BY <1>1 DEF Typed, LocalsAt
  <1>3. /\ roll'[l.r].status = roll[l.r].status /\ roll'[l.r].batch = l.batch
        /\ \A q \in Rollouts \ {l.r} : roll'[q] = roll[q]
    BY <1>1, <1>2 DEF Typed, TypeOK, Rollout
  <1>4. /\ Finished(l.r, l.batch) /\ roll[l.r].batch <= l.batch
        /\ NotMany(l.r) /\ roll[l.r].status = "RUNNING" /\ Held(l)
    BY <1>1 DEF Sure
  <1>5. Sure(pc[w], loc[w])'
    BY <1>1, <1>3, <1>4, GateNextRollout
  <1>6. ASSUME NEW q \in Rollouts
        PROVE  RolloutGate(q)'
    <2>1. CASE q # l.r
      BY <1>1, <1>3, <2>1, GateSame
    <2>2. CASE q = l.r
      <3>1. roll'[q].batch = l.batch /\ roll'[q].status = "RUNNING"
        BY <1>3, <1>4, <2>2
      <3>2. Finished(q, roll[q].batch)'
        BY <1>1, <1>4, <2>2, <3>1 DEF Finished
      <3>3. FewFailed(q, roll[q].batch)'
        <4> DEFINE S == In(JobsOf(q), {"FAILED"})
                   T == FailedBefore(q, l.batch)
        <4>1. S \subseteq JobIds /\ T \subseteq S
          BY Ids DEF In, FailedBefore
        <4>2. Threshold > 0 => Cardinality(S) < Threshold
          BY <1>4, <2>2 DEF NotMany
        <4>3. FailedBefore(q, roll[q].batch)' = T
          BY <1>1, <3>1 DEF FailedBefore
        <4> HIDE DEF S, T
        <4>4. Threshold > 0 => Cardinality(T) < Threshold
          BY <4>1, <4>2, FewLess
        <4>5. QED
          BY <4>3, <4>4 DEF FewFailed
      <3>4. \A id \in JobsOf(q) : job'[id].status \in ACTIVE => job'[id].batch <= roll'[q].batch
        <4>1. \A id \in JobsOf(q) : job[id].status \in ACTIVE => job[id].batch <= roll[q].batch
          BY DEF RolloutGate
        <4>2. /\ \A id \in JobsOf(q) : job[id].batch \in Nat
              /\ roll[q].batch \in Nat /\ roll[q].batch <= l.batch
          BY <1>4, <2>2, Ids DEF Typed, TypeOK, Job, Rollout
        <4>3. QED
          BY <1>1, <1>2, <3>1, <4>1, <4>2
      <3>5. QED
        BY <3>1, <3>2, <3>3, <3>4 DEF RolloutGate
    <2>3. QED
      BY <2>1, <2>2
  <1>7. QED
    BY <1>5, <1>6

\* Heartbeats judge jobs in flight and hand out jobs of released batches.
LEMMA GateHeartbeat ==
  ASSUME Typed, NEW w \in Workers, Sure(pc[w], loc[w]),
         \/ \E version \in Versions, echo \in BOOLEAN : recordEvidence(w, version, echo)
         \/ \E registered \in BOOLEAN : verify(w, registered)
         \/ selectJob(w) \/ markInstalling(w)
         \/ \E deferred \in BOOLEAN : dispatch(w, deferred)
  PROVE  RowsKept /\ Sure(pc[w], loc[w])'
  <1> DEFINE Goal == RowsKept /\ Sure(pc[w], loc[w])'
             l    == loc[w]
  <1> SUFFICES Goal
    OBVIOUS
  <1>1. l \in LocalsAt(pc[w]) /\ Held(l)
    BY DEF Typed, Sure
  <1>2. \A j \in l.list : j.id \in JobIds /\ job[j.id].status \in ACTIVE
    BY <1>1 DEF Held, Typed, TypeOK, JobCopy
  <1>3. ASSUME NEW version \in Versions, NEW echo \in BOOLEAN, recordEvidence(w, version, echo)
        PROVE  Goal
    <2>1. pc[w] = "evidence" /\ UNCHANGED roll
      BY <1>3, EvidenceCases
    <2>2. PICK j \in loc[w].list : Judged(w, j)
      BY <1>3, EvidenceCases
    <2>3. j.id \in JobIds /\ job[j.id].status \in ACTIVE /\ job[j.id] \in Job
      BY <1>2 DEF Typed, TypeOK
    <2>4. CASE /\ Goto(w, "evidence", [loc[w] EXCEPT !.list = @ \ {j}])
               /\ UNCHANGED <<job, clock>>
      <3>1. pc'[w] = "evidence" /\ loc'[w] = [loc[w] EXCEPT !.list = @ \ {j}]
        BY <2>4, GotoEffect
      <3>2. loc'[w].list = loc[w].list \ {j} /\ loc'[w].plan = loc[w].plan
        BY <1>1, <3>1 DEF LocalsAt
      <3>3. \A k \in loc'[w].list : job'[k.id].status \in ACTIVE
        BY <1>2, <2>4, <3>2
      <3>4. Held(loc[w])'
        BY <1>1, <2>1, <3>2, <3>3, HeldStep
      <3>5. QED
        BY <2>1, <2>4, <3>1, <3>4, RowsSame, SurePlainly
    <2>5. CASE fail(w, j, "evidence") \/ (j.id \in ran /\ failAttempt(w, j, "evidence"))
      BY <2>1, <2>5, GateFail
    <2>6. CASE /\ job' = IF j.status = "AWAITING_VERIFICATION" THEN job
                         ELSE [job EXCEPT ![j.id].status = "AWAITING_VERIFICATION"]
               /\ Goto(w, "hbbs", [loc[w] EXCEPT !.list = @ \ {j}, !.ids = {j.id}])
               /\ UNCHANGED clock
      <3>1. pc'[w] = "hbbs" /\ loc'[w] = [loc[w] EXCEPT !.list = @ \ {j}, !.ids = {j.id}]
        BY <2>6, GotoEffect
      <3>2. /\ loc'[w].list = loc[w].list \ {j} /\ loc'[w].plan = loc[w].plan
            /\ loc'[w].ids = {j.id}
        BY <1>1, <3>1 DEF LocalsAt
      <3>3. /\ \A i \in JobIds \ {j.id} : job'[i] = job[i]
            /\ job'[j.id].batch = job[j.id].batch /\ job'[j.id].status \in ACTIVE
        BY <2>3, <2>6 DEF Typed, TypeOK, Job, ACTIVE
      <3>4. RowsKept
        BY <2>1, <2>3, <3>3, JobKept DEF NOT_DONE
      <3>5. \A k \in loc'[w].list : k.id # j.id /\ k.id \in JobIds /\ job[k.id].status \in ACTIVE
        BY <1>1, <1>2, <3>2 DEF Held
      <3>6. \A k \in loc'[w].list : job'[k.id].status \in ACTIVE
        BY <3>3, <3>5
      <3>7. Held(loc[w])'
        BY <1>1, <2>1, <3>2, <3>6, HeldStep
      <3>8. \A id \in loc'[w].ids : /\ job'[id].status \in ACTIVE
                                    /\ \A k \in loc'[w].list : k.id # id
        BY <3>2, <3>3, <3>5
      <3>9. QED
        BY <3>1, <3>4, <3>7, <3>8 DEF Sure, ACTIVE
    <2>7. QED
      BY <2>2, <2>4, <2>5, <2>6 DEF Judged
  <1>4. ASSUME NEW registered \in BOOLEAN, verify(w, registered)
        PROVE  Goal
    <2>1. /\ pc[w] = "hbbs" /\ roll' = roll
          /\ job' = job \/ job' = [id \in JobIds |-> IF id \in loc[w].ids
                                     THEN [job[id] EXCEPT !.status = "SUCCEEDED", !.nonce = FALSE]
                                     ELSE job[id]]
      BY <1>4 DEF verify
    <2>2. \A id \in loc[w].ids : job[id].status \in ACTIVE /\ \A j \in loc[w].list : j.id # id
      BY <2>1 DEF Sure
    <2>3. \A id \in JobIds :
            \/ job'[id] = job[id]
            \/ /\ id \in loc[w].ids /\ job'[id].batch = job[id].batch
               /\ job'[id].status = "SUCCEEDED"
      <3>1. \A id \in JobIds : job[id] \in Job
        BY DEF Typed, TypeOK
      <3>2. \A k \in Job : /\ [k EXCEPT !.status = "SUCCEEDED", !.nonce = FALSE].batch = k.batch
                          /\ [k EXCEPT !.status = "SUCCEEDED", !.nonce = FALSE].status = "SUCCEEDED"
        BY DEF Job
      <3>3. QED
        BY <2>1, <3>1, <3>2
    <2>4. RowsKept
      BY <2>1, <2>2, <2>3 DEF RowsKept, DONE
    <2>5. pc'[w] = "evidence" /\ loc'[w] = [loc[w] EXCEPT !.ids = {}]
      BY <1>4, GotoEffect DEF verify
    <2>6. loc'[w].list = loc[w].list /\ loc'[w].plan = loc[w].plan
      BY <1>1, <2>5 DEF LocalsAt
    <2>7. \A j \in loc'[w].list : job'[j.id].status \in ACTIVE
      BY <1>2, <2>2, <2>3, <2>6
    <2>8. Held(loc[w])'
      BY <1>1, <2>1, <2>6, <2>7, HeldStep
    <2>9. QED
      BY <2>4, <2>5, <2>8, SurePlainly
  <1>5. CASE selectJob(w)
    <2>1. UNCHANGED <<roll, job>>
      BY <1>5 DEF selectJob
    <2>2. CASE Goto(w, "idle", NoLoc)
      BY <2>1, <2>2, SureFresh, RowsSame, DropFields, PlanFields
    <2>3. CASE ~Goto(w, "idle", NoLoc)
      <3>1. PICK id \in Eligible(l.e) : Goto(w, "dispatch", [NoLoc EXCEPT !.ids = {id}])
        BY <1>5, <2>3, SelectCases DEF Return
      <3>2. /\ job[id].status = "REQUESTED" /\ roll[id[1]].status = "RUNNING"
            /\ job[id].batch <= roll[id[1]].batch
        BY <3>1 DEF Eligible, In
      <3>3. pc'[w] = "dispatch" /\ loc'[w] = [NoLoc EXCEPT !.ids = {id}]
        BY <3>1, GotoEffect
      <3>4. loc'[w].ids = {id} /\ loc'[w].list = {} /\ loc'[w].plan = {}
        BY <3>3, DropFields, PlanFields
      <3>5. Held(loc[w])'
        BY <3>4 DEF Held
      <3>6. QED
        BY <2>1, <3>2, <3>3, <3>4, <3>5, RowsSame DEF Sure
    <2>4. QED
      BY <2>2, <2>3
  <1>6. CASE markInstalling(w)
    <2>1. Goto(w, "idle", NoLoc) /\ roll' = roll
      BY <1>6 DEF markInstalling, Return
    <2>2. PICK id \in loc[w].ids : job' = IF job[id].status = "DISPATCHED"
                                          THEN [job EXCEPT ![id].status = "INSTALLING"] ELSE job
      BY <1>6 DEF markInstalling
    <2>3. id \in JobIds
      BY <1>1, <1>6 DEF markInstalling, LocalsAt
    <2>4. /\ \A i \in JobIds \ {id} : job'[i] = job[i]
          /\ job'[id].batch = job[id].batch
          /\ \/ job'[id].status = job[id].status
             \/ job[id].status = "DISPATCHED" /\ job'[id].status = "INSTALLING"
      BY <2>2, <2>3 DEF Typed, TypeOK, Job
    <2>5. RowsKept
      BY <2>1, <2>3, <2>4, JobKept DEF ACTIVE, NOT_DONE
    <2>6. QED
      BY <2>1, <2>5, SureFresh, DropFields, PlanFields
  <1>7. ASSUME NEW deferred \in BOOLEAN, dispatch(w, deferred)
        PROVE  Goal
    <2>1. Goto(w, "idle", NoLoc) /\ roll' = roll /\ pc[w] = "dispatch"
      BY <1>7 DEF dispatch, Return
    <2>2. PICK id \in loc[w].ids :
            \/ job' = job
            \/ /\ job[id].status = "REQUESTED"
               /\ job' = [job EXCEPT ![id].status = "DISPATCHED", ![id].nonce = TRUE,
                                     ![id].attempts = @ + 1]
      BY <1>7 DEF dispatch
    <2>3. id \in JobIds /\ roll[id[1]].status = "RUNNING" /\ job[id].batch <= roll[id[1]].batch
      BY <1>1, <2>1 DEF LocalsAt, Sure
    <2>4. /\ \A i \in JobIds \ {id} : job'[i] = job[i]
          /\ job'[id].batch = job[id].batch
          /\ \/ job'[id].status = job[id].status
             \/ job[id].status = "REQUESTED" /\ job'[id].status = "DISPATCHED"
      BY <2>2, <2>3 DEF Typed, TypeOK, Job
    <2>5. RowsKept
      BY <2>1, <2>3, <2>4 DEF RowsKept
    <2>6. QED
      BY <2>1, <2>5, SureFresh, DropFields, PlanFields
  <1>8. QED
    BY <1>3, <1>4, <1>5, <1>6, <1>7

\* Initially there is no rollout.
LEMMA GateInit ==
  ASSUME Init
  PROVE  Gate
  <1>1. \A w \in Workers : pc[w] = "idle" /\ loc[w].list = {} /\ loc[w].plan = {}
    BY DropFields, PlanFields DEF Init
  <1>2. \A w \in Workers : Sure(pc[w], loc[w])
    BY <1>1 DEF Sure, Held
  <1>3. \A r \in Rollouts : roll[r].status = "NONE" /\ roll[r].batch = 0
    BY DEF Init
  <1>4. \A id \in JobIds : job[id].status = "NONE"
    BY DEF Init
  <1>5. ASSUME NEW r \in Rollouts
        PROVE  RolloutGate(r)
    <2>1. \A id \in JobsOf(r) : job[id].status = "NONE"
      BY <1>4 DEF JobsOf
    <2>2. FailedBefore(r, roll[r].batch) = {}
      BY <2>1 DEF FailedBefore
    <2>3. FewFailed(r, roll[r].batch)
      BY <2>2, NoneFailed DEF FewFailed
    <2>4. QED
      BY <1>3, <2>1, <2>3 DEF RolloutGate, Finished, NOT_DONE, ACTIVE
  <1>6. QED
    BY <1>2, <1>5 DEF Gate

\* With one handler at a time, every step keeps the gate.
LEMMA GateStep ==
  ASSUME \A v, w \in Workers : v = w, IInv, IInv', Gate, [Next]_vars
  PROVE  Gate'
  <1>1. /\ Typed /\ Typed' /\ Created
        /\ \A r \in Rollouts : RolloutGate(r)
        /\ \A w \in Workers : Sure(pc[w], loc[w])
    BY DEF IInv, Gate
  <1>2. ASSUME NEW w \in Workers, \A r \in Rollouts : RolloutGate(r)', Sure(pc[w], loc[w])'
        PROVE  Gate'
    <2>1. \A v \in Workers : v = w
      OBVIOUS
    <2>2. QED
      BY <1>2, <2>1 DEF Gate
  <1>3. ASSUME NEW w \in Workers, RowsKept, Sure(pc[w], loc[w])'
        PROVE  Gate'
    BY <1>1, <1>2, <1>3, RowsKeptStep
  <1>4. ASSUME NEW w \in Workers, timer(w) \/ Operate(w) \/ Report(w)
        PROVE  Gate'
    BY <1>1, <1>3, <1>4, GateBegin
  <1>5. ASSUME NEW w \in Workers, Continue(w)
        PROVE  Gate'
    <2>1. CASE createRows(w)
      BY <1>1, <1>2, <2>1, GateCreate
    <2>2. CASE startRunning(w)
      BY <1>1, <1>2, <2>2, GateStart
    <2>3. CASE cancelRollout(w) \/ cancelCollect(w) \/ cancelEach(w) \/ cancelOne(w)
      BY <1>1, <1>3, <2>3, GateCancel
    <2>4. CASE checkThreshold(w) \/ autoPause(w)
      BY <1>1, <1>3, <2>4, GateThreshold
    <2>5. CASE tick(w) \/ findStale(w) \/ expire(w) \/ advance(w) \/ complete(w) \/ boundary(w)
      BY <1>1, <1>3, <2>5, GateTick
    <2>6. CASE setBatch(w)
      BY <1>1, <1>2, <2>6, GateRelease
    <2>7. CASE \/ \E version \in Versions, echo \in BOOLEAN : recordEvidence(w, version, echo)
               \/ \E registered \in BOOLEAN : verify(w, registered)
               \/ selectJob(w) \/ markInstalling(w)
               \/ \E deferred \in BOOLEAN : dispatch(w, deferred)
      BY <1>1, <1>3, <2>7, GateHeartbeat
    <2>8. QED
      BY <1>5, <2>1, <2>2, <2>3, <2>4, <2>5, <2>6, <2>7 DEF Continue
  <1>6. CASE UNCHANGED <<roll, job, pc, loc>>
    <2>1. \A r \in Rollouts : RolloutGate(r)'
      BY <1>1, <1>6, GateSame
    <2>2. ASSUME NEW w \in Workers
          PROVE  Sure(pc[w], loc[w])'
      <3>1. Finished(loc[w].r, loc[w].batch)' <=> Finished(loc[w].r, loc[w].batch)
        BY <1>6 DEF Finished
      <3>2. FewFailed(loc[w].r, loc[w].batch)' <=> FewFailed(loc[w].r, loc[w].batch)
        BY <1>6 DEF FewFailed, FailedBefore
      <3>3. NotMany(loc[w].r)' <=> NotMany(loc[w].r)
        BY <1>6 DEF NotMany, In
      <3>4. Held(loc[w])'
        BY <1>1, <1>6 DEF Sure, Held
      <3>5. Sure(pc[w], loc[w])
        BY <1>1
      <3>6. QED
        BY <1>6, <3>1, <3>2, <3>3, <3>4, <3>5 DEF Sure
    <2>3. QED
      BY <2>1, <2>2 DEF Gate
  <1>7. ASSUME NEW id \in JobIds, verifyTimeout(id) \/ backoffOver(id) \/ installerRan(id)
        PROVE  Gate'
    BY <1>6, <1>7 DEF verifyTimeout, backoffOver, installerRan
  <1>8. QED
    BY <1>4, <1>5, <1>6, <1>7 DEF Next, vars

\* Only a handler that selected the job hands it out.
LEMMA WhoDispatches ==
  ASSUME IInv, [Next]_vars, NEW id \in JobIds, Dispatched(id)
  PROVE  \E w \in Workers : pc[w] = "dispatch" /\ id \in loc[w].ids
  <1>1. Typed /\ Created /\ CopiesAgree /\ job \in [JobIds -> Job] /\ job[id].attempts \in Nat
    BY DEF IInv, Typed, TypeOK, Job
  <1>2. job'[id].attempts > job[id].attempts
    BY DEF Dispatched
  <1>3. job'[id].attempts # job[id].attempts
    BY <1>1, <1>2
  <1>4. ASSUME NEW w \in Workers, Moves(w)
        PROVE  HandsOut(w)
    <2>1. CASE Settles(w) \/ Reads(w) \/ Selects(w)
      <3>1. job'[id] = job[id] \/ Settled(w, id)
        BY <2>1 DEF Settles, Reads, Selects
      <3>2. QED
        BY <1>3, <3>1 DEF Settled
    <2>2. CASE Requeues(w)
      <3>1. PICK j \in loc[w].list :
              job' = [job EXCEPT ![j.id].status = "REQUESTED", ![j.id].nonce = FALSE]
        BY <2>2 DEF Requeues
      <3>2. job'[id].attempts = job[id].attempts
        BY <1>1, <3>1 DEF Job
      <3>3. QED
        BY <1>3, <3>2
    <2>3. QED
      BY <1>4, <2>1, <2>2 DEF Moves
  <1>5. ASSUME NEW w \in Workers, HandsOut(w)
        PROVE  pc[w] = "dispatch" /\ id \in loc[w].ids
    <2>1. PICK k \in loc[w].ids :
            job' = [job EXCEPT ![k].status = "DISPATCHED", ![k].nonce = TRUE,
                               ![k].attempts = @ + 1]
      BY <1>5 DEF HandsOut
    <2>2. k = id
      BY <1>1, <1>3, <2>1
    <2>3. QED
      BY <1>5, <2>2 DEF HandsOut
  <1>6. ASSUME NEW w \in Workers, createRows(w)
        PROVE  FALSE
    <2>1. PICK pilot, unfit \in SUBSET Endpoints :
            job' = [i \in JobIds |->
                     IF i[1] # loc[w].r THEN job[i]
                     ELSE [status   |-> IF i[2] \in loc[w].ids \cup unfit
                                        THEN "SKIPPED" ELSE "REQUESTED",
                           attempts |-> 0, batch |-> BatchOf(pilot, i[2]),
                           nonce    |-> FALSE]]
      BY <1>6 DEF createRows
    <2>2. job'[id] = job[id] \/ job'[id].attempts = 0
      BY <2>1
    <2>3. QED
      BY <1>1, <1>2, <1>3, <2>2
  <1>7. job' # job
    BY <1>3
  <1>8. QED
    <2>1. CASE Next
      BY <1>1, <1>4, <1>5, <1>6, <1>7, <2>1, StepCases
        DEF verifyTimeout, backoffOver, installerRan
    <2>2. CASE UNCHANGED vars
      BY <1>7, <2>2 DEF vars
    <2>3. QED
      BY <2>1, <2>2

\* "A failed pilot stops the fleet": when handlers run one at a time no
\* computer gets an installer while an earlier batch is unfinished or had too
\* many failures.  The hypothesis is needed: checkThreshold() leaves a paused
\* rollout alone, and when an operator resumes it before tick() looks at the
\* status again, the next batch is released after a failed pilot.
THEOREM PilotGateHolds ==
  ASSUME \A v, w \in Workers : v = w
  PROVE  Spec => PilotGate
  <1> DEFINE A == \A id \in JobIds : Dispatched(id) =>
                    LET earlier == {i \in JobsOf(id[1]) : job[i].batch < job[id].batch}
                    IN /\ In(earlier, NOT_DONE) = {}
                       /\ Threshold > 0 => Cardinality(In(earlier, {"FAILED"})) < Threshold
  <1>1. Init => Gate
    BY GateInit
  <1>2. IInv /\ IInv' /\ Gate /\ [Next]_vars => Gate'
    BY GateStep
  <1>3. IInv /\ Gate /\ [Next]_vars => [A]_vars
    <2> SUFFICES ASSUME IInv, Gate, [Next]_vars, NEW id \in JobIds, Dispatched(id)
                 PROVE  LET earlier == {i \in JobsOf(id[1]) : job[i].batch < job[id].batch}
                        IN /\ In(earlier, NOT_DONE) = {}
                           /\ Threshold > 0 => Cardinality(In(earlier, {"FAILED"})) < Threshold
      OBVIOUS
    <2> DEFINE r == id[1]
               earlier == {i \in JobsOf(r) : job[i].batch < job[id].batch}
               S == FailedBefore(r, roll[r].batch)
               T == In(earlier, {"FAILED"})
    <2>1. PICK w \in Workers : pc[w] = "dispatch" /\ id \in loc[w].ids
      BY WhoDispatches
    <2>2. r \in Rollouts /\ RolloutGate(r) /\ job[id].batch <= roll[r].batch
      BY <2>1, Ids DEF Gate, Sure
    <2>3. \A i \in JobsOf(r) : job[i].batch \in Nat /\ i \in JobIds
      BY <2>2, Ids DEF IInv, Typed, TypeOK, Job
    <2>4. job[id].batch \in Nat /\ roll[r].batch \in Nat
      BY <2>2 DEF IInv, Typed, TypeOK, Job, Rollout
    <2>5. \A i \in earlier : i \in JobsOf(r) /\ job[i].batch < roll[r].batch
      BY <2>2, <2>3, <2>4
    <2>6. In(earlier, NOT_DONE) = {}
      BY <2>2, <2>5 DEF RolloutGate, Finished, In
    <2>7. T \subseteq S /\ S \subseteq JobIds
      BY <2>3, <2>5 DEF FailedBefore, In
    <2>8. Threshold > 0 => Cardinality(S) < Threshold
      BY <2>2 DEF RolloutGate, FewFailed
    <2> HIDE DEF S, T
    <2>9. Threshold > 0 => Cardinality(T) < Threshold
      BY <2>7, <2>8, FewLess
    <2>10. QED
      BY <2>6, <2>9 DEF T
  <1>4. PilotGate <=> [][A]_vars
    BY DEF PilotGate
  <1> HIDE DEF A
  <1>5. QED
    BY <1>1, <1>2, <1>3, <1>4, InductiveInvariant, PTL DEF Spec
=============================================================================
