---------------------------- MODULE UpdateRollout ----------------------------
(***************************************************************************)
(* Staged client and agent updates:                                        *)
(* apps/api/src/admin/update-rollout.service.ts.                           *)
(*                                                                         *)
(* A rollout owns one job per computer.  Jobs are dispatched and judged by *)
(* heartbeats, timed out and released batch by batch by tick(), stopped by *)
(* operators.  As everywhere in this API a handler runs alone between two  *)
(* awaits and each database statement is atomic: a worker is one handler   *)
(* in flight (a request, a heartbeat, or a tick of the timer).             *)
(*                                                                         *)
(* The clock is abstracted to what the code asks of it: which dispatches   *)
(* are older than the verify timeout (overdue), which retries are still    *)
(* backing off (backoff), and which computers have finished running the    *)
(* installer they were handed (ran).  These spans are minutes long, so     *)
(* they end only while no handler is in flight.                            *)
(***************************************************************************)
EXTENDS Integers, FiniteSets

CONSTANTS
  NumEndpoints,   \* managed computers, in the order findMany returns them
  NumRollouts,    \* rollouts that may be created, in creation order
  Components,     \* what rollouts may be created for: RUSTDESK, AGENT
  BatchSize,
  Threshold,      \* failureThreshold; 0 disables it
  MaxAttempts,
  Workers         \* handlers that may be in flight together

Endpoints == 1..NumEndpoints
Rollouts  == 1..NumRollouts
JobIds    == Rollouts \X Endpoints

ASSUME ConstantsAssumption ==
  /\ NumEndpoints \in Nat /\ NumRollouts \in Nat
  /\ BatchSize \in Nat \ {0} /\ MaxAttempts \in Nat \ {0} /\ Threshold \in Nat
  /\ Components \subseteq {"RUSTDESK", "AGENT"}

VARIABLES
  roll,     \* the UpdateRollout rows
  job,      \* the UpdateJob rows
  overdue,  \* jobs whose dispatchedAt is older than verifyTimeoutMinutes
  backoff,  \* jobs whose nextAttemptAt is still in the future
  ran,      \* jobs whose installer has run since the last dispatch
  pc,       \* where each worker is
  loc       \* its locals

clock == <<overdue, backoff, ran>>
vars  == <<roll, job, clock, pc, loc>>

ACTIVE   == {"DISPATCHED", "INSTALLING", "AWAITING_VERIFICATION"}
NOT_DONE == {"REQUESTED"} \cup ACTIVE
DONE     == {"SUCCEEDED", "FAILED", "CANCELED", "SKIPPED"}

\* "NONE": no such row yet.
Job == [status : NOT_DONE \cup DONE \cup {"NONE"}, attempts : Nat, batch : Nat,
        nonce : BOOLEAN]     \* dispatchNonce is not null

Rollout == [status : {"NONE", "DRAFT", "RUNNING", "PAUSED", "COMPLETED", "CANCELED"},
            batch : Nat,     \* currentBatch
            component : Components \cup {"NONE"}]

\* A job or a rollout as a handler read it.
JobCopy     == [id : JobIds, status : NOT_DONE \cup DONE, attempts : Nat, nonce : BOOLEAN]
RolloutCopy == [r : Rollouts, status : {"RUNNING", "PAUSED"}, batch : Nat]

PCs == {"idle", "creating", "starting", "tick", "rollouts", "expire", "complete",
        "boundary", "setBatch", "threshold", "pausing", "canceling", "canceled",
        "cancelJobs", "cancelOne", "evidence", "hbbs", "dispatch", "fetched"}

NoLoc == [e |-> 0, r |-> 0, ids |-> {}, list |-> {}, plan |-> {}, batch |-> 0,
          back |-> "idle", component |-> "NONE"]

Init ==
  /\ roll = [r \in Rollouts |-> [status |-> "NONE", batch |-> 0, component |-> "NONE"]]
  /\ job = [id \in JobIds |-> [status |-> "NONE", attempts |-> 0, batch |-> 0,
                               nonce |-> FALSE]]
  /\ overdue = {} /\ backoff = {} /\ ran = {}
  /\ pc = [w \in Workers |-> "idle"]
  /\ loc = [w \in Workers |-> NoLoc]

JobsOf(r)      == {id \in JobIds : id[1] = r}
JobsAt(e)      == {id \in JobIds : id[2] = e}
In(ids, sts)   == {id \in ids : job[id].status \in sts}
Copies(ids)    == {[id |-> id, status |-> job[id].status,
                    attempts |-> job[id].attempts, nonce |-> job[id].nonce] : id \in ids}
Least(S)       == CHOOSE x \in S : \A y \in S : x <= y

Goto(w, p, l) == /\ pc' = [pc EXCEPT ![w] = p]
                 /\ loc' = [loc EXCEPT ![w] = l]
Return(w)     == Goto(w, "idle", NoLoc)

-----------------------------------------------------------------------------
(* Operators.                                                              *)

\* Computers with an unfinished job for the same component.
Busy(component) == {id[2] : id \in {i \in JobIds : /\ roll[i[1]].component = component
                                                   /\ job[i].status \in NOT_DONE}}

Creating(r) == \E w \in Workers : pc[w] = "creating" /\ loc[w].r = r

\* create(), up to the query for computers already in a rollout.
create(w, r, component) ==
  /\ pc[w] = "idle"
  /\ roll[r].status = "NONE" /\ ~Creating(r)
  /\ \A q \in Rollouts : q < r => roll[q].status # "NONE" \/ Creating(q)
  /\ Goto(w, "creating",
          [NoLoc EXCEPT !.r = r, !.component = component, !.ids = Busy(component)])
  /\ UNCHANGED <<roll, job, clock>>

\* Mutant: the first follow-up batch counts from one too few.
BatchOf_OffByOne(pilot, e) ==
  IF e \in pilot THEN 0
  ELSE (Cardinality({d \in Endpoints \ pilot : d < e}) - 1) \div BatchSize

\* The pilot group is batch 0, the others follow in batches of BatchSize.
BatchOf(pilot, e) ==
  IF e \in pilot THEN 0
  ELSE 1 + Cardinality({d \in Endpoints \ pilot : d < e}) \div BatchSize

\* The rollout and its jobs; `unfit' are the computers skipped for another
\* reason (platform, no device secret, already on the target).
createRows(w) ==
  LET r == loc[w].r IN
  /\ pc[w] = "creating"
  /\ \A q \in Rollouts : q < r => roll[q].status # "NONE"
  /\ \E pilot, unfit \in SUBSET Endpoints :
       job' = [id \in JobIds |->
                 IF id[1] # r THEN job[id]
                 ELSE [status   |-> IF id[2] \in loc[w].ids \cup unfit
                                    THEN "SKIPPED" ELSE "REQUESTED",
                       attempts |-> 0, batch |-> BatchOf(pilot, id[2]),
                       nonce    |-> FALSE]]
  /\ roll' = [roll EXCEPT ![r].status = "DRAFT", ![r].component = loc[w].component]
  /\ Return(w)
  /\ UNCHANGED clock

\* start(): the batch to begin with is decided on the row as read.
start(w, r) ==
  LET pending == {job[id].batch : id \in In(JobsOf(r), {"REQUESTED"})} IN
  /\ pc[w] = "idle"
  /\ roll[r].status \in {"DRAFT", "PAUSED"}
  /\ Goto(w, "starting",
          [NoLoc EXCEPT !.r = r,
             !.batch = IF roll[r].status = "PAUSED" THEN roll[r].batch
                       ELSE IF pending = {} THEN 0 ELSE Least(pending)])
  /\ UNCHANGED <<roll, job, clock>>

\* An unconditional update, then tick().
startRunning(w) ==
  /\ pc[w] = "starting"
  /\ roll' = [roll EXCEPT ![loc[w].r].status = "RUNNING", ![loc[w].r].batch = loc[w].batch]
  /\ Goto(w, "tick", NoLoc)
  /\ UNCHANGED <<job, clock>>

\* One conditional update.
pause(w, r) ==
  /\ pc[w] = "idle"
  /\ roll[r].status = "RUNNING"
  /\ roll' = [roll EXCEPT ![r].status = "PAUSED"]
  /\ UNCHANGED <<job, clock, pc, loc>>

cancel(w, r) ==
  /\ pc[w] = "idle"
  /\ roll[r].status \in {"DRAFT", "RUNNING", "PAUSED"}
  /\ Goto(w, "canceling", [NoLoc EXCEPT !.r = r])
  /\ UNCHANGED <<roll, job, clock>>

cancelRollout(w) ==
  /\ pc[w] = "canceling"
  /\ roll' = [roll EXCEPT ![loc[w].r].status = "CANCELED"]
  /\ Goto(w, "canceled", loc[w])
  /\ UNCHANGED <<job, clock>>

cancelCollect(w) ==
  /\ pc[w] = "canceled"
  /\ Goto(w, "cancelJobs", [NoLoc EXCEPT !.ids = In(JobsOf(loc[w].r), NOT_DONE)])
  /\ UNCHANGED <<roll, job, clock>>

cancelEach(w) ==
  /\ pc[w] = "cancelJobs"
  /\ IF loc[w].ids = {} THEN Return(w) /\ UNCHANGED job
     ELSE \E id \in loc[w].ids :
            /\ job' = [job EXCEPT ![id].status = "CANCELED"]
            /\ Goto(w, "cancelJobs", [loc[w] EXCEPT !.ids = @ \ {id}])
  /\ UNCHANGED <<roll, clock>>

cancelJob(w, id) ==
  /\ pc[w] = "idle"
  /\ job[id].status \in NOT_DONE
  /\ Goto(w, "cancelOne", [NoLoc EXCEPT !.ids = {id}])
  /\ UNCHANGED <<roll, job, clock>>

cancelOne(w) ==
  /\ pc[w] = "cancelOne"
  /\ \E id \in loc[w].ids : job' = [job EXCEPT ![id].status = "CANCELED"]
  /\ Return(w)
  /\ UNCHANGED <<roll, clock>>

-----------------------------------------------------------------------------
(* failAttempt(), fail() and checkThreshold(): the writes are              *)
(* unconditional and use the attempts of the job as read.                  *)

\* Mutant: one attempt more than allowed.
failAttempt_OffByOne(w, j, back) ==
  IF j.attempts > MaxAttempts
  THEN /\ job' = [job EXCEPT ![j.id].status = "FAILED", ![j.id].nonce = FALSE]
       /\ Goto(w, "threshold", [loc[w] EXCEPT !.list = @ \ {j}, !.r = j.id[1], !.back = back])
       /\ UNCHANGED clock
  ELSE /\ job' = [job EXCEPT ![j.id].status = "REQUESTED", ![j.id].nonce = FALSE]
       /\ backoff' = backoff \cup {j.id}
       /\ Goto(w, back, [loc[w] EXCEPT !.list = @ \ {j}])
       /\ UNCHANGED <<overdue, ran>>

\* fail(): FAILED, then the threshold of the rollout is checked.
fail(w, j, back) ==
  /\ job' = [job EXCEPT ![j.id].status = "FAILED", ![j.id].nonce = FALSE]
  /\ Goto(w, "threshold", [loc[w] EXCEPT !.list = @ \ {j}, !.r = j.id[1], !.back = back])
  /\ UNCHANGED clock

\* One attempt is used up: retry after a pause, or give up.
failAttempt(w, j, back) ==
  IF j.attempts >= MaxAttempts THEN fail(w, j, back)
  ELSE /\ job' = [job EXCEPT ![j.id].status = "REQUESTED", ![j.id].nonce = FALSE]
       /\ backoff' = backoff \cup {j.id}
       /\ Goto(w, back, [loc[w] EXCEPT !.list = @ \ {j}])
       /\ UNCHANGED <<overdue, ran>>

TooManyFailed(r) == /\ roll[r].status = "RUNNING"
                    /\ Threshold > 0
                    /\ Cardinality(In(JobsOf(r), {"FAILED"})) >= Threshold

\* checkThreshold(): count, then pause.
checkThreshold(w) ==
  /\ pc[w] = "threshold"
  /\ Goto(w, IF TooManyFailed(loc[w].r) THEN "pausing" ELSE loc[w].back, loc[w])
  /\ UNCHANGED <<roll, job, clock>>

autoPause(w) ==
  LET r == loc[w].r IN
  /\ pc[w] = "pausing"
  /\ roll' = IF roll[r].status = "RUNNING"
             THEN [roll EXCEPT ![r].status = "PAUSED"] ELSE roll
  /\ Goto(w, loc[w].back, loc[w])
  /\ UNCHANGED <<job, clock>>

-----------------------------------------------------------------------------
(* tick(): every minute, and at the end of start().                        *)

timer(w) ==
  /\ pc[w] = "idle"
  /\ Goto(w, "tick", NoLoc)
  /\ UNCHANGED <<roll, job, clock>>

\* Mutant: installs of paused rollouts are never timed out.
tick_RunningOnly(w) ==
  /\ pc[w] = "tick"
  /\ Goto(w, "rollouts",
          [NoLoc EXCEPT !.plan = {[r |-> r, status |-> roll[r].status, batch |-> roll[r].batch] :
                                    r \in {q \in Rollouts : roll[q].status = "RUNNING"}}])
  /\ UNCHANGED <<roll, job, clock>>

\* Paused rollouts too: an install in flight still needs a verdict.
tick(w) ==
  /\ pc[w] = "tick"
  /\ Goto(w, "rollouts",
          [NoLoc EXCEPT !.plan = {[r |-> r, status |-> roll[r].status, batch |-> roll[r].batch] :
                                    r \in {q \in Rollouts : roll[q].status \in {"RUNNING", "PAUSED"}}}])
  /\ UNCHANGED <<roll, job, clock>>

\* The next rollout of the loop: read its timed-out jobs.
findStale(w) ==
  /\ pc[w] = "rollouts"
  /\ IF loc[w].plan = {} THEN Return(w)
     ELSE \E r \in loc[w].plan :
            Goto(w, "expire",
                 [loc[w] EXCEPT !.r = r.r,
                    !.list = Copies({id \in In(JobsOf(r.r), ACTIVE) : id \in overdue})])
  /\ UNCHANGED <<roll, job, clock>>

expire(w) ==
  /\ pc[w] = "expire"
  /\ \E j \in loc[w].list : failAttempt(w, j, "expire")
  /\ UNCHANGED roll

\* The loop goes on with the next rollout.
NextRollout(w, l) == Goto(w, "rollouts", [l EXCEPT !.r = 0, !.batch = 0, !.back = "idle",
                                                   !.plan = {c \in @ : c.r # l.r}])

Unfinished(r, batch) == {id \in In(JobsOf(r), NOT_DONE) : job[id].batch <= batch}

\* With the timeouts done: is the current batch finished, and what is next?
\* Everything is decided on the rollout row read by tick().
advance(w) ==
  LET l     == loc[w]
      copy  == CHOOSE c \in l.plan : c.r = l.r
      later == {job[id].batch : id \in {i \in In(JobsOf(l.r), {"REQUESTED"}) :
                                          job[i].batch > copy.batch}}
  IN
  /\ pc[w] = "expire" /\ l.list = {}
  /\ IF copy.status # "RUNNING" \/ Unfinished(l.r, copy.batch) # {} THEN NextRollout(w, l)
     ELSE IF later = {} THEN Goto(w, "complete", l)
     ELSE Goto(w, "threshold", [l EXCEPT !.batch = Least(later), !.back = "boundary"])
  /\ UNCHANGED <<roll, job, clock>>

complete(w) ==
  LET r == loc[w].r IN
  /\ pc[w] = "complete"
  /\ roll' = IF roll[r].status = "RUNNING"
             THEN [roll EXCEPT ![r].status = "COMPLETED"] ELSE roll
  /\ NextRollout(w, loc[w])
  /\ UNCHANGED <<job, clock>>

\* Mutant: the batch is released without looking at the status again.
boundary_NoRecheck(w) ==
  /\ pc[w] = "boundary"
  /\ Goto(w, "setBatch", loc[w])
  /\ UNCHANGED <<roll, job, clock>>

\* Batch boundary: still running after the threshold check?
boundary(w) ==
  /\ pc[w] = "boundary"
  /\ IF roll[loc[w].r].status = "RUNNING" THEN Goto(w, "setBatch", loc[w])
     ELSE NextRollout(w, loc[w])
  /\ UNCHANGED <<roll, job, clock>>

setBatch(w) ==
  /\ pc[w] = "setBatch"
  /\ roll' = [roll EXCEPT ![loc[w].r].batch = loc[w].batch]
  /\ NextRollout(w, loc[w])
  /\ UNCHANGED <<job, clock>>

-----------------------------------------------------------------------------
(* onHeartbeat(): evidence for jobs in flight, then at most one dispatch.  *)

InFlight(e) == In(JobsAt(e), ACTIVE)

onHeartbeat(w, e) ==
  /\ pc[w] = "idle"
  /\ In(JobsAt(e), NOT_DONE) # {}
  /\ Goto(w, "evidence", [NoLoc EXCEPT !.e = e, !.list = Copies(InFlight(e))])
  /\ UNCHANGED <<roll, job, clock>>

\* What the heartbeat says of the component, against the approved version.
Versions == {"none", "older", "target", "newer"}

\* recordEvidence() for the job read first.  Only a nonce echo proves that
\* the install ran; a newer agent counts as the approved one.
recordEvidence(w, version, echo) ==
  LET j == CHOOSE c \in loc[w].list : \A d \in loc[w].list : c.id[1] <= d.id[1]
      Skip == Goto(w, "evidence", [loc[w] EXCEPT !.list = @ \ {j}])
              /\ UNCHANGED <<job, clock>>
  IN
  /\ pc[w] = "evidence" /\ loc[w].list # {}
  /\ CASE version = "none" -> Skip
       [] version = "newer" /\ roll[j.id[1]].component = "RUSTDESK" -> fail(w, j, "evidence")
       [] version = "older" ->
            IF echo /\ j.id \in ran /\ j.nonce /\ j.status \in {"DISPATCHED", "INSTALLING"}
            THEN failAttempt(w, j, "evidence") ELSE Skip
       [] OTHER ->
            /\ job' = IF j.status = "AWAITING_VERIFICATION" THEN job
                      ELSE [job EXCEPT ![j.id].status = "AWAITING_VERIFICATION"]
            /\ Goto(w, "hbbs", [loc[w] EXCEPT !.list = @ \ {j}, !.ids = {j.id}])
            /\ UNCHANGED clock
  /\ UNCHANGED roll

\* The presence query: not registered means wait, registered or unavailable
\* means done.
verify(w, registered) ==
  /\ pc[w] = "hbbs"
  /\ job' = IF ~registered THEN job
            ELSE [id \in JobIds |-> IF id \in loc[w].ids
                    THEN [job[id] EXCEPT !.status = "SUCCEEDED", !.nonce = FALSE]
                    ELSE job[id]]
  /\ Goto(w, "evidence", [loc[w] EXCEPT !.ids = {}])
  /\ UNCHANGED <<roll, clock>>

\* Requested jobs that may go out: running, released batch, not backing off.
Eligible(e) ==
  {id \in In(JobsAt(e), {"REQUESTED"}) \ backoff :
     /\ roll[id[1]].status = "RUNNING"
     /\ job[id].batch <= roll[id[1]].batch}

\* The second read: nothing while an installer is in flight, otherwise the
\* oldest eligible job.
selectJob(w) ==
  LET e == loc[w].e IN
  /\ pc[w] = "evidence" /\ loc[w].list = {}
  /\ IF In(JobsAt(e), ACTIVE) # {} \/ Eligible(e) = {} THEN Return(w)
     ELSE Goto(w, "dispatch",
               [NoLoc EXCEPT !.ids = {CHOOSE i \in Eligible(e) :
                                        \A k \in Eligible(e) : i[1] <= k[1]}])
  /\ UNCHANGED <<roll, job, clock>>

\* deferReason() (maintenance window, sessions on the computer) or the
\* conditional update to DISPATCHED.
dispatch(w, deferred) ==
  /\ pc[w] = "dispatch"
  /\ \E id \in loc[w].ids :
       IF deferred \/ job[id].status # "REQUESTED" THEN UNCHANGED <<job, overdue, ran>>
       ELSE /\ job' = [job EXCEPT ![id].status = "DISPATCHED", ![id].nonce = TRUE,
                                  ![id].attempts = @ + 1]
            /\ overdue' = overdue \ {id}
            /\ ran' = ran \ {id}
  /\ Return(w)
  /\ UNCHANGED <<roll, backoff>>

\* installerFetched(): the nonce names a live dispatch.
installerFetched(w, id) ==
  /\ pc[w] = "idle"
  /\ job[id].nonce /\ job[id].status = "DISPATCHED"
  /\ Goto(w, "fetched", [NoLoc EXCEPT !.ids = {id}])
  /\ UNCHANGED <<roll, job, clock>>

markInstalling(w) ==
  /\ pc[w] = "fetched"
  /\ \E id \in loc[w].ids :
       job' = IF job[id].status = "DISPATCHED"
              THEN [job EXCEPT ![id].status = "INSTALLING"] ELSE job
  /\ Return(w)
  /\ UNCHANGED <<roll, clock>>

-----------------------------------------------------------------------------
(* Time.                                                                   *)

Quiet == \A w \in Workers : pc[w] = "idle"

verifyTimeout(id) ==
  /\ Quiet
  /\ job[id].status \in ACTIVE /\ id \notin overdue
  /\ overdue' = overdue \cup {id}
  /\ UNCHANGED <<roll, job, backoff, ran, pc, loc>>

backoffOver(id) ==
  /\ Quiet
  /\ id \in backoff
  /\ backoff' = backoff \ {id}
  /\ UNCHANGED <<roll, job, overdue, ran, pc, loc>>

installerRan(id) ==
  /\ Quiet
  /\ job[id].attempts > 0 /\ id \notin ran
  /\ ran' = ran \cup {id}
  /\ UNCHANGED <<roll, job, overdue, backoff, pc, loc>>

-----------------------------------------------------------------------------

Operate(w) ==
  \E r \in Rollouts :
    \/ \E component \in Components : create(w, r, component)
    \/ start(w, r) \/ pause(w, r) \/ cancel(w, r)
    \/ \E id \in JobsOf(r) : cancelJob(w, id)

Report(w) ==
  \/ \E e \in Endpoints : onHeartbeat(w, e)
  \/ \E id \in JobIds : installerFetched(w, id)

Continue(w) ==
  \/ createRows(w) \/ startRunning(w)
  \/ cancelRollout(w) \/ cancelCollect(w) \/ cancelEach(w) \/ cancelOne(w)
  \/ checkThreshold(w) \/ autoPause(w)
  \/ tick(w) \/ findStale(w) \/ expire(w) \/ advance(w) \/ complete(w)
  \/ boundary(w) \/ setBatch(w)
  \/ \E version \in Versions, echo \in BOOLEAN : recordEvidence(w, version, echo)
  \/ \E registered \in BOOLEAN : verify(w, registered)
  \/ selectJob(w) \/ markInstalling(w)
  \/ \E deferred \in BOOLEAN : dispatch(w, deferred)

Next ==
  \/ \E id \in JobIds : verifyTimeout(id) \/ backoffOver(id) \/ installerRan(id)
  \/ \E w \in Workers : timer(w) \/ Operate(w) \/ Report(w) \/ Continue(w)

Spec == Init /\ [][Next]_vars

\* Handlers run to their end, the timer fires every minute, time passes.
\* Nothing makes an operator or a computer act.
Fairness ==
  /\ \A w \in Workers : WF_vars(Continue(w)) /\ SF_vars(timer(w))
  /\ \A id \in JobIds : SF_vars(verifyTimeout(id))

FairSpec == Spec /\ Fairness

-----------------------------------------------------------------------------
(* Properties.                                                             *)

TypeOK ==
  /\ roll \in [Rollouts -> Rollout]
  /\ job \in [JobIds -> Job]
  /\ overdue \subseteq JobIds /\ backoff \subseteq JobIds /\ ran \subseteq JobIds
  /\ pc \in [Workers -> PCs]
  /\ \A w \in Workers :
       /\ loc[w].list \subseteq JobCopy /\ loc[w].plan \subseteq RolloutCopy
       /\ loc[w].r \in Rollouts \cup {0} /\ loc[w].e \in Endpoints \cup {0}
       /\ loc[w].batch \in Nat /\ loc[w].back \in PCs
       /\ loc[w].component \in Components \cup {"NONE"}

\* A dispatch in this step: an installer is handed to the computer.
Dispatched(id) == job'[id].attempts > job[id].attempts

\* "Bounded by construction": no computer is handed an installer more often
\* than maxAttempts, whichever heartbeats and ticks overlap.
AttemptsBounded == \A id \in JobIds : job[id].attempts <= MaxAttempts

\* "A failed pilot stops the fleet": no computer gets an installer while an
\* earlier batch is unfinished or had too many failures.
PilotGate ==
  [][\A id \in JobIds : Dispatched(id) =>
       LET earlier == {i \in JobsOf(id[1]) : job[i].batch < job[id].batch}
       IN /\ In(earlier, NOT_DONE) = {}
          /\ Threshold > 0 => Cardinality(In(earlier, {"FAILED"})) < Threshold]_vars

\* "An install in flight still needs a verdict": no job stays dispatched for
\* ever when its computer falls silent.
InstallGetsVerdict ==
  \A id \in JobIds : job[id].status \in ACTIVE ~> job[id].status \notin ACTIVE
=============================================================================
