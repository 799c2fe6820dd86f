---------------------------- MODULE SessionEvents ----------------------------
(***************************************************************************)
(* How evidence about support sessions is persisted: record() of           *)
(* apps/api/src/sessions/session-events.service.ts and everything that     *)
(* calls it (sessions.service.ts, quick-connect.service.ts, launcher       *)
(* redemption, Connect-script telemetry, endpoint heartbeats, the two      *)
(* five-minute sweeps).                                                    *)
(*                                                                         *)
(* The API is one Node process: a handler runs alone between two awaits    *)
(* and every database statement (or $transaction) is atomic.  A worker     *)
(* below is one handler in flight; its variables are the locals that live  *)
(* across its awaits.                                                      *)
(*                                                                         *)
(* All managed sessions are against one computer: no statement of this     *)
(* code reads the sessions of another one.                                 *)
(***************************************************************************)
EXTENDS SessionState, FiniteSets

CONSTANTS
  Sessions,    \* ids of the support sessions that may be created
  Handlers,    \* HTTP request handlers that may be in flight together
  Sweepers,    \* timer callbacks that may be in flight together
  MaxTime,     \* bound on the clock
  LastCreate,  \* bound: no session is created after this time
  MaxActive,   \* bound on rustdeskSessions in a heartbeat
  MaxEvents,   \* bound: no report about a session with this many event rows
  LaunchTTL,   \* 30 minutes: thresholdMinutes of expireStaleSessions, recentCutoff
  SilenceTTL,  \* 1 hour: silence of an agent-confirmed session
  LongTTL      \* 12 hours

ASSUME BoundsAssumption ==
  /\ MaxTime \in Nat /\ LastCreate \in Nat /\ MaxActive \in Nat
  /\ MaxEvents \in Nat
  /\ LaunchTTL \in Nat /\ SilenceTTL \in Nat /\ LongTTL \in Nat
  /\ LaunchTTL <= SilenceTTL /\ SilenceTTL <= LongTTL

ASSUME WorkersAssumption == Handlers \cap Sweepers = {}

ASSUME SessionsAssumption == IsFiniteSet(Sessions)

Workers == Handlers \cup Sweepers

VARIABLES
  now,      \* Date.now()
  sess,     \* the SupportSession rows
  events,   \* the SupportSessionEvent rows of each session
  notes,    \* sessions whose notes and disposition complete() has written
  pc,       \* where each worker is: see PCs
  touch,    \* reconcile: confirmed sessions whose lastSignalAt is still to write
  unclear,  \* reconcile: candidates that still get an "ambiguous" row
  todo,     \* record() calls the handler still has to make
  job,      \* the record() call in progress
  snap,     \* the row record() read
  attempt,  \* its loop counter
  obs       \* the instant the handler took at its start

database == <<sess, events, notes>>
batch    == <<touch, unclear, todo>>
vars     == <<now, database, pc, batch, job, snap, attempt, obs>>

PCs == {"idle", "sweep", "loop", "read", "commit", "notes"}

MAX_ATTEMPTS == 3

\* Dedupe keys.  The second component is the minute bucket of an ambiguous
\* observation and 0 for every other key.
KeyNames ==
  {"server:launch", "launcher", "script:launcher_acknowledged",
   "script:client_opened", "script:client_launch_failed",
   "technician:completed", "technician:canceled",
   "technician:connection_confirmed", "technician:technician_failed",
   "technician:technician_completed", "technician:technician_canceled",
   "agent:confirm", "agent:disconnect", "agent:ambiguous",
   "timeout:unknown", "timeout:ended"}
Key == KeyNames \X Nat

EventRow == [key : Key, type : EventTypes \cup {"connection_observed_ambiguous"},
             source : Sources, applied : BOOLEAN]

Job == [s : Sessions, type : EventTypes, source : Sources, at : Time,
        recv : Nat, key : Key, strict : BOOLEAN]

\* A record() call whose receivedAt is taken when the call is made.
Call(s, type, source, at, key, strict) ==
  [s |-> s, type |-> type, source |-> source, at |-> at, recv |-> 0,
   key |-> <<key, 0>>, strict |-> strict]

\* The locals of a handler that is not inside record().
NoJob == Call("none", "launch_requested", "server", NoTime, "server:launch", FALSE)

NoRow == [status |-> "ABSENT", source |-> "none", changedAt |-> NoTime,
          createdAt |-> NoTime, confirmedAt |-> NoTime, endedAt |-> NoTime,
          signalAt |-> NoTime, evidence |-> {}, quality |-> "UNKNOWN",
          duration |-> NoTime, adhoc |-> FALSE]

Exists(s)    == sess[s].status # "ABSENT"
KeysOf(s)    == {e.key : e \in events[s]}

Init ==
  /\ now = 0
  /\ sess = [s \in Sessions |-> NoRow]
  /\ events = [s \in Sessions |-> {}]
  /\ notes = {}
  /\ pc = [w \in Workers |-> "idle"]
  /\ touch = [w \in Workers |-> {}]
  /\ unclear = [w \in Workers |-> {}]
  /\ todo = [w \in Workers |-> {}]
  /\ job = [w \in Workers |-> NoJob]
  /\ snap = [w \in Workers |-> NoRow]
  /\ attempt = [w \in Workers |-> 0]
  /\ obs = [w \in Workers |-> 0]

-----------------------------------------------------------------------------
(* Creation of a session row.                                              *)

LaunchRow(adhoc) ==
  [NoRow EXCEPT !.status = "LAUNCH_REQUESTED", !.source = "server",
                !.changedAt = now, !.createdAt = now, !.adhoc = adhoc,
                !.evidence = {"launch_requested"}]

LaunchEvent == [key |-> <<"server:launch", 0>>, type |-> "launch_requested",
                source |-> "server", applied |-> TRUE]

NewSession(s, row, rows) ==
  /\ ~Exists(s)
  /\ now <= LastCreate
  /\ sess' = [sess EXCEPT ![s] = row]
  /\ events' = [events EXCEPT ![s] = rows]
  /\ UNCHANGED <<now, notes, pc, batch, job, snap, attempt, obs>>

\* POST /sessions: a PENDING row without a timeline entry.
create(s) ==
  NewSession(s, [NoRow EXCEPT !.status = "PENDING", !.createdAt = now], {})

\* Connect on an enrolled computer.
connectInfo(s) == NewSession(s, LaunchRow(FALSE), {LaunchEvent})

\* Quick Connect: an ad-hoc row, no endpoint behind it.
quickConnect(s) == NewSession(s, LaunchRow(TRUE), {LaunchEvent})

-----------------------------------------------------------------------------
(* record(): read, decide, commit.                                         *)

\* A handler whose only write is one record() call.
StartRecord(w, j) ==
  /\ pc[w] = "idle"
  /\ Cardinality(events[j.s]) < MaxEvents
  /\ pc' = [pc EXCEPT ![w] = "read"]
  /\ job' = [job EXCEPT ![w] = [j EXCEPT !.recv = now]]
  /\ obs' = [obs EXCEPT ![w] = now]
  /\ UNCHANGED <<now, database, batch, snap, attempt>>

\* After the call: the next one of the batch, or the handler returns.
Done(w) ==
  /\ pc' = [pc EXCEPT ![w] = IF todo[w] = {} THEN "idle" ELSE "loop"]
  /\ obs' = [obs EXCEPT ![w] = IF todo[w] = {} THEN 0 ELSE @]
  /\ job' = [job EXCEPT ![w] = NoJob]
  /\ snap' = [snap EXCEPT ![w] = NoRow]
  /\ attempt' = [attempt EXCEPT ![w] = 0]

\* Still inside the same call, at program point p.
StayAt(w, p) ==
  /\ pc' = [pc EXCEPT ![w] = p]
  /\ UNCHANGED <<job, obs>>

\* findUnique, then the pure decision.  A person's request that does not
\* apply returns here and writes nothing.
Read(w) ==
  /\ pc[w] = "read"
  /\ IF job[w].strict /\ ~Applied(sess[job[w].s], job[w])
     THEN Done(w)
     ELSE /\ snap' = [snap EXCEPT ![w] = sess[job[w].s]]
          /\ StayAt(w, "commit")
          /\ UNCHANGED attempt
  /\ UNCHANGED <<now, database, batch>>

\* Mutant: an update conditional on the time alone.
Unmoved_TimeOnly(w) == sess[job[w].s].changedAt = snap[w].changedAt

\* The conditional update of the transaction finds the row it read.
Unmoved(w) ==
  LET row == sess[job[w].s] IN
  /\ row.status = snap[w].status
  /\ row.changedAt = snap[w].changedAt

Duplicate(w) == job[w].key \in KeysOf(job[w].s)

\* P2002 on the unique (session, dedupeKey) index.
CommitDuplicate(w) ==
  /\ pc[w] = "commit"
  /\ Duplicate(w)
  /\ Done(w)
  /\ UNCHANGED <<now, database, batch>>

\* Mutant: one attempt too many.
CommitStale_OffByOne(w) ==
  /\ pc[w] = "commit"
  /\ ~Duplicate(w)
  /\ HasPatch(snap[w], job[w]) /\ ~Unmoved(w)
  /\ IF attempt[w] < MAX_ATTEMPTS
     THEN /\ attempt' = [attempt EXCEPT ![w] = @ + 1]
          /\ StayAt(w, "read")
          /\ snap' = [snap EXCEPT ![w] = NoRow]
     ELSE Done(w)
  /\ UNCHANGED <<now, database, batch>>

\* The update matched no row: everything rolled back, read again, at most
\* MAX_ATTEMPTS times.
CommitStale(w) ==
  /\ pc[w] = "commit"
  /\ ~Duplicate(w)
  /\ HasPatch(snap[w], job[w]) /\ ~Unmoved(w)
  /\ IF attempt[w] + 1 < MAX_ATTEMPTS
     THEN /\ attempt' = [attempt EXCEPT ![w] = @ + 1]
          /\ StayAt(w, "read")
          /\ snap' = [snap EXCEPT ![w] = NoRow]
     ELSE Done(w)
  /\ UNCHANGED <<now, database, batch>>

\* The event row and the patch, together.  complete() goes on to its notes.
CommitWrite(w) ==
  LET j == job[w] IN
  /\ pc[w] = "commit"
  /\ ~Duplicate(w)
  /\ HasPatch(snap[w], j) => Unmoved(w)
  /\ events' = [events EXCEPT ![j.s] = @ \cup
                 {[key |-> j.key, type |-> j.type, source |-> j.source,
                   applied |-> Applied(snap[w], j)]}]
  /\ sess' = [sess EXCEPT ![j.s] = applySessionEvent(snap[w], j, @)]
  /\ IF j.key = <<"technician:completed", 0>>
     THEN StayAt(w, "notes") /\ UNCHANGED <<snap, attempt>>
     ELSE Done(w)
  /\ UNCHANGED <<now, notes, batch>>

\* complete(): the second, separate update with the notes.
SaveNotes(w) ==
  /\ pc[w] = "notes"
  /\ notes' = notes \cup {job[w].s}
  /\ Done(w)
  /\ UNCHANGED <<now, sess, events, batch>>

-----------------------------------------------------------------------------
(* Requests that make one record() call.                                   *)

\* What a signed-in technician may report, with the dedupe key of the route.
TechnicianReports ==
  {<<"technician_completed", "technician:completed">>,
   <<"technician_canceled", "technician:canceled">>,
   <<"connection_confirmed", "technician:connection_confirmed">>,
   <<"technician_failed", "technician:technician_failed">>}

\* complete / cancel / addEvent: loadForMutation refuses a closed session.
technicianReport(w, s, r) ==
  /\ Exists(s)
  /\ sess[s].status \notin TERMINAL
  /\ StartRecord(w, Call(s, r[1], "technician", NoTime, r[2], TRUE))

QuickConnectResults ==
  {<<"technician_completed", "technician:technician_completed">>,
   <<"technician_failed", "technician:technician_failed">>,
   <<"technician_canceled", "technician:technician_canceled">>}

quickConnectEnd(w, s, r) ==
  /\ Exists(s) /\ sess[s].adhoc
  /\ StartRecord(w, Call(s, r[1], "technician", NoTime, r[2], TRUE))

ScriptReports ==
  {<<"launcher_acknowledged", "script:launcher_acknowledged">>,
   <<"client_opened", "script:client_opened">>,
   <<"client_launch_failed", "script:client_launch_failed">>}

\* The telemetry token is embedded in the Connect script of a launch of an
\* enrolled computer and is accepted for 12 hours.
recordScriptTelemetry(w, s, r) ==
  /\ Exists(s) /\ ~sess[s].adhoc
  /\ "launch_requested" \in sess[s].evidence
  /\ now - sess[s].createdAt <= LongTTL
  /\ StartRecord(w, Call(s, r[1], "connect_script", NoTime, r[2], FALSE))

\* The launcher redeemed the token bound to the session.
launcherRedeemed(w, s) ==
  /\ Exists(s)
  /\ StartRecord(w, Call(s, "launcher_acknowledged", "server", NoTime,
                         "launcher", FALSE))

-----------------------------------------------------------------------------
(* reconcileEndpointSignal: one authenticated heartbeat.                   *)

ManagedIn(statuses) == {s \in Sessions : /\ ~sess[s].adhoc
                                         /\ sess[s].status \in statuses}

RecentLaunches ==
  {s \in ManagedIn(OPEN_STATUSES \ {"SESSION_STARTED"}) :
      sess[s].createdAt >= now - LaunchTTL}

Confirm(s) == Call(s, "connection_confirmed", "endpoint_agent", now,
                   "agent:confirm", FALSE)
Disconnect(s) == Call(s, "disconnected", "endpoint_agent", now,
                      "agent:disconnect", FALSE)

\* Mutant: the connections already attributed are not subtracted.
Attributable_Twice(active, confirmed, candidates) ==
  active > 0 /\ Cardinality(candidates) = 1

\* One unexplained connection, and one launch it can belong to.
Attributable(active, confirmed, candidates) ==
  /\ active > Cardinality(confirmed)
  /\ Cardinality(candidates) = 1

reconcileEndpointSignal(w, active) ==
  LET confirmed  == ManagedIn({"SESSION_STARTED"})
      candidates == RecentLaunches
  IN
  /\ pc[w] = "idle"
  /\ pc' = [pc EXCEPT ![w] = "loop"]
  /\ obs' = [obs EXCEPT ![w] = now]
  /\ touch' = [touch EXCEPT ![w] = IF active > 0 THEN confirmed ELSE {}]
  /\ unclear' = [unclear EXCEPT ![w] =
                  IF active > Cardinality(confirmed) /\ Cardinality(candidates) > 1
                  THEN candidates ELSE {}]
  /\ todo' = [todo EXCEPT ![w] =
                IF active = 0 THEN {Disconnect(s) : s \in confirmed}
                ELSE IF Attributable(active, confirmed, candidates)
                THEN {Confirm(s) : s \in candidates} ELSE {}]
  /\ UNCHANGED <<now, database, job, snap, attempt>>

\* Mutant: the sign of life is written whatever the session's status.
Touch_Unguarded(w, s) ==
  /\ pc[w] = "loop"
  /\ s \in touch[w]
  /\ touch' = [touch EXCEPT ![w] = @ \ {s}]
  /\ sess' = [sess EXCEPT ![s].signalAt = obs[w]]
  /\ UNCHANGED <<now, events, notes, pc, unclear, todo, job, snap, attempt, obs>>

\* A confirmed session is still alive.
Touch(w, s) ==
  /\ pc[w] = "loop"
  /\ s \in touch[w]
  /\ touch' = [touch EXCEPT ![w] = @ \ {s}]
  /\ sess' = IF sess[s].status = "SESSION_STARTED"
             THEN [sess EXCEPT ![s].signalAt = obs[w]] ELSE sess
  /\ UNCHANGED <<now, events, notes, pc, unclear, todo, job, snap, attempt, obs>>

\* Someone is connected, and it could be any of several launches.
Ambiguous(w, s) ==
  LET key == <<"agent:ambiguous", obs[w]>> IN
  /\ pc[w] = "loop" /\ touch[w] = {}
  /\ s \in unclear[w]
  /\ unclear' = [unclear EXCEPT ![w] = @ \ {s}]
  /\ events' = IF key \in KeysOf(s) THEN events
               ELSE [events EXCEPT ![s] = @ \cup
                      {[key |-> key, type |-> "connection_observed_ambiguous",
                        source |-> "endpoint_agent", applied |-> FALSE]}]
  /\ UNCHANGED <<now, sess, notes, pc, touch, todo, job, snap, attempt, obs>>

\* The next record() call of a batch.
NextCall(w, j) ==
  /\ pc[w] = "loop" /\ touch[w] = {} /\ unclear[w] = {}
  /\ j \in todo[w]
  /\ todo' = [todo EXCEPT ![w] = @ \ {j}]
  /\ job' = [job EXCEPT ![w] = [j EXCEPT !.recv = now]]
  /\ pc' = [pc EXCEPT ![w] = "read"]
  /\ UNCHANGED <<now, database, touch, unclear, snap, attempt, obs>>

BatchDone(w) ==
  /\ pc[w] = "loop" /\ touch[w] = {} /\ unclear[w] = {} /\ todo[w] = {}
  /\ Done(w)
  /\ UNCHANGED <<now, database, batch>>

-----------------------------------------------------------------------------
(* The five-minute sweeps: select first, record() one by one afterwards.   *)

TimeoutUnknown(s) == Call(s, "timeout_unknown", "timeout", NoTime,
                          "timeout:unknown", FALSE)
TimeoutEnded(s)   == Call(s, "timeout_ended", "timeout", NoTime,
                          "timeout:ended", FALSE)

\* Mutant: recorded but never launched sessions are forgotten.
StaleLaunches_NoPending ==
  {s \in ManagedIn(PRE_CLIENT_STATUSES \ {"PENDING"}) :
      sess[s].createdAt < now - LaunchTTL}

\* Managed launches older than 30 minutes.
StaleLaunches ==
  {s \in ManagedIn(PRE_CLIENT_STATUSES) : sess[s].createdAt < now - LaunchTTL}

\* expireStaleSessions up to its first query.
expireStaleSessions(w) ==
  /\ pc[w] = "idle"
  /\ pc' = [pc EXCEPT ![w] = "sweep"]
  /\ obs' = [obs EXCEPT ![w] = now]
  /\ todo' = [todo EXCEPT ![w] = {TimeoutUnknown(s) : s \in StaleLaunches}]
  /\ UNCHANGED <<now, database, touch, unclear, job, snap, attempt>>

\* Second query: opened clients of sessions older than 12 hours.
expireOpened(w) ==
  /\ pc[w] = "sweep"
  /\ pc' = [pc EXCEPT ![w] = "loop"]
  /\ todo' = [todo EXCEPT ![w] = @ \cup
       {TimeoutUnknown(s) : s \in {t \in Sessions :
                                     /\ sess[t].status = "CLIENT_OPENED"
                                     /\ sess[t].createdAt < obs[w] - LongTTL}}]
  /\ UNCHANGED <<now, database, touch, unclear, job, snap, attempt, obs>>

\* Mutant: launches that never confirmed are closed as abandoned too.
Silent_AnyOpen(row) ==
  /\ row.status \in OPEN_STATUSES
  /\ row.signalAt < now - SilenceTTL

\* A confirmed session nothing has reported on for its threshold.
Silent(row) ==
  LET threshold == IF row.source = "endpoint_agent" THEN SilenceTTL ELSE LongTTL
  IN  /\ row.status = "SESSION_STARTED"
      /\ IF row.signalAt = NoTime THEN row.confirmedAt < now - LongTTL
         ELSE row.signalAt < now - threshold

closeAbandonedSessions(w) ==
  /\ pc[w] = "idle"
  /\ pc' = [pc EXCEPT ![w] = "loop"]
  /\ obs' = [obs EXCEPT ![w] = now]
  /\ todo' = [todo EXCEPT ![w] =
                {TimeoutEnded(s) : s \in {t \in Sessions : Silent(sess[t])}}]
  /\ UNCHANGED <<now, database, touch, unclear, job, snap, attempt>>

-----------------------------------------------------------------------------

\* A tick stands for half an hour or more, so a handler in flight lives
\* through at most one of them.
Prompt == \A w \in Workers : pc[w] # "idle" => obs[w] = now

Tick ==
  /\ now < MaxTime
  /\ Prompt
  /\ now' = now + 1
  /\ UNCHANGED <<database, pc, batch, job, snap, attempt, obs>>

\* The steps a worker takes once it is running.
Continue(w) ==
  \/ Read(w) \/ CommitDuplicate(w) \/ CommitStale(w) \/ CommitWrite(w)
  \/ SaveNotes(w) \/ BatchDone(w) \/ expireOpened(w)
  \/ \E s \in touch[w] : Touch(w, s)
  \/ \E s \in unclear[w] : Ambiguous(w, s)
  \/ \E j \in todo[w] : NextCall(w, j)

Request(w) ==
  \/ \E s \in Sessions :
       \/ \E r \in TechnicianReports : technicianReport(w, s, r)
       \/ \E r \in QuickConnectResults : quickConnectEnd(w, s, r)
       \/ \E r \in ScriptReports : recordScriptTelemetry(w, s, r)
       \/ launcherRedeemed(w, s)
  \/ \E active \in 0..MaxActive : reconcileEndpointSignal(w, active)

Next ==
  \/ Tick
  \/ \E s \in Sessions : create(s) \/ connectInfo(s) \/ quickConnect(s)
  \/ \E w \in Handlers : Request(w)
  \/ \E w \in Sweepers : expireStaleSessions(w) \/ closeAbandonedSessions(w)
  \/ \E w \in Workers : Continue(w)

Spec == Init /\ [][Next]_vars

\* The event loop runs every started handler to its end, and the timer of
\* sessions.controller.ts starts both sweeps every five minutes for as long
\* as the process lives.  Nothing forces a person or an endpoint to act.
Fairness ==
  /\ WF_vars(Tick)
  /\ \A w \in Workers : WF_vars(Continue(w))
  /\ \A w \in Sweepers : /\ SF_vars(expireStaleSessions(w))
                         /\ SF_vars(closeAbandonedSessions(w))

FairSpec == Spec /\ Fairness

-----------------------------------------------------------------------------
(* Properties.                                                             *)

TypeOK ==
  /\ now \in Nat
  /\ sess \in [Sessions -> Row]
  /\ events \in [Sessions -> SUBSET EventRow]
  /\ notes \subseteq Sessions
  /\ pc \in [Workers -> PCs]
  /\ touch \in [Workers -> SUBSET Sessions]
  /\ unclear \in [Workers -> SUBSET Sessions]
  /\ todo \in [Workers -> SUBSET Job]
  /\ job \in [Workers -> Job \cup {NoJob}]
  /\ snap \in [Workers -> Row]
  /\ attempt \in [Workers -> 0..(MAX_ATTEMPTS - 1)]
  /\ obs \in [Workers -> Nat]
  /\ \A w \in Workers : pc[w] \in {"read", "commit", "notes"} => job[w] \in Job

AppliedEvents(s) == {e \in events[s] : e.applied}

\* The timeline tells the whole story of a session: its open status is the
\* furthest step an applied event reached, it is closed exactly when one
\* applied event closed it, and never by two, whichever handlers raced.
TimelineExplainsStatus ==
  \A s \in Sessions :
    LET closing == {e \in AppliedEvents(s) : e.type \notin ForwardTypes}
        reached == {RANK(ForwardTarget(e.type)) :
                      e \in AppliedEvents(s) \ closing}
    IN /\ sess[s].status \in TERMINAL <=> closing # {}
       /\ \A e, f \in closing : e = f
       /\ \A e \in closing : e.source = sess[s].source
       /\ Exists(s) /\ closing = {} =>
            /\ RANK(sess[s].status) \in reached \cup {0}
            /\ \A r \in reached : r <= RANK(sess[s].status)

\* A duration is recorded exactly for MEASURED sessions, and then both its
\* ends are applied events of the endpoint agent and it is their distance.
MeasuredMeansObserved ==
  \A s \in Sessions :
    LET row == sess[s]
        FromAgent(type) == \E e \in AppliedEvents(s) :
                             e.type = type /\ e.source = "endpoint_agent"
    IN /\ row.quality = "MEASURED" <=> row.duration # NoTime
       /\ row.duration # NoTime =>
            /\ FromAgent("connection_confirmed") /\ FromAgent("disconnected")
            /\ row.endedAt = row.confirmedAt + row.duration

\* A conditional update that succeeds writes the verdict the state machine
\* would give on the row as it is now, not only on the one that was read:
\* columns that changed in between (lastSignalAt, back-filled evidence) never
\* matter to it.
CommittedDecisionIsCurrent ==
  \A w \in Workers : pc[w] = "commit" /\ Unmoved(w) =>
    LET row     == sess[job[w].s]
        written == applySessionEvent(snap[w], job[w], row)
        fresh   == applySessionEvent(row, job[w], row)
    IN /\ Applied(snap[w], job[w]) <=> Applied(row, job[w])
       /\ written.status = fresh.status
       /\ written.duration = fresh.duration
       /\ written.quality = fresh.quality

\* A dedupe key spent by an event that changed nothing never blocks the
\* event that could still close or confirm the session.
NoBurntKeys ==
  \A s \in Sessions : sess[s].status \in OPEN_STATUSES =>
    /\ <<"timeout:ended", 0>> \notin KeysOf(s)
    /\ <<"agent:disconnect", 0>> \notin KeysOf(s)
    /\ \/ <<"timeout:unknown", 0>> \in KeysOf(s)
       \/ <<"agent:confirm", 0>> \in KeysOf(s)
       => sess[s].status = "SESSION_STARTED"

\* "Attribution is conservative": overlapping heartbeats, each counting the
\* confirmed sessions before another confirms one, never attribute more
\* connections at a time than the largest number any of them reported, for
\* as long as no launch ages out of the 30 minutes while a heartbeat that
\* selected it is in flight (MaxTime <= LaunchTTL).
AttributionBounded ==
  Cardinality({s \in ManagedIn({"SESSION_STARTED"}) :
                 \E e \in AppliedEvents(s) : e.key = <<"agent:confirm", 0>>}) <= MaxActive

\* A finished session cannot be changed in any column by any later step.
ClosedIsFinal ==
  [][\A s \in Sessions : sess[s].status \in TERMINAL => sess'[s] = sess[s]]_vars

\* The refinement mapping to SessionLifecycle.
StageOf(row) ==
  CASE row.status = "ABSENT"            -> "absent"
    [] row.status = "SESSION_STARTED"   -> "confirmed"
    [] row.status = "SESSION_COMPLETED" -> "completed"
    [] row.status = "FAILED"            -> "failed"
    [] row.status = "CANCELED"          -> "canceled"
    [] row.status = "STATUS_UNKNOWN"    -> "unknown"
    [] OTHER                            -> "launched"

Lifecycle == INSTANCE SessionLifecycle WITH
  stage    <- [s \in Sessions |-> StageOf(sess[s])],
  measured <- {s \in Sessions : sess[s].duration # NoTime}

\* Every interleaving of handlers implements the one-step-at-a-time
\* lifecycle: launched, at most once confirmed, at most once closed.
ImplementsLifecycle == Lifecycle!Spec

\* A launch of an enrolled computer does not stay unconfirmed for ever.
ManagedLaunchResolves ==
  \A s \in Sessions :
    (sess[s].status \in OPEN_STATUSES /\ ~sess[s].adhoc)
      ~> (sess[s].status \in TERMINAL \cup {"SESSION_STARTED"})
=============================================================================
