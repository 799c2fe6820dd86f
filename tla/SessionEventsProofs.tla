------------------------- MODULE SessionEventsProofs -------------------------
(***************************************************************************)
(* Theorems about SessionEvents, for every set of sessions and workers and *)
(* every bound.                                                            *)
(***************************************************************************)
EXTENDS SessionEvents, FiniteSetTheorems, TLAPS

-----------------------------------------------------------------------------
(* The decision function.                                                  *)

\* A clamped time is a time.
LEMMA ClampType ==
  ASSUME NEW at \in Time, NEW lo \in Time, NEW hi \in Time
  PROVE  clamp(at, lo, hi) \in Time
  BY DEF clamp, Time, NoTime

\* The times a patch writes are times.
LEMMA EventTimeType ==
  ASSUME NEW snp \in Row, NEW ev \in Job
  PROVE  /\ EventTime(snp, ev) \in Time
         /\ Signal(snp, ev) \in Time
         /\ Later(EventTime(snp, ev), snp.confirmedAt) \in Time
  <1>1. snp.createdAt \in Time /\ snp.signalAt \in Time /\ snp.confirmedAt \in Time
    BY DEF Row
  <1>2. ev.at \in Time /\ ev.recv \in Time
    BY DEF Job, Time
  <1>3. EventTime(snp, ev) \in Time
    BY <1>1, <1>2, ClampType DEF EventTime
  <1>4. QED
    BY <1>1, <1>3 DEF Signal, Later, Time, NoTime

\* Persisting a decision keeps the row a row.
LEMMA ApplyType ==
  ASSUME NEW snp \in Row, NEW ev \in Job, NEW row \in Row
  PROVE  applySessionEvent(snp, ev, row) \in Row
  <1>1. /\ EventTime(snp, ev) \in Time /\ Signal(snp, ev) \in Time
        /\ Later(EventTime(snp, ev), snp.confirmedAt) \in Time
    BY EventTimeType
  <1>2. ev.type \in EventTypes /\ ev.source \in Sources /\ ev.recv \in Time
    BY DEF Job, Time
  <1>3. forward(snp, ev, row) \in Row
    <2>1. ForwardTarget(ev.type) \in Statuses
      BY DEF ForwardTarget, Statuses, OPEN_STATUSES, PRE_CLIENT_STATUSES
    <2>2. QED
      BY <1>1, <1>2, <2>1 DEF forward, Row, Qualities
  <1>4. ASSUME NEW q \in Qualities PROVE end(snp, ev, q, row) \in Row
    <2> DEFINE start    == snp.confirmedAt
               endAt    == Later(EventTime(snp, ev), start)
               measured == /\ q = "MEASURED"
                           /\ snp.source = "endpoint_agent"
                           /\ start # NoTime
               length   == IF measured THEN endAt - start ELSE NoTime
               result   == IF q = "MEASURED" /\ ~measured THEN "REPORTED" ELSE q
    <2>1. start \in Time /\ endAt \in Time /\ NoTime \in Time
      BY <1>1 DEF Row, Time
    <2>2. length \in Time
      BY <1>1, <2>1 DEF Later, Time, NoTime
    <2>3. result \in Qualities
      BY <1>4 DEF Qualities
    <2>4. end(snp, ev, q, row) =
            [row EXCEPT !.status = "SESSION_COMPLETED", !.source = ev.source,
                        !.changedAt = ev.recv, !.signalAt = endAt,
                        !.endedAt = endAt, !.duration = length,
                        !.quality = result]
      BY DEF end
    <2> HIDE DEF start, endAt, measured, length, result
    <2>5. QED
      BY <1>2, <2>1, <2>2, <2>3, <2>4 DEF Row, Statuses, TERMINAL
  <1> NoTime \in Time /\ "timeout" \in Sources /\ TERMINAL \subseteq Statuses
    BY DEF Time, Sources, Statuses
  <1>5. ASSUME NEW st \in TERMINAL, NEW q \in Qualities
        PROVE  close(snp, ev, st, q, row) \in Row
    BY <1>1, <1>2 DEF close, Row
  <1>6. fail(snp, ev, row) \in Row
    BY <1>4, <1>5 DEF fail, Qualities, TERMINAL
  <1>7. ASSUME NEW st \in TERMINAL, NEW q \in Qualities, NEW t \in Time
        PROVE  closeByTimeout(ev, st, t, q, row) \in Row
    BY <1>2 DEF closeByTimeout, Row
  <1>8. AppliedPatch(snp, ev, row) \in Row
    <2>1. snp.signalAt \in Time /\ snp.confirmedAt \in Time /\ NoTime \in Time
      BY DEF Row, Time
    <2>2. QED
      BY <1>2, <1>3, <1>4, <1>5, <1>6, <1>7, <2>1
      DEF AppliedPatch, Qualities, TERMINAL
  <1>9. UnappliedPatch(snp, ev, row) \in Row
    BY <1>1, <1>2 DEF UnappliedPatch, Row
  <1>10. QED
    BY <1>8, <1>9 DEF applySessionEvent

-----------------------------------------------------------------------------
(* Type correctness.                                                       *)

\* Every record() call the code makes is a well-formed job.
LEMMA CallType ==
  ASSUME NEW s \in Sessions, NEW type \in EventTypes, NEW source \in Sources,
         NEW at \in Time, NEW key \in KeyNames, NEW strict \in BOOLEAN
  PROVE  Call(s, type, source, at, key, strict) \in Job
  BY DEF Call, Job, Key

\* Writing one column of a row with a value of its type.
LEMMA ColumnType ==
  ASSUME NEW row \in Row, NEW t \in Time
  PROVE  /\ [row EXCEPT !.signalAt = t] \in Row
         /\ [row EXCEPT !.status = "PENDING", !.createdAt = t] \in Row
  BY DEF Row, Statuses, OPEN_STATUSES, PRE_CLIENT_STATUSES

\* The rows a session starts from.
LEMMA RowConstants ==
  /\ NoRow \in Row
  /\ now \in Nat => \A a \in BOOLEAN : LaunchRow(a) \in Row
  /\ LaunchEvent \in EventRow
  BY DEF NoRow, Row, Statuses, Time, NoTime, Qualities, LaunchRow, EventTypes,
         Sources, OPEN_STATUSES, PRE_CLIENT_STATUSES, LaunchEvent, EventRow,
         Key, KeyNames

\* Every report of a request handler names a known event and key.
LEMMA ReportTypes ==
  \A r \in TechnicianReports \cup QuickConnectResults \cup ScriptReports :
    r[1] \in EventTypes /\ r[2] \in KeyNames
  BY DEF TechnicianReports, QuickConnectResults, ScriptReports, EventTypes, KeyNames

\* Leaving record(), and moving on inside it, keep the locals typed.
LEMMA LocalsType ==
  ASSUME TypeOK, NEW w \in Workers
  PROVE  /\ Done(w) => /\ pc' \in [Workers -> PCs]
                       /\ obs' \in [Workers -> Nat]
                       /\ job' \in [Workers -> Job \cup {NoJob}]
                       /\ snap' \in [Workers -> Row]
                       /\ attempt' \in [Workers -> 0..(MAX_ATTEMPTS - 1)]
                       /\ \A v \in Workers :
                            pc'[v] \in {"read", "commit", "notes"} => job'[v] \in Job
         /\ \A p \in PCs : StayAt(w, p) /\ pc[w] \in {"read", "commit", "notes"} =>
                       /\ pc' \in [Workers -> PCs]
                       /\ obs' \in [Workers -> Nat]
                       /\ job' \in [Workers -> Job \cup {NoJob}]
                       /\ \A v \in Workers :
                            pc'[v] \in {"read", "commit", "notes"} => job'[v] \in Job
  <1>1. ASSUME Done(w)
        PROVE  /\ pc' \in [Workers -> PCs]
               /\ obs' \in [Workers -> Nat]
               /\ job' \in [Workers -> Job \cup {NoJob}]
               /\ snap' \in [Workers -> Row]
               /\ attempt' \in [Workers -> 0..(MAX_ATTEMPTS - 1)]
               /\ \A v \in Workers :
                    pc'[v] \in {"read", "commit", "notes"} => job'[v] \in Job
    <2>1. NoRow \in Row
      BY RowConstants
    <2>2. 0 \in 0..(MAX_ATTEMPTS - 1)
      BY DEF MAX_ATTEMPTS
    <2>3. QED
      BY <1>1, <2>1, <2>2 DEF Done, TypeOK, PCs
  <1>2. ASSUME NEW p \in PCs, StayAt(w, p), pc[w] \in {"read", "commit", "notes"}
        PROVE  /\ pc' \in [Workers -> PCs]
               /\ obs' \in [Workers -> Nat]
               /\ job' \in [Workers -> Job \cup {NoJob}]
               /\ \A v \in Workers :
                    pc'[v] \in {"read", "commit", "notes"} => job'[v] \in Job
    BY <1>2 DEF StayAt, TypeOK, PCs
  <1>3. QED
    BY <1>1, <1>2

\* A handler that starts, or takes up its next call, keeps its locals typed.
LEMMA StartType ==
  ASSUME TypeOK, NEW w \in Workers, NEW j \in Job,
         pc' = [pc EXCEPT ![w] = "read"],
         job' = [job EXCEPT ![w] = [j EXCEPT !.recv = now]]
  PROVE  /\ pc' \in [Workers -> PCs]
         /\ job' \in [Workers -> Job \cup {NoJob}]
         /\ \A v \in Workers : pc'[v] \in {"read", "commit", "notes"} => job'[v] \in Job
  <1>1. [j EXCEPT !.recv = now] \in Job
    BY DEF TypeOK, Job
  <1>2. QED
    BY <1>1 DEF TypeOK, PCs

LEMMA TypeRequest ==
  ASSUME TypeOK, NEW w \in Workers, Request(w)
  PROVE  TypeOK'
  <1>0. NoTime \in Time
    BY DEF Time
  <1>1. ASSUME NEW j \in Job, StartRecord(w, j)
        PROVE  TypeOK'
    <2>1. /\ pc' \in [Workers -> PCs]
          /\ job' \in [Workers -> Job \cup {NoJob}]
          /\ \A v \in Workers : pc'[v] \in {"read", "commit", "notes"} => job'[v] \in Job
      BY <1>1, StartType DEF StartRecord
    <2>2. QED
      BY <1>1, <2>1 DEF StartRecord, TypeOK, database, batch
  <1>2. ASSUME NEW s \in Sessions, NEW r \in TechnicianReports, technicianReport(w, s, r)
        PROVE  TypeOK'
    BY <1>0, <1>1, <1>2, ReportTypes, CallType DEF technicianReport, Sources
  <1>3. ASSUME NEW s \in Sessions, NEW r \in QuickConnectResults, quickConnectEnd(w, s, r)
        PROVE  TypeOK'
    BY <1>0, <1>1, <1>3, ReportTypes, CallType DEF quickConnectEnd, Sources
  <1>4. ASSUME NEW s \in Sessions, NEW r \in ScriptReports, recordScriptTelemetry(w, s, r)
        PROVE  TypeOK'
    BY <1>0, <1>1, <1>4, ReportTypes, CallType DEF recordScriptTelemetry, Sources
  <1>5. ASSUME NEW s \in Sessions, launcherRedeemed(w, s)
        PROVE  TypeOK'
    BY <1>0, <1>1, <1>5, CallType DEF launcherRedeemed, Sources, EventTypes, KeyNames
  <1>6. ASSUME NEW active \in 0..MaxActive, reconcileEndpointSignal(w, active)
        PROVE  TypeOK'
    <2>1. \A s \in Sessions : Confirm(s) \in Job /\ Disconnect(s) \in Job
      BY CallType DEF TypeOK, Time, Confirm, Disconnect, Sources, EventTypes, KeyNames
    <2>2. ManagedIn({"SESSION_STARTED"}) \subseteq Sessions /\ RecentLaunches \subseteq Sessions
      BY DEF ManagedIn, RecentLaunches
    <2>3. /\ touch' \in [Workers -> SUBSET Sessions]
          /\ unclear' \in [Workers -> SUBSET Sessions]
      BY <1>6, <2>2 DEF reconcileEndpointSignal, TypeOK
    <2>4. todo' \in [Workers -> SUBSET Job]
      BY <1>6, <2>1, <2>2 DEF reconcileEndpointSignal, TypeOK
    <2>5. QED
      BY <1>6, <2>3, <2>4 DEF reconcileEndpointSignal, TypeOK, database, PCs
  <1>7. QED
    BY <1>2, <1>3, <1>4, <1>5, <1>6 DEF Request

LEMMA TypeContinue ==
  ASSUME TypeOK, NEW w \in Workers, Continue(w)
  PROVE  TypeOK'
  <1>1. CASE Read(w)
    <2>1. job[w] \in Job /\ sess[job[w].s] \in Row /\ "commit" \in PCs
      BY <1>1 DEF Read, TypeOK, Job, PCs
    <2>2. CASE Done(w)
      BY <1>1, <2>2, LocalsType DEF Read, TypeOK, database, batch
    <2>3. CASE /\ snap' = [snap EXCEPT ![w] = sess[job[w].s]]
               /\ StayAt(w, "commit") /\ UNCHANGED attempt
      BY <1>1, <2>1, <2>3, LocalsType DEF Read, TypeOK, database, batch
    <2>4. QED
      BY <1>1, <2>2, <2>3 DEF Read
  <1>2. CASE CommitDuplicate(w)
    BY <1>2, LocalsType DEF CommitDuplicate, TypeOK, database, batch
  <1>3. CASE CommitStale(w)
    <2>1. CASE Done(w)
      BY <1>3, <2>1, LocalsType DEF CommitStale, TypeOK, database, batch
    <2>2. CASE /\ attempt[w] + 1 < MAX_ATTEMPTS
               /\ attempt' = [attempt EXCEPT ![w] = @ + 1]
               /\ StayAt(w, "read") /\ snap' = [snap EXCEPT ![w] = NoRow]
      <3>1. attempt' \in [Workers -> 0..(MAX_ATTEMPTS - 1)]
        BY <2>2 DEF TypeOK, MAX_ATTEMPTS
      <3>2. "read" \in PCs /\ pc[w] = "commit" /\ NoRow \in Row
        BY <1>3, RowConstants DEF CommitStale, PCs
      <3>3. QED
        BY <1>3, <2>2, <3>1, <3>2, LocalsType DEF CommitStale, TypeOK, database, batch
    <2>3. QED
      BY <1>3, <2>1, <2>2 DEF CommitStale
  <1>4. CASE CommitWrite(w)
    <2> DEFINE j == job[w]
    <2>1. j \in Job /\ j.s \in Sessions /\ "notes" \in PCs
      BY <1>4 DEF CommitWrite, TypeOK, Job, PCs
    <2>2. sess' \in [Sessions -> Row]
      <3>1. applySessionEvent(snap[w], j, sess[j.s]) \in Row
        BY <2>1, ApplyType DEF TypeOK
      <3>2. QED
        BY <1>4, <2>1, <3>1 DEF CommitWrite, TypeOK
    <2>3. events' \in [Sessions -> SUBSET EventRow]
      <3>1. [key |-> j.key, type |-> j.type, source |-> j.source,
             applied |-> Applied(snap[w], j)] \in EventRow
        BY <2>1 DEF Job, EventRow, Applied
      <3>2. QED
        BY <1>4, <2>1, <3>1 DEF CommitWrite, TypeOK
    <2>4. CASE Done(w)
      BY <1>4, <2>2, <2>3, <2>4, LocalsType DEF CommitWrite, TypeOK, batch
    <2>5. CASE StayAt(w, "notes") /\ UNCHANGED <<snap, attempt>>
      BY <1>4, <2>1, <2>2, <2>3, <2>5, LocalsType DEF CommitWrite, TypeOK, batch
    <2>6. QED
      BY <1>4, <2>4, <2>5 DEF CommitWrite
  <1>5. CASE SaveNotes(w)
    <2>1. job[w].s \in Sessions
      BY <1>5 DEF SaveNotes, TypeOK, Job
    <2>2. QED
      BY <1>5, <2>1, LocalsType DEF SaveNotes, TypeOK, batch
  <1>6. CASE BatchDone(w)
    BY <1>6, LocalsType DEF BatchDone, TypeOK, database, batch
  <1>7. CASE expireOpened(w)
    <2>1. \A s \in Sessions : TimeoutUnknown(s) \in Job
      BY CallType DEF TimeoutUnknown, Sources, EventTypes, KeyNames, Time
    <2>2. todo' \in [Workers -> SUBSET Job]
      BY <1>7, <2>1 DEF expireOpened, TypeOK
    <2>3. QED
      BY <1>7, <2>2 DEF expireOpened, TypeOK, database, PCs
  <1>8. ASSUME NEW s \in touch[w], Touch(w, s)
        PROVE  TypeOK'
    <2>1. s \in Sessions /\ obs[w] \in Time
      BY DEF TypeOK, Time
    <2>2. [sess[s] EXCEPT !.signalAt = obs[w]] \in Row
      BY <2>1, ColumnType DEF TypeOK
    <2>3. sess' \in [Sessions -> Row]
      BY <1>8, <2>1, <2>2 DEF Touch, TypeOK
    <2>4. touch' \in [Workers -> SUBSET Sessions]
      BY <1>8 DEF Touch, TypeOK
    <2>5. QED
      BY <1>8, <2>3, <2>4 DEF Touch, TypeOK
  <1>9. ASSUME NEW s \in unclear[w], Ambiguous(w, s)
        PROVE  TypeOK'
    <2>1. [key |-> <<"agent:ambiguous", obs[w]>>, type |-> "connection_observed_ambiguous",
           source |-> "endpoint_agent", applied |-> FALSE] \in EventRow
      BY DEF EventRow, Key, KeyNames, Sources, TypeOK
    <2>2. events' \in [Sessions -> SUBSET EventRow]
      BY <1>9, <2>1 DEF Ambiguous, TypeOK
    <2>3. unclear' \in [Workers -> SUBSET Sessions]
      BY <1>9 DEF Ambiguous, TypeOK
    <2>4. QED
      BY <1>9, <2>2, <2>3 DEF Ambiguous, TypeOK
  <1>10. ASSUME NEW j \in todo[w], NextCall(w, j)
         PROVE  TypeOK'
    <2>1. j \in Job
      BY DEF TypeOK
    <2>2. /\ pc' \in [Workers -> PCs]
          /\ job' \in [Workers -> Job \cup {NoJob}]
          /\ \A v \in Workers : pc'[v] \in {"read", "commit", "notes"} => job'[v] \in Job
      BY <1>10, <2>1, StartType DEF NextCall
    <2>3. todo' \in [Workers -> SUBSET Job]
      BY <1>10 DEF NextCall, TypeOK
    <2>4. QED
      BY <1>10, <2>2, <2>3 DEF NextCall, TypeOK, database
  <1>11. QED
    BY <1>1, <1>2, <1>3, <1>4, <1>5, <1>6, <1>7, <1>8, <1>9, <1>10 DEF Continue

\* Every step keeps the types.
LEMMA TypeStep ==
  ASSUME TypeOK, [Next]_vars
  PROVE  TypeOK'
  <1>1. CASE Tick
    BY <1>1 DEF Tick, TypeOK, database, batch
  <1>2. ASSUME NEW s \in Sessions, create(s) \/ connectInfo(s) \/ quickConnect(s)
        PROVE  TypeOK'
    <2>1. ASSUME NEW row \in Row, NEW rows \in SUBSET EventRow, NewSession(s, row, rows)
          PROVE  TypeOK'
      BY <2>1 DEF NewSession, TypeOK, batch
    <2>2. CASE create(s)
      <3> DEFINE pending == [NoRow EXCEPT !.status = "PENDING", !.createdAt = now]
      <3>1. now \in Time /\ NoRow \in Row
        BY RowConstants DEF TypeOK, Time
      <3>2. pending \in Row
        BY <3>1, ColumnType
      <3>3. NewSession(s, pending, {})
        BY <2>2 DEF create
      <3> HIDE DEF pending
      <3>4. QED
        BY <2>1, <3>2, <3>3
    <2>3. CASE connectInfo(s) \/ quickConnect(s)
      <3>1. now \in Nat
        BY DEF TypeOK
      <3>2. /\ LaunchRow(TRUE) \in Row /\ LaunchRow(FALSE) \in Row
            /\ {LaunchEvent} \in SUBSET EventRow
        BY <3>1, RowConstants
      <3>3. QED
        BY <2>1, <2>3, <3>2 DEF connectInfo, quickConnect
    <2>4. QED
      BY <1>2, <2>2, <2>3
  <1>3. ASSUME NEW w \in Handlers, Request(w)
        PROVE  TypeOK'
    BY <1>3, TypeRequest DEF Workers
  <1>4. ASSUME NEW w \in Sweepers, expireStaleSessions(w)
        PROVE  TypeOK'
    <2>1. \A s \in StaleLaunches : TimeoutUnknown(s) \in Job
      BY CallType DEF TimeoutUnknown, StaleLaunches, ManagedIn, Sources, EventTypes,
                      KeyNames, Time
    <2>2. todo' \in [Workers -> SUBSET Job]
      BY <1>4, <2>1 DEF expireStaleSessions, TypeOK
    <2>3. QED
      BY <1>4, <2>2 DEF expireStaleSessions, TypeOK, database, PCs
  <1>5. ASSUME NEW w \in Sweepers, closeAbandonedSessions(w)
        PROVE  TypeOK'
    <2>1. \A s \in Sessions : TimeoutEnded(s) \in Job
      BY CallType DEF TimeoutEnded, Sources, EventTypes, KeyNames, Time
    <2>2. todo' \in [Workers -> SUBSET Job]
      BY <1>5, <2>1 DEF closeAbandonedSessions, TypeOK
    <2>3. QED
      BY <1>5, <2>2 DEF closeAbandonedSessions, TypeOK, database, PCs
  <1>6. ASSUME NEW w \in Workers, Continue(w)
        PROVE  TypeOK'
    BY <1>6, TypeContinue
  <1>7. CASE UNCHANGED vars
    BY <1>7 DEF vars, database, batch, TypeOK
  <1>8. QED
    BY <1>1, <1>2, <1>3, <1>4, <1>5, <1>6, <1>7 DEF Next

\* Whatever handlers and sweeps interleave, every row, event row and local
\* stays of its type; in particular record() never makes a fourth attempt
\* and never commits without a job.
THEOREM TypeCorrect == Spec => []TypeOK
  <1>1. Init => TypeOK
    BY RowConstants DEF Init, TypeOK, PCs, MAX_ATTEMPTS
  <1>2. TypeOK /\ [Next]_vars => TypeOK'
    BY TypeStep
  <1>3. QED
    BY <1>1, <1>2, PTL DEF Spec

-----------------------------------------------------------------------------
(* What one step may do to one row, and the invariant that record()'s       *)
(* snapshots satisfy.                                                       *)

\* Equal in every column a decision's verdict depends on.
SameVerdict(r, q) ==
  /\ q.status = r.status /\ q.source = r.source
  /\ q.createdAt = r.createdAt /\ q.confirmedAt = r.confirmedAt
  /\ q.duration = r.duration /\ q.quality = r.quality /\ q.adhoc = r.adhoc

\* The status moves forward; a duration appears only where a confirmed
\* connection completes.
Advance(r, q) ==
  /\ RANK(r.status) < RANK(q.status)
  /\ r.status = "SESSION_STARTED" => q.status \in {"SESSION_COMPLETED", "CANCELED"}
  /\ q.duration # NoTime => /\ r.status = "SESSION_STARTED"
                            /\ q.status = "SESSION_COMPLETED"

RowStep(r, q) ==
  \/ q = r
  \/ r.status \notin TERMINAL /\ (SameVerdict(r, q) \/ Advance(r, q))

\* A session that is not closed has no duration.
OpenUntimed(row) == row.status \notin TERMINAL => row.duration = NoTime

\* Sessions some worker is about to write exist.
JobInv ==
  \A w \in Workers :
    /\ pc[w] \in {"read", "commit", "notes"} => Exists(job[w].s)
    /\ \A j \in todo[w] : Exists(j.s)

\* The row a handler read is still the row, as far as its verdict goes, or
\* the status has moved past it: a status is never returned to.
SnapInv ==
  \A w \in Workers : pc[w] = "commit" =>
    \/ SameVerdict(snap[w], sess[job[w].s])
    \/ RANK(snap[w].status) < RANK(sess[job[w].s].status)

\* The inductive invariant.
IInv ==
  /\ TypeOK
  /\ \A s \in Sessions : OpenUntimed(sess[s])
  /\ JobInv
  /\ SnapInv

\* Ranks are integers; nothing outranks a closed session.
LEMMA RankFacts ==
  /\ \A st \in Statuses : RANK(st) \in Int /\ RANK(st) <= 9
  /\ \A st \in Statuses \ TERMINAL : RANK(st) < 9
  /\ \A st \in TERMINAL : RANK(st) = 9
  BY DEF RANK, Statuses, TERMINAL, OPEN_STATUSES, PRE_CLIENT_STATUSES

\* Persisting a decision on an unmoved row is a RowStep.
LEMMA ApplyStep ==
  ASSUME NEW snp \in Row, NEW ev \in Job, NEW row \in Row,
         OpenUntimed(row),
         HasPatch(snp, ev) => row.status = snp.status
  PROVE  RowStep(row, applySessionEvent(snp, ev, row))
  <1> DEFINE q == applySessionEvent(snp, ev, row)
  <1>1. CASE ~HasPatch(snp, ev)
    BY <1>1 DEF applySessionEvent, RowStep
  <1>2. CASE HasPatch(snp, ev) /\ ~Applied(snp, ev)
    <2>1. row.status \notin TERMINAL
      BY <1>2 DEF HasPatch
    <2>2. q = UnappliedPatch(snp, ev, row)
      BY <1>2 DEF applySessionEvent
    <2>3. SameVerdict(row, UnappliedPatch(snp, ev, row))
      BY DEF UnappliedPatch, SameVerdict, Row
    <2>4. QED
      BY <2>1, <2>2, <2>3 DEF RowStep
  <1>3. CASE Applied(snp, ev)
    <2>1. /\ HasPatch(snp, ev) /\ row.status = snp.status /\ Applicable(snp, ev)
          /\ row.status \in Statuses \ TERMINAL /\ row.duration = NoTime
      BY <1>3 DEF Applied, HasPatch, Row, OpenUntimed
    <2>2. q = AppliedPatch(snp, ev, row)
      BY <1>3, <2>1 DEF applySessionEvent
    <2>3. ev.type \in EventTypes
      BY DEF Job
    <2>4. CASE ev.type \in ForwardTypes
      <3>1. q = forward(snp, ev, row)
        BY <2>2, <2>4 DEF AppliedPatch, ForwardTypes
      <3>2. q.status = ForwardTarget(ev.type) /\ q.duration = row.duration
        BY <3>1 DEF forward, Row
      <3>3. RANK(ForwardTarget(ev.type)) > RANK(row.status)
        BY <2>1, <2>4 DEF Applicable, ForwardTypes
      <3>4. row.status # "SESSION_STARTED"
        BY <3>3 DEF RANK, ForwardTarget
      <3>5. ForwardTarget(ev.type) \in Statuses
        BY DEF ForwardTarget, Statuses, OPEN_STATUSES, PRE_CLIENT_STATUSES
      <3>6. QED
        BY <2>1, <3>2, <3>3, <3>4, <3>5, RankFacts DEF RowStep, Advance
    <2>5. CASE ev.type \notin ForwardTypes
      <3>1. \A x \in Qualities :
              /\ end(snp, ev, x, row).status = "SESSION_COMPLETED"
              /\ \A st \in TERMINAL :
                   /\ close(snp, ev, st, x, row).status = st
                   /\ close(snp, ev, st, x, row).duration = NoTime
                   /\ \A tm \in Time :
                        /\ closeByTimeout(ev, st, tm, x, row).status = st
                        /\ closeByTimeout(ev, st, tm, x, row).duration = NoTime
        BY DEF end, close, closeByTimeout, Row
      <3>2. CASE row.status = "SESSION_STARTED"
        <4>1. ev.type # "timeout_unknown"
          BY <2>1, <3>2 DEF Applicable, ForwardTypes
        <4>2. \/ \E x \in Qualities : q = end(snp, ev, x, row)
              \/ \E x \in Qualities : q = close(snp, ev, "CANCELED", x, row)
              \/ \E x \in Qualities, tm \in Time :
                   q = closeByTimeout(ev, "SESSION_COMPLETED", tm, x, row)
          <5>1. snp.status = "SESSION_STARTED" /\ snp.signalAt \in Time
                /\ snp.confirmedAt \in Time
            BY <2>1, <3>2 DEF Row
          <5>2. QED
            BY <2>2, <2>3, <2>5, <4>1, <5>1
            DEF AppliedPatch, ForwardTypes, fail, EventTypes, Qualities
        <4>3. /\ q.status \in {"SESSION_COMPLETED", "CANCELED"}
              /\ q.duration # NoTime => q.status = "SESSION_COMPLETED"
          BY <3>1, <4>2 DEF TERMINAL
        <4>4. RANK(row.status) < RANK(q.status)
          BY <2>1, <4>3, RankFacts DEF TERMINAL
        <4>5. QED
          BY <2>1, <3>2, <4>3, <4>4 DEF RowStep, Advance
      <3>3. CASE row.status # "SESSION_STARTED"
        <4>1. ev.type \notin {"disconnected", "timeout_ended"}
          BY <2>1, <3>3 DEF Applicable, ForwardTypes
        <4>2. \/ \E st \in TERMINAL, x \in Qualities : q = close(snp, ev, st, x, row)
              \/ \E x \in Qualities, tm \in Time :
                   q = closeByTimeout(ev, "STATUS_UNKNOWN", tm, x, row)
          <5>1. snp.status # "SESSION_STARTED" /\ NoTime \in Time
            BY <2>1, <3>3 DEF Time
          <5>2. QED
            BY <2>2, <2>3, <2>5, <4>1, <5>1
            DEF AppliedPatch, ForwardTypes, fail, EventTypes, Qualities, TERMINAL
        <4>3. q.status \in TERMINAL /\ q.duration = NoTime
          BY <3>1, <4>2 DEF TERMINAL
        <4>4. RANK(row.status) < RANK(q.status)
          BY <2>1, <4>3, RankFacts
        <4>5. QED
          BY <2>1, <3>3, <4>3, <4>4 DEF RowStep, Advance
      <3>4. QED
        BY <3>2, <3>3
    <2>6. QED
      BY <2>4, <2>5
  <1>4. QED
    BY <1>1, <1>2, <1>3

\* A RowStep keeps the verdict or moves the status on; it never loses a row.
LEMMA RowStepFacts ==
  ASSUME NEW r \in Row, NEW q \in Row, RowStep(r, q)
  PROVE  /\ SameVerdict(r, q) \/ RANK(r.status) < RANK(q.status)
         /\ r.status # "ABSENT" => q.status # "ABSENT"
         /\ OpenUntimed(r) => OpenUntimed(q)
  <1>1. r.status \in Statuses /\ q.status \in Statuses
    BY DEF Row
  <1>2. \A st \in Statuses : RANK(st) >= RANK("ABSENT")
    BY DEF RANK, Statuses, TERMINAL, OPEN_STATUSES, PRE_CLIENT_STATUSES
  <1>3. CASE q = r
    BY <1>3 DEF SameVerdict
  <1>4. CASE SameVerdict(r, q)
    BY <1>4 DEF SameVerdict, OpenUntimed
  <1>5. CASE Advance(r, q)
    <2>1. q.status # "ABSENT"
      <3>1. RANK(q.status) # RANK("ABSENT")
        BY <1>1, <1>2, <1>5, RankFacts DEF Advance
      <3>2. QED
        BY <3>1
    <2>2. OpenUntimed(q)
      BY <1>5 DEF Advance, OpenUntimed, TERMINAL
    <2>3. QED
      BY <1>5, <2>1, <2>2 DEF Advance
  <1>6. QED
    BY <1>3, <1>4, <1>5 DEF RowStep

\* What a step does to the table: nothing, one new row, or a RowStep of one
\* existing row.
OneRow ==
  \/ sess' = sess
  \/ \E s \in Sessions : \E q \in Row :
       /\ sess' = [sess EXCEPT ![s] = q]
       /\ RowStep(sess[s], q)
       /\ \/ Exists(s)
          \/ q.status \in {"PENDING", "LAUNCH_REQUESTED"} /\ q.duration = NoTime

LEMMA NextOneRow ==
  ASSUME IInv, [Next]_vars
  PROVE  OneRow
  <1>0. TypeOK
    BY DEF IInv
  <1>1. ASSUME NEW w \in Workers, CommitWrite(w)
        PROVE  OneRow
    <2> DEFINE j == job[w]
               q == applySessionEvent(snap[w], j, sess[j.s])
    <2>1. j \in Job /\ j.s \in Sessions /\ snap[w] \in Row /\ sess[j.s] \in Row
      BY <1>0, <1>1 DEF CommitWrite, TypeOK, Job
    <2>2. Exists(j.s) /\ OpenUntimed(sess[j.s])
      BY <1>1, <2>1 DEF CommitWrite, IInv, JobInv
    <2>3. HasPatch(snap[w], j) => sess[j.s].status = snap[w].status
      BY <1>1 DEF CommitWrite, Unmoved
    <2>4. q \in Row
      BY <2>1, ApplyType
    <2>5. RowStep(sess[j.s], q)
      BY <2>1, <2>2, <2>3, ApplyStep
    <2>6. sess' = [sess EXCEPT ![j.s] = q]
      BY <1>1 DEF CommitWrite
    <2> HIDE DEF j, q
    <2>7. QED
      BY <2>1, <2>2, <2>4, <2>5, <2>6 DEF OneRow
  <1>2. ASSUME NEW w \in Workers, NEW s \in touch[w], Touch(w, s)
        PROVE  OneRow
    <2>1. s \in Sessions /\ sess[s] \in Row /\ obs[w] \in Time
      BY <1>0 DEF TypeOK, Time
    <2>2. CASE sess[s].status # "SESSION_STARTED"
      BY <1>2, <2>2 DEF Touch, OneRow
    <2>3. CASE sess[s].status = "SESSION_STARTED"
      <3> DEFINE q == [sess[s] EXCEPT !.signalAt = obs[w]]
      <3>1. q \in Row
        BY <2>1, ColumnType
      <3>2. SameVerdict(sess[s], q)
        BY <2>1 DEF SameVerdict, Row
      <3>3. sess' = [sess EXCEPT ![s] = q]
        BY <1>2, <2>1, <2>3 DEF Touch
      <3> HIDE DEF q
      <3>4. RowStep(sess[s], q) /\ Exists(s)
        BY <2>3, <3>2 DEF RowStep, Exists, TERMINAL
      <3>5. QED
        BY <2>1, <3>1, <3>3, <3>4 DEF OneRow
    <2>4. QED
      BY <2>2, <2>3
  <1>3. ASSUME NEW s \in Sessions, NEW q \in Row, NEW rows, NewSession(s, q, rows),
               q.status \in {"PENDING", "LAUNCH_REQUESTED"}, q.duration = NoTime
        PROVE  OneRow
    <2>1. sess' = [sess EXCEPT ![s] = q] /\ sess[s].status = "ABSENT"
      BY <1>3 DEF NewSession, Exists
    <2>2. RowStep(sess[s], q)
      BY <1>3, <2>1 DEF RowStep, Advance, RANK, TERMINAL
    <2>3. QED
      BY <1>3, <2>1, <2>2 DEF OneRow
  <1>4. ASSUME NEW s \in Sessions, create(s) \/ connectInfo(s) \/ quickConnect(s)
        PROVE  OneRow
    <2>1. now \in Time /\ now \in Nat /\ NoRow \in Row
      BY <1>0, RowConstants DEF TypeOK, Time
    <2>2. CASE create(s)
      <3> DEFINE q == [NoRow EXCEPT !.status = "PENDING", !.createdAt = now]
      <3>1. q \in Row
        BY <2>1, ColumnType
      <3>2. q.status = "PENDING" /\ q.duration = NoTime
        BY DEF NoRow
      <3>3. NewSession(s, q, {})
        BY <2>2 DEF create
      <3> HIDE DEF q
      <3>4. QED
        BY <1>3, <3>1, <3>2, <3>3
    <2>3. ASSUME NEW a \in BOOLEAN, NewSession(s, LaunchRow(a), {LaunchEvent})
          PROVE  OneRow
      <3>1. LaunchRow(a) \in Row
        BY <2>1, RowConstants
      <3>2. LaunchRow(a).status = "LAUNCH_REQUESTED" /\ LaunchRow(a).duration = NoTime
        BY DEF LaunchRow, NoRow
      <3>3. QED
        BY <1>3, <2>3, <3>1, <3>2
    <2>4. QED
      BY <1>4, <2>2, <2>3 DEF connectInfo, quickConnect
  <1>5. ASSUME NEW w \in Workers, Request(w)
        PROVE  OneRow
    BY <1>5 DEF Request, technicianReport, quickConnectEnd, recordScriptTelemetry,
       launcherRedeemed, StartRecord, reconcileEndpointSignal, database, OneRow
  <1>6. ASSUME NEW w \in Workers, Continue(w)
        PROVE  OneRow
    BY <1>1, <1>2, <1>6
    DEF Continue, Read, CommitDuplicate, CommitStale, SaveNotes, BatchDone,
        expireOpened, Ambiguous, NextCall, database, OneRow
  <1>7. QED
    BY <1>4, <1>5, <1>6
    DEF Next, Tick, expireStaleSessions, closeAbandonedSessions, vars, database,
        Workers, OneRow

-----------------------------------------------------------------------------
(* The inductive invariant.                                                *)

\* A row that exists keeps existing.
LEMMA ExistsStep ==
  ASSUME IInv, OneRow, NEW s \in Sessions, Exists(s)
  PROVE  Exists(s)'
  <1>1. CASE sess' = sess
    BY <1>1 DEF Exists
  <1>2. ASSUME NEW x \in Sessions, NEW q \in Row, sess' = [sess EXCEPT ![x] = q],
               RowStep(sess[x], q)
        PROVE  Exists(s)'
    <2>1. sess[x] \in Row
      BY DEF IInv, TypeOK
    <2>2. sess[x].status # "ABSENT" => q.status # "ABSENT"
      BY <1>2, <2>1, RowStepFacts
    <2>3. QED
      BY <1>2, <2>2 DEF Exists, IInv, TypeOK
  <1>3. QED
    BY <1>1, <1>2 DEF OneRow

LEMMA JobInvStep ==
  ASSUME IInv, [Next]_vars
  PROVE  JobInv'
  <1>0. TypeOK /\ JobInv /\ OneRow
    BY NextOneRow DEF IInv
  <1>1. \A s \in Sessions : Exists(s) => Exists(s)'
    BY <1>0, ExistsStep
  <1>2. \A w \in Workers : /\ \A j \in todo[w] : j.s \in Sessions
                           /\ job[w] \in Job => job[w].s \in Sessions
    BY <1>0 DEF TypeOK, Job
  <1>3. ASSUME NEW w \in Workers, UNCHANGED todo \/ todo' = [todo EXCEPT ![w] = {}],
               Done(w) \/ (\E p \in PCs : StayAt(w, p) /\ pc[w] \in {"read", "commit", "notes"})
        PROVE  JobInv'
    BY <1>0, <1>1, <1>2, <1>3 DEF JobInv, Done, StayAt, TypeOK
  <1>4. ASSUME NEW w \in Workers, NEW j \in Job, Exists(j.s), StartRecord(w, j)
        PROVE  JobInv'
    <2>1. [j EXCEPT !.recv = now].s = j.s /\ j.s \in Sessions
      BY DEF Job
    <2>2. QED
      BY <1>0, <1>1, <1>2, <1>4, <2>1 DEF JobInv, StartRecord, TypeOK, batch
  <1>5. ASSUME NEW w \in Workers, NEW j \in todo[w], NextCall(w, j)
        PROVE  JobInv'
    <2>1. [j EXCEPT !.recv = now].s = j.s /\ j.s \in Sessions /\ Exists(j.s)
      BY <1>0 DEF Job, TypeOK, JobInv
    <2>2. QED
      BY <1>0, <1>1, <1>2, <1>5, <2>1 DEF JobInv, NextCall, TypeOK
  <1>6. ASSUME NEW w \in Workers, NEW more, \A j \in more : j.s \in Sessions /\ Exists(j.s),
               todo' = [todo EXCEPT ![w] = more] \/ todo' = [todo EXCEPT ![w] = @ \cup more],
               UNCHANGED job,
               pc' = [pc EXCEPT ![w] = "loop"] \/ pc' = [pc EXCEPT ![w] = "sweep"]
        PROVE  JobInv'
    BY <1>0, <1>1, <1>2, <1>6 DEF JobInv, TypeOK
  <1>7. ASSUME UNCHANGED <<pc, todo, job>>
        PROVE  JobInv'
    BY <1>0, <1>1, <1>2, <1>7 DEF JobInv, TypeOK
  <1>8. ASSUME NEW w \in Workers, Request(w)
        PROVE  JobInv'
    <2>1. ASSUME NEW s \in Sessions, Exists(s), NEW r \in
                   TechnicianReports \cup QuickConnectResults \cup ScriptReports,
                 NEW source \in Sources, NEW strict \in BOOLEAN,
                 StartRecord(w, Call(s, r[1], source, NoTime, r[2], strict))
          PROVE  JobInv'
      <3> DEFINE j == Call(s, r[1], source, NoTime, r[2], strict)
      <3>1. j \in Job
        BY ReportTypes, CallType DEF Time
      <3>2. j.s = s
        BY DEF Call
      <3> HIDE DEF j
      <3>3. QED
        BY <1>4, <2>1, <3>1, <3>2 DEF j
    <2>2. ASSUME NEW s \in Sessions, launcherRedeemed(w, s)
          PROVE  JobInv'
      <3> DEFINE j == Call(s, "launcher_acknowledged", "server", NoTime, "launcher", FALSE)
      <3>1. j \in Job
        BY CallType DEF Time, EventTypes, Sources, KeyNames
      <3>2. j.s = s /\ Exists(s) /\ StartRecord(w, j)
        BY <2>2 DEF Call, launcherRedeemed
      <3> HIDE DEF j
      <3>3. QED
        BY <1>4, <3>1, <3>2
    <2>3. ASSUME NEW active \in 0..MaxActive, reconcileEndpointSignal(w, active)
          PROVE  JobInv'
      <3> DEFINE more == todo'[w]
      <3>1. \A s \in Sessions : Confirm(s).s = s /\ Disconnect(s).s = s
        BY DEF Confirm, Disconnect, Call
      <3>2. \A s \in ManagedIn({"SESSION_STARTED"}) \cup RecentLaunches :
              s \in Sessions /\ Exists(s)
        BY DEF ManagedIn, RecentLaunches, Exists, OPEN_STATUSES, PRE_CLIENT_STATUSES
      <3>3. todo' = [todo EXCEPT ![w] = more] /\ UNCHANGED job
            /\ pc' = [pc EXCEPT ![w] = "loop"]
        BY <1>0, <2>3 DEF reconcileEndpointSignal, TypeOK
      <3>4. \A j \in more : j.s \in Sessions /\ Exists(j.s)
        BY <1>0, <2>3, <3>1, <3>2 DEF reconcileEndpointSignal, TypeOK
      <3> HIDE DEF more
      <3>5. QED
        BY <1>6, <3>3, <3>4
    <2>4. QED
      BY <1>8, <2>1, <2>2, <2>3
      DEF Request, technicianReport, quickConnectEnd, recordScriptTelemetry, Sources
  <1>9. ASSUME NEW w \in Workers, expireStaleSessions(w)
        PROVE  JobInv'
    <2> DEFINE more == {TimeoutUnknown(s) : s \in StaleLaunches}
    <2>1. \A j \in more : j.s \in Sessions /\ Exists(j.s)
      BY DEF StaleLaunches, ManagedIn, PRE_CLIENT_STATUSES, Exists, TimeoutUnknown, Call
    <2>2. QED
      BY <1>6, <1>9, <2>1 DEF expireStaleSessions
  <1>10. ASSUME NEW w \in Workers, closeAbandonedSessions(w)
        PROVE  JobInv'
    <2> DEFINE more == {TimeoutEnded(s) : s \in {t \in Sessions : Silent(sess[t])}}
    <2>1. \A j \in more : j.s \in Sessions /\ Exists(j.s)
      BY DEF Silent, Exists, TimeoutEnded, Call
    <2>2. QED
      BY <1>6, <1>10, <2>1 DEF closeAbandonedSessions
  <1>11. ASSUME NEW w \in Workers, expireOpened(w)
        PROVE  JobInv'
    <2> DEFINE more == {TimeoutUnknown(s) : s \in {t \in Sessions :
                                     /\ sess[t].status = "CLIENT_OPENED"
                                     /\ sess[t].createdAt < obs[w] - LongTTL}}
    <2>1. \A j \in more : j.s \in Sessions /\ Exists(j.s)
      BY DEF Exists, TimeoutUnknown, Call
    <2>2. QED
      BY <1>6, <1>11, <2>1 DEF expireOpened
  <1>12. ASSUME NEW w \in Workers, Continue(w)
        PROVE  JobInv'
    BY <1>3, <1>5, <1>7, <1>11, <1>12
    DEF Continue, Read, CommitDuplicate, CommitStale, CommitWrite, SaveNotes,
        BatchDone, Touch, Ambiguous, batch, PCs
  <1>13. QED
    BY <1>7, <1>8, <1>9, <1>10, <1>12
    DEF Next, Tick, create, connectInfo, quickConnect, NewSession, vars, batch, Workers

\* A handler about to commit read its row before this step or in it.
LEMMA SnapOrigin ==
  ASSUME TypeOK, TypeOK', [Next]_vars, NEW w \in Workers, pc'[w] = "commit"
  PROVE  \/ pc[w] = "commit" /\ UNCHANGED <<snap[w], job[w]>>
         \/ snap'[w] = sess'[job'[w].s]
  <1>1. ASSUME NEW v \in Workers, Request(v)
        PROVE  pc[w] = "commit" /\ UNCHANGED <<snap[w], job[w]>>
    BY <1>1
    DEF Request, technicianReport, quickConnectEnd, recordScriptTelemetry,
        launcherRedeemed, StartRecord, reconcileEndpointSignal, TypeOK
  <1>2. ASSUME NEW v \in Workers, expireStaleSessions(v) \/ closeAbandonedSessions(v)
        PROVE  pc[w] = "commit" /\ UNCHANGED <<snap[w], job[w]>>
    BY <1>2 DEF expireStaleSessions, closeAbandonedSessions, TypeOK
  <1>4. ASSUME NEW v \in Workers, Read(v)
        PROVE  \/ pc[w] = "commit" /\ UNCHANGED <<snap[w], job[w]>>
               \/ snap'[w] = sess'[job'[w].s]
    BY <1>4 DEF Read, Done, StayAt, database, TypeOK
  <1>5. ASSUME NEW v \in Workers, CommitWrite(v)
        PROVE  pc[w] = "commit" /\ UNCHANGED <<snap[w], job[w]>>
    BY <1>5 DEF CommitWrite, Done, StayAt, TypeOK
  <1>6. ASSUME NEW v \in Workers, CommitStale(v)
        PROVE  pc[w] = "commit" /\ UNCHANGED <<snap[w], job[w]>>
    BY <1>6 DEF CommitStale, Done, StayAt, TypeOK
  <1>7. ASSUME NEW v \in Workers, CommitDuplicate(v) \/ SaveNotes(v) \/ BatchDone(v)
        PROVE  pc[w] = "commit" /\ UNCHANGED <<snap[w], job[w]>>
    BY <1>7 DEF CommitDuplicate, SaveNotes, BatchDone, Done, TypeOK
  <1>8. ASSUME NEW v \in Workers,
               \/ expireOpened(v)
               \/ \E s \in touch[v] : Touch(v, s)
               \/ \E s \in unclear[v] : Ambiguous(v, s)
               \/ \E j \in todo[v] : NextCall(v, j)
        PROVE  pc[w] = "commit" /\ UNCHANGED <<snap[w], job[w]>>
    BY <1>8 DEF expireOpened, Touch, Ambiguous, NextCall, TypeOK
  <1>9. ASSUME UNCHANGED <<pc, snap, job>>
        PROVE  pc[w] = "commit" /\ UNCHANGED <<snap[w], job[w]>>
    BY <1>9
  <1>10. ASSUME NEW v \in Workers, Continue(v)
         PROVE  \/ pc[w] = "commit" /\ UNCHANGED <<snap[w], job[w]>>
                \/ snap'[w] = sess'[job'[w].s]
    BY <1>4, <1>5, <1>6, <1>7, <1>8, <1>10 DEF Continue
  <1>11. QED
    BY <1>1, <1>2, <1>9, <1>10
    DEF Next, Tick, create, connectInfo, quickConnect, NewSession, vars, Workers

\* The other workers' snapshots survive a step; a reader's is fresh.
LEMMA SnapInvStep ==
  ASSUME IInv, [Next]_vars
  PROVE  SnapInv'
  <1>0. TypeOK /\ SnapInv /\ OneRow /\ TypeOK'
    BY NextOneRow, TypeStep DEF IInv
  <1>1. ASSUME NEW s \in Sessions
        PROVE  \/ SameVerdict(sess[s], sess'[s])
               \/ RANK(sess[s].status) < RANK(sess'[s].status)
    <2>1. CASE sess' = sess
      BY <2>1 DEF SameVerdict
    <2>2. ASSUME NEW x \in Sessions, NEW q \in Row, sess' = [sess EXCEPT ![x] = q],
                 RowStep(sess[x], q)
          PROVE  \/ SameVerdict(sess[s], sess'[s])
                 \/ RANK(sess[s].status) < RANK(sess'[s].status)
      <3>1. CASE s = x
        BY <1>0, <2>2, <3>1, RowStepFacts DEF TypeOK
      <3>2. CASE s # x
        BY <1>0, <2>2, <3>2 DEF TypeOK, SameVerdict
      <3>3. QED
        BY <3>1, <3>2
    <2>3. QED
      BY <1>0, <2>1, <2>2 DEF OneRow
  <1>2. ASSUME NEW w \in Workers, pc[w] = "commit", UNCHANGED <<snap[w], job[w]>>
        PROVE  \/ SameVerdict(snap[w], sess[job[w].s])'
               \/ (RANK(snap[w].status) < RANK(sess[job[w].s].status))'
    <2> DEFINE r == sess[job[w].s]
               q == sess'[job[w].s]
    <2>1. job[w].s \in Sessions /\ snap[w] \in Row /\ r \in Row /\ q \in Row
      BY <1>0, <1>2 DEF TypeOK, Job
    <2>2. /\ RANK(snap[w].status) \in Int /\ RANK(r.status) \in Int
          /\ RANK(q.status) \in Int
      BY <2>1, RankFacts DEF Row
    <2>3. SameVerdict(r, q) \/ RANK(r.status) < RANK(q.status)
      BY <1>1, <2>1
    <2>4. SameVerdict(snap[w], r) \/ RANK(snap[w].status) < RANK(r.status)
      BY <1>0, <1>2 DEF SnapInv
    <2> HIDE DEF r, q
    <2>5. SameVerdict(snap[w], q) \/ RANK(snap[w].status) < RANK(q.status)
      BY <2>2, <2>3, <2>4 DEF SameVerdict
    <2>6. QED
      BY <1>2, <2>5 DEF q
  <1>3. ASSUME NEW w \in Workers, pc'[w] = "commit"
        PROVE  \/ pc[w] = "commit" /\ UNCHANGED <<snap[w], job[w]>>
               \/ snap'[w] = sess'[job'[w].s]
    BY <1>0, <1>3, SnapOrigin
  <1>4. QED
    BY <1>2, <1>3 DEF SnapInv, SameVerdict

\* The invariant holds in every reachable state.
THEOREM Inductive == Spec => []IInv
  <1>1. Init => IInv
    <2>1. Init => TypeOK
      BY RowConstants DEF Init, TypeOK, PCs, MAX_ATTEMPTS
    <2>2. Init => /\ \A s \in Sessions : OpenUntimed(sess[s])
                  /\ JobInv /\ SnapInv
      BY DEF Init, OpenUntimed, NoRow, JobInv, SnapInv
    <2>3. QED
      BY <2>1, <2>2 DEF IInv
  <1>2. IInv /\ [Next]_vars => IInv'
    <2> SUFFICES ASSUME IInv, [Next]_vars
                 PROVE  IInv'
      OBVIOUS
    <2>1. TypeOK'
      BY TypeStep DEF IInv
    <2>2. \A s \in Sessions : OpenUntimed(sess'[s])
      <3>1. OneRow
        BY NextOneRow
      <3>2. ASSUME NEW x \in Sessions, NEW q \in Row, sess' = [sess EXCEPT ![x] = q],
                   RowStep(sess[x], q)
            PROVE  \A s \in Sessions : OpenUntimed(sess'[s])
        <4>1. sess[x] \in Row /\ OpenUntimed(sess[x])
          BY DEF IInv, TypeOK
        <4>2. OpenUntimed(q)
          BY <3>2, <4>1, RowStepFacts
        <4>3. QED
          BY <3>2, <4>2 DEF IInv, TypeOK
      <3>3. QED
        BY <3>1, <3>2 DEF OneRow, IInv
    <2>3. JobInv' /\ SnapInv'
      BY JobInvStep, SnapInvStep
    <2>4. QED
      BY <2>1, <2>2, <2>3 DEF IInv, OpenUntimed
  <1>3. QED
    BY <1>1, <1>2, PTL DEF Spec

-----------------------------------------------------------------------------
(* What the invariant gives.                                               *)

\* A finished session cannot be changed in any column: not by a report that
\* was decided before it closed, not by a late heartbeat, not by a sweep.
THEOREM ClosedSessionsAreFinal == Spec => ClosedIsFinal
  <1>1. IInv /\ [Next]_vars =>
          [\A s \in Sessions : sess[s].status \in TERMINAL => sess'[s] = sess[s]]_vars
    <2> SUFFICES ASSUME IInv, [Next]_vars, NEW s \in Sessions, sess[s].status \in TERMINAL
                 PROVE  sess'[s] = sess[s]
      OBVIOUS
    <2>1. OneRow
      BY NextOneRow
    <2>2. ASSUME NEW x \in Sessions, NEW q \in Row, sess' = [sess EXCEPT ![x] = q],
                 RowStep(sess[x], q)
          PROVE  sess'[s] = sess[s]
      BY <2>2 DEF RowStep, IInv, TypeOK
    <2>3. QED
      BY <2>1, <2>2 DEF OneRow
  <1>2. QED
    BY <1>1, Inductive, PTL DEF Spec, ClosedIsFinal

\* A verdict depends on the columns SameVerdict compares, and on nothing else
\* of the snapshot.
LEMMA VerdictDepends ==
  ASSUME NEW snp \in Row, NEW ev \in Job, NEW row \in Row, SameVerdict(snp, row)
  PROVE  LET written == applySessionEvent(snp, ev, row)
             fresh   == applySessionEvent(row, ev, row)
         IN /\ Applied(snp, ev) <=> Applied(row, ev)
            /\ written.status = fresh.status
            /\ written.duration = fresh.duration
            /\ written.quality = fresh.quality
  <1> DEFINE written == applySessionEvent(snp, ev, row)
             fresh   == applySessionEvent(row, ev, row)
  <1>1. /\ row.status = snp.status /\ row.source = snp.source
        /\ row.createdAt = snp.createdAt /\ row.confirmedAt = snp.confirmedAt
    BY DEF SameVerdict
  <1>2. Applied(snp, ev) <=> Applied(row, ev)
    BY <1>1 DEF Applied, Applicable
  <1>3. CASE ~Applied(snp, ev)
    <2>1. ASSUME NEW sn \in Row, ~Applied(sn, ev)
          PROVE  /\ applySessionEvent(sn, ev, row).status = row.status
                 /\ applySessionEvent(sn, ev, row).duration = row.duration
                 /\ applySessionEvent(sn, ev, row).quality = row.quality
      BY <2>1 DEF applySessionEvent, UnappliedPatch, Row
    <2>2. QED
      BY <1>2, <1>3, <2>1
  <1>4. CASE Applied(snp, ev)
    <2>1. EventTime(snp, ev) = EventTime(row, ev)
      BY <1>1 DEF EventTime
    <2>2. /\ written = AppliedPatch(snp, ev, row)
          /\ fresh = AppliedPatch(row, ev, row)
      BY <1>2, <1>4 DEF applySessionEvent, Applied, HasPatch
    <2>3. \A x : end(snp, ev, x, row) = end(row, ev, x, row)
      BY <1>1, <2>1 DEF end
    <2>4. ASSUME NEW st \in TERMINAL, NEW x \in Qualities
          PROVE  /\ close(snp, ev, st, x, row).status = close(row, ev, st, x, row).status
                 /\ close(snp, ev, st, x, row).duration = close(row, ev, st, x, row).duration
                 /\ close(snp, ev, st, x, row).quality = close(row, ev, st, x, row).quality
      BY DEF close, Row
    <2>5. ev.type \in EventTypes
      BY DEF Job
    <2>6. CASE ev.type \in ForwardTypes
      <3>1. written = forward(snp, ev, row) /\ fresh = forward(row, ev, row)
        BY <2>2, <2>6 DEF AppliedPatch, ForwardTypes
      <3>2. QED
        BY <1>2, <3>1 DEF forward, Row
    <2>7. CASE ev.type \in {"client_launch_failed", "technician_failed"}
      <3>1. written = fail(snp, ev, row) /\ fresh = fail(row, ev, row)
        BY <2>2, <2>7 DEF AppliedPatch, ForwardTypes
      <3>2. QED
        BY <1>1, <1>2, <2>3, <2>4, <3>1 DEF fail, TERMINAL, Qualities
    <2>8. CASE ev.type = "disconnected"
      BY <1>2, <2>2, <2>3, <2>8 DEF AppliedPatch, ForwardTypes
    <2>9. CASE ev.type \in {"technician_completed", "technician_canceled"}
      BY <1>1, <1>2, <2>2, <2>3, <2>4, <2>9
      DEF AppliedPatch, ForwardTypes, TERMINAL, Qualities
    <2>10. CASE ev.type \in {"timeout_unknown", "timeout_ended"}
      <3>1. PICK st, x, a, b :
              /\ written = closeByTimeout(ev, st, a, x, row)
              /\ fresh = closeByTimeout(ev, st, b, x, row)
        BY <2>2, <2>10 DEF AppliedPatch, ForwardTypes
      <3>2. QED
        BY <1>2, <3>1 DEF closeByTimeout, Row
    <2>11. QED
      BY <2>5, <2>6, <2>7, <2>8, <2>9, <2>10 DEF EventTypes, ForwardTypes
  <1>5. QED
    BY <1>2, <1>3, <1>4

\* The optimistic check of record() on status and statusChangedAt is enough:
\* whenever it lets a write through, the verdict written is the one the row
\* as it is now would get.  It rests on SnapInv: with the status unmoved, no
\* column the verdict depends on has moved.
THEOREM DecisionsAreCurrent == Spec => []CommittedDecisionIsCurrent
  <1>1. IInv => CommittedDecisionIsCurrent
    <2> SUFFICES ASSUME IInv, NEW w \in Workers, pc[w] = "commit", Unmoved(w)
                 PROVE  LET row     == sess[job[w].s]
                            written == applySessionEvent(snap[w], job[w], row)
                            fresh   == applySessionEvent(row, job[w], row)
                        IN /\ Applied(snap[w], job[w]) <=> Applied(row, job[w])
                           /\ written.status = fresh.status
                           /\ written.duration = fresh.duration
                           /\ written.quality = fresh.quality
      BY DEF CommittedDecisionIsCurrent
    <2>1. job[w] \in Job /\ snap[w] \in Row /\ sess[job[w].s] \in Row
      BY DEF IInv, TypeOK, Job
    <2>2. sess[job[w].s].status = snap[w].status
      BY DEF Unmoved
    <2>3. RANK(snap[w].status) \in Int
      BY <2>1, RankFacts DEF Row
    <2>4. SameVerdict(snap[w], sess[job[w].s])
      BY <2>2, <2>3 DEF IInv, SnapInv
    <2>5. QED
      BY <2>1, <2>4, VerdictDepends
  <1>2. QED
    BY <1>1, Inductive, PTL

-----------------------------------------------------------------------------
(* Refinement.                                                             *)

\* A RowStep of a session that exists is a step of its lifecycle.
LEMMA StageStep ==
  ASSUME NEW r \in Row, NEW q \in Row, RowStep(r, q), OpenUntimed(r),
         r.status # "ABSENT"
  PROVE  \/ StageOf(q) = StageOf(r) /\ (q.duration = NoTime <=> r.duration = NoTime)
         \/ /\ StageOf(r) = "launched" /\ q.duration = NoTime
            /\ StageOf(q) \in Lifecycle!Closed \cup {"confirmed"}
         \/ StageOf(r) = "confirmed" /\ StageOf(q) = "completed"
         \/ StageOf(r) = "confirmed" /\ StageOf(q) = "canceled" /\ q.duration = NoTime
  <1>1. CASE q = r
    BY <1>1
  <1>2. CASE SameVerdict(r, q)
    BY <1>2 DEF SameVerdict, StageOf
  <1>3. CASE Advance(r, q) /\ r.status \notin TERMINAL
    <2>1. r.status \in Statuses /\ q.status \in Statuses /\ r.duration = NoTime
      BY <1>3 DEF Row, OpenUntimed
    <2>2. CASE r.status = "SESSION_STARTED"
      BY <1>3, <2>2 DEF Advance, StageOf
    <2>3. CASE r.status # "SESSION_STARTED"
      BY <1>3, <2>1, <2>3
      DEF Advance, StageOf, RANK, Statuses, OPEN_STATUSES, PRE_CLIENT_STATUSES,
          TERMINAL, Lifecycle!Closed
    <2>4. QED
      BY <2>2, <2>3
  <1>4. QED
    BY <1>1, <1>2, <1>3 DEF RowStep

\* The handlers, sweeps and heartbeats, in any interleaving, implement the
\* one-step-at-a-time lifecycle of SessionLifecycle.
THEOREM Refinement == Spec => ImplementsLifecycle
  <1>1. Init => Lifecycle!Init
    BY DEF Init, Lifecycle!Init, NoRow, StageOf
  <1>2. IInv /\ [Next]_vars => [Lifecycle!Next]_(Lifecycle!vars)
    <2> SUFFICES ASSUME IInv, [Next]_vars
                 PROVE  [Lifecycle!Next]_(Lifecycle!vars)
      OBVIOUS
    <2> DEFINE stage    == [s \in Sessions |-> StageOf(sess[s])]
               measured == {s \in Sessions : sess[s].duration # NoTime}
    <2>1. OneRow
      BY NextOneRow
    <2>2. CASE sess' = sess
      BY <2>2 DEF Lifecycle!vars
    <2>3. ASSUME NEW x \in Sessions, NEW q \in Row, sess' = [sess EXCEPT ![x] = q],
                 RowStep(sess[x], q),
                 \/ Exists(x)
                 \/ q.status \in {"PENDING", "LAUNCH_REQUESTED"} /\ q.duration = NoTime
          PROVE  [Lifecycle!Next]_(Lifecycle!vars)
      <3> DEFINE r == sess[x]
      <3>1. r \in Row /\ OpenUntimed(r)
        BY DEF IInv, TypeOK
      <3>2. stage' = [stage EXCEPT ![x] = StageOf(q)]
        BY <2>3 DEF IInv, TypeOK
      <3>3. /\ q.duration = NoTime => measured' = measured \ {x}
            /\ q.duration # NoTime => measured' = measured \cup {x}
            /\ x \in measured <=> r.duration # NoTime
        BY <2>3 DEF IInv, TypeOK
      <3>4. stage[x] = StageOf(r)
        OBVIOUS
      <3>5. stage = [stage EXCEPT ![x] = stage[x]]
        OBVIOUS
      <3>6. CASE ~Exists(x)
        <4>1. r.status = "ABSENT" /\ q.status \in {"PENDING", "LAUNCH_REQUESTED"}
              /\ q.duration = NoTime
          BY <2>3, <3>6 DEF Exists
        <4>2. r.duration = NoTime /\ StageOf(r) = "absent" /\ StageOf(q) = "launched"
          BY <3>1, <4>1 DEF OpenUntimed, TERMINAL, StageOf
        <4> HIDE DEF stage, measured
        <4>3. stage[x] = "absent" /\ stage' = [stage EXCEPT ![x] = "launched"]
              /\ measured' = measured
          BY <3>2, <3>3, <3>4, <4>1, <4>2
        <4>4. Lifecycle!Launch(x)
          BY <4>3 DEF Lifecycle!Launch, stage, measured
        <4>5. QED
          BY <4>4 DEF Lifecycle!Next
      <3>7. CASE Exists(x)
        <4>1. CASE StageOf(q) = StageOf(r) /\ (q.duration = NoTime <=> r.duration = NoTime)
          <5> HIDE DEF stage, measured
          <5>1. stage' = stage /\ measured' = measured
            BY <3>2, <3>3, <3>4, <3>5, <4>1
          <5>2. QED
            BY <5>1 DEF Lifecycle!vars, stage, measured
        <4>2. CASE /\ StageOf(r) = "launched" /\ q.duration = NoTime
                   /\ StageOf(q) \in Lifecycle!Closed \cup {"confirmed"}
          <5>1. r.duration = NoTime
            BY <3>1, <4>2 DEF OpenUntimed, TERMINAL, StageOf
          <5> HIDE DEF stage, measured
          <5>2. stage[x] = "launched" /\ stage' = [stage EXCEPT ![x] = StageOf(q)]
                /\ measured' = measured
            BY <3>2, <3>3, <3>4, <4>2, <5>1
          <5>3. Lifecycle!Confirm(x) \/ \E v \in Lifecycle!Closed : Lifecycle!GiveUp(x, v)
            BY <4>2, <5>2 DEF Lifecycle!Confirm, Lifecycle!GiveUp, stage, measured
          <5>4. QED
            BY <5>3 DEF Lifecycle!Next
        <4>3. CASE StageOf(r) = "confirmed" /\ StageOf(q) = "completed"
          <5>1. r.duration = NoTime
            BY <3>1, <4>3 DEF OpenUntimed, TERMINAL, StageOf
          <5> HIDE DEF stage, measured
          <5>2. stage[x] = "confirmed" /\ stage' = [stage EXCEPT ![x] = "completed"]
                /\ measured' \in {measured, measured \cup {x}}
            BY <3>2, <3>3, <3>4, <4>3, <5>1
          <5>3. Lifecycle!End(x)
            BY <5>2 DEF Lifecycle!End, stage, measured
          <5>4. QED
            BY <5>3 DEF Lifecycle!Next
        <4>4. CASE /\ StageOf(r) = "confirmed" /\ StageOf(q) = "canceled"
                   /\ q.duration = NoTime
          <5>1. r.duration = NoTime
            BY <3>1, <4>4 DEF OpenUntimed, TERMINAL, StageOf
          <5> HIDE DEF stage, measured
          <5>2. stage[x] = "confirmed" /\ stage' = [stage EXCEPT ![x] = "canceled"]
                /\ measured' = measured
            BY <3>2, <3>3, <3>4, <4>4, <5>1
          <5>3. Lifecycle!Abort(x)
            BY <5>2 DEF Lifecycle!Abort, stage, measured
          <5>4. QED
            BY <5>3 DEF Lifecycle!Next
        <4>5. QED
          BY <2>3, <3>1, <3>7, <4>1, <4>2, <4>3, <4>4, StageStep DEF Exists
      <3>8. QED
        BY <3>6, <3>7
    <2>4. QED
      BY <2>1, <2>2, <2>3 DEF OneRow
  <1>3. QED
    BY <1>1, <1>2, Inductive, PTL DEF Spec, ImplementsLifecycle, Lifecycle!Spec

-----------------------------------------------------------------------------
(* The timeline.                                                           *)

\* An applied event that closed its session, and one that moved it forward.
Closes(e) == e.applied /\ e.type \notin ForwardTypes
Moves(e)  == e.applied /\ e.type \in ForwardTypes

\* What the event rows of one session say about its row.
Story(row, evs) ==
  /\ row.status \in TERMINAL => \E e \in evs : Closes(e)
  /\ \A e \in evs : Closes(e) => row.status \in TERMINAL /\ e.source = row.source
  /\ \A e, f \in evs : Closes(e) /\ Closes(f) => e = f
  /\ row.status \in OPEN_STATUSES \ {"PENDING"} =>
       \E e \in evs : Moves(e) /\ ForwardTarget(e.type) = row.status
  /\ row.status \in OPEN_STATUSES =>
       \A e \in evs : Moves(e) => RANK(ForwardTarget(e.type)) <= RANK(row.status)

FromAgent(evs, type) ==
  \E e \in evs : e.applied /\ e.type = type /\ e.source = "endpoint_agent"

\* Where a duration comes from.  The last conjunct remembers, for as long as
\* the connection lasts, who confirmed it.
Timed(row, evs) ==
  /\ row.quality = "MEASURED" <=> row.duration # NoTime
  /\ row.duration # NoTime =>
       /\ FromAgent(evs, "connection_confirmed") /\ FromAgent(evs, "disconnected")
       /\ row.endedAt = row.confirmedAt + row.duration
  /\ row.status = "SESSION_STARTED" /\ row.source = "endpoint_agent" =>
       FromAgent(evs, "connection_confirmed")

\* The event row record() stores with a decision.
Stored(snp, ev) == [key |-> ev.key, type |-> ev.type, source |-> ev.source,
                    applied |-> Applied(snp, ev)]

\* A row that differs only in columns the timeline does not explain.
SameStory(r, q) == SameVerdict(r, q) /\ q.endedAt = r.endedAt

\* Every status is absent, open or closed.
LEMMA StatusKinds ==
  /\ Statuses = OPEN_STATUSES \cup TERMINAL \cup {"ABSENT"}
  /\ OPEN_STATUSES \cap TERMINAL = {}
  /\ "ABSENT" \notin OPEN_STATUSES \cup TERMINAL
  BY DEF Statuses, OPEN_STATUSES, PRE_CLIENT_STATUSES, TERMINAL

\* A forward event leads to an open status of a rank of its own.
LEMMA Targets ==
  /\ \A t \in ForwardTypes : ForwardTarget(t) \in OPEN_STATUSES \ {"PENDING"}
  /\ \A t \in ForwardTypes : ForwardTarget(t) = "SESSION_STARTED" <=>
                               t = "connection_confirmed"
  BY DEF ForwardTypes, ForwardTarget, OPEN_STATUSES, PRE_CLIENT_STATUSES

\* What an event that does not apply writes: nothing a verdict or the
\* timeline depends on.
LEMMA UnappliedKeeps ==
  ASSUME NEW snp \in Row, NEW ev \in Job, NEW row \in Row, ~Applied(snp, ev)
  PROVE  SameStory(row, applySessionEvent(snp, ev, row))
  BY DEF applySessionEvent, UnappliedPatch, SameStory, SameVerdict, Row

\* What an applied progress event writes.
LEMMA AppliedForward ==
  ASSUME NEW snp \in Row, NEW ev \in Job, NEW row \in Row, Applied(snp, ev),
         ev.type \in ForwardTypes
  PROVE  LET q == applySessionEvent(snp, ev, row)
         IN /\ q.status = ForwardTarget(ev.type) /\ q.source = ev.source
            /\ q.duration = row.duration
            /\ q.quality = row.quality \/ q.quality \in {"UNKNOWN", "REPORTED"}
            /\ RANK(snp.status) < RANK(q.status)
            /\ snp.status # "SESSION_STARTED" /\ snp.status \notin TERMINAL
  <1> DEFINE q == applySessionEvent(snp, ev, row)
  <1>1. q = forward(snp, ev, row)
    BY DEF applySessionEvent, Applied, HasPatch, AppliedPatch, ForwardTypes
  <1>2. /\ q.status = ForwardTarget(ev.type) /\ q.source = ev.source
        /\ q.duration = row.duration
        /\ q.quality = row.quality \/ q.quality \in {"UNKNOWN", "REPORTED"}
    BY <1>1 DEF forward, Row
  <1>3. RANK(ForwardTarget(ev.type)) > RANK(snp.status)
    BY DEF Applied, Applicable, ForwardTypes
  <1>4. snp.status # "SESSION_STARTED"
    BY <1>3 DEF RANK, ForwardTarget
  <1>5. snp.status \in Statuses /\ ForwardTarget(ev.type) \in Statuses
    BY Targets, StatusKinds DEF Row
  <1>6. RANK(snp.status) \in Int /\ RANK(ForwardTarget(ev.type)) \in Int
    BY <1>5, RankFacts
  <1>7. QED
    BY <1>2, <1>3, <1>4, <1>6 DEF Applied

\* What an applied closing event writes on a row whose verdict columns are
\* those that were read: a duration only when the agent saw both ends.
LEMMA AppliedClose ==
  ASSUME NEW snp \in Row, NEW ev \in Job, NEW row \in Row, Applied(snp, ev),
         SameVerdict(snp, row), ev.type \notin ForwardTypes
  PROVE  LET q == applySessionEvent(snp, ev, row)
         IN /\ q.status \in TERMINAL /\ q.source = ev.source
            /\ q.quality = "MEASURED" <=> q.duration # NoTime
            /\ q.duration # NoTime =>
                 /\ ev.type = "disconnected" /\ ev.source = "endpoint_agent"
                 /\ row.status = "SESSION_STARTED" /\ row.source = "endpoint_agent"
                 /\ q.endedAt = q.confirmedAt + q.duration
  <1> DEFINE q == applySessionEvent(snp, ev, row)
  <1>1. /\ q = AppliedPatch(snp, ev, row) /\ ev.type \in EventTypes
        /\ ev.source \in ALLOWED_SOURCES(ev.type)
        /\ row.source = snp.source /\ row.confirmedAt = snp.confirmedAt
        /\ row.status = snp.status
    BY DEF applySessionEvent, Applied, HasPatch, Job, SameVerdict
  <1>2. \A x \in Qualities, st \in TERMINAL :
          /\ close(snp, ev, st, x, row).status = st
          /\ close(snp, ev, st, x, row).source = ev.source
          /\ close(snp, ev, st, x, row).duration = NoTime
          /\ close(snp, ev, st, x, row).quality = x
    BY DEF close, Row
  <1>3. \A x \in Qualities :
          /\ end(snp, ev, x, row).status = "SESSION_COMPLETED"
          /\ end(snp, ev, x, row).source = ev.source
          /\ x # "MEASURED" => /\ end(snp, ev, x, row).duration = NoTime
                               /\ end(snp, ev, x, row).quality = x
    BY DEF end, Row
  <1>4. CASE ev.type = "disconnected"
    <2> DEFINE start == snp.confirmedAt
               endAt == Later(EventTime(snp, ev), start)
    <2>1. q = end(snp, ev, "MEASURED", row) /\ snp.status = "SESSION_STARTED"
      BY <1>1, <1>4 DEF AppliedPatch, ForwardTypes, Applied, Applicable
    <2>2. start \in Time /\ endAt \in Time
      BY EventTimeType DEF Row
    <2>3. ev.source = "endpoint_agent"
      BY <1>1, <1>4 DEF ALLOWED_SOURCES
    <2>4. CASE snp.source = "endpoint_agent" /\ start # NoTime
      <3>1. /\ q.duration = endAt - start /\ q.quality = "MEASURED"
            /\ q.endedAt = endAt /\ q.confirmedAt = start
        BY <1>1, <2>1, <2>4 DEF end, Row
      <3>2. endAt >= start
        BY <2>2, EventTimeType DEF Later, Time, NoTime
      <3> HIDE DEF endAt, start, q
      <3>3. q.duration # NoTime /\ q.endedAt = q.confirmedAt + q.duration
        BY <2>2, <2>4, <3>1, <3>2 DEF Time, NoTime
      <3>4. q.status \in TERMINAL /\ q.source = ev.source
        BY <1>3, <2>1 DEF TERMINAL, Qualities, q
      <3>5. QED
        BY <1>1, <1>4, <2>1, <2>3, <2>4, <3>1, <3>3, <3>4 DEF q
    <2>5. CASE ~(snp.source = "endpoint_agent" /\ start # NoTime)
      <3>1. q.duration = NoTime /\ q.quality = "REPORTED"
        BY <2>1, <2>5 DEF end, Row
      <3>2. q.status \in TERMINAL /\ q.source = ev.source
        BY <1>3, <2>1 DEF TERMINAL, Qualities
      <3>3. QED
        BY <3>1, <3>2
    <2>6. QED
      BY <2>4, <2>5
  <1>5. CASE ev.type \in {"timeout_unknown", "timeout_ended"}
    <2>1. ev.source = "timeout"
      BY <1>1, <1>5 DEF ALLOWED_SOURCES
    <2>2. PICK st, x, t : /\ st \in TERMINAL /\ x \in Qualities \ {"MEASURED"}
                          /\ q = closeByTimeout(ev, st, t, x, row)
      BY <1>1, <1>5 DEF AppliedPatch, ForwardTypes, TERMINAL, Qualities
    <2>3. /\ closeByTimeout(ev, st, t, x, row).status = st
          /\ closeByTimeout(ev, st, t, x, row).source = "timeout"
          /\ closeByTimeout(ev, st, t, x, row).duration = NoTime
          /\ closeByTimeout(ev, st, t, x, row).quality = x
      BY DEF closeByTimeout, Row
    <2>4. QED
      BY <2>1, <2>2, <2>3
  <1>6. CASE ev.type \notin {"disconnected", "timeout_unknown", "timeout_ended"}
    <2>1. \/ \E x \in Qualities \ {"MEASURED"} : q = end(snp, ev, x, row)
          \/ \E x \in Qualities \ {"MEASURED"}, st \in TERMINAL :
               q = close(snp, ev, st, x, row)
      <3>1. CASE ev.type \in {"client_launch_failed", "technician_failed"}
        BY <1>1, <3>1 DEF AppliedPatch, ForwardTypes, fail, Qualities, TERMINAL
      <3>2. CASE ev.type = "technician_completed"
        BY <1>1, <3>2 DEF AppliedPatch, ForwardTypes, Qualities, TERMINAL
      <3>3. CASE ev.type = "technician_canceled"
        BY <1>1, <3>3 DEF AppliedPatch, ForwardTypes, Qualities, TERMINAL
      <3>4. QED
        BY <1>1, <1>6, <3>1, <3>2, <3>3 DEF EventTypes, ForwardTypes
    <2>2. QED
      BY <1>2, <1>3, <2>1 DEF TERMINAL
  <1>7. QED
    BY <1>4, <1>5, <1>6

\* Columns the timeline does not explain, and rows that changed nothing, do
\* not disturb it.
LEMMA StoryKept ==
  ASSUME NEW r \in Row, NEW q \in Row, NEW evs, NEW e, SameStory(r, q), ~e.applied,
         Story(r, evs), Timed(r, evs)
  PROVE  /\ Story(q, evs) /\ Timed(q, evs)
         /\ Story(q, evs \cup {e}) /\ Timed(q, evs \cup {e})
  <1>1. /\ q.status = r.status /\ q.source = r.source /\ q.confirmedAt = r.confirmedAt
        /\ q.duration = r.duration /\ q.quality = r.quality /\ q.endedAt = r.endedAt
    BY DEF SameStory, SameVerdict
  <1>2. Story(q, evs) /\ Timed(q, evs)
    BY <1>1 DEF Story, Timed
  <1>3. ~Closes(e) /\ ~Moves(e)
    BY DEF Closes, Moves
  <1>4. Story(q, evs \cup {e})
    BY <1>2, <1>3 DEF Story
  <1>5. \A type : FromAgent(evs, type) => FromAgent(evs \cup {e}, type)
    BY DEF FromAgent
  <1>6. Timed(q, evs \cup {e})
    BY <1>2, <1>5 DEF Timed
  <1>7. QED
    BY <1>2, <1>4, <1>6

\* A decision and the event row stored with it keep the story straight.
LEMMA StoryCommit ==
  ASSUME NEW snp \in Row, NEW ev \in Job, NEW row \in Row, NEW evs,
         HasPatch(snp, ev) => SameVerdict(snp, row),
         row.status # "ABSENT", OpenUntimed(row),
         Story(row, evs), Timed(row, evs)
  PROVE  LET q == applySessionEvent(snp, ev, row)
         IN  Story(q, evs \cup {Stored(snp, ev)}) /\ Timed(q, evs \cup {Stored(snp, ev)})
  <1> DEFINE q == applySessionEvent(snp, ev, row)
             e == Stored(snp, ev)
             all == evs \cup {e}
  <1> SUFFICES Story(q, all) /\ Timed(q, all)
    OBVIOUS
  <1>1. /\ q \in Row /\ e.type = ev.type /\ e.source = ev.source
        /\ e.applied = Applied(snp, ev)
    BY ApplyType DEF Stored
  <1>2. CASE ~Applied(snp, ev)
    <2>1. SameStory(row, q)
      BY <1>2, UnappliedKeeps
    <2> HIDE DEF q, e
    <2>2. QED
      BY <1>1, <1>2, <2>1, StoryKept
  <1>3. CASE Applied(snp, ev)
    <2>1. HasPatch(snp, ev) /\ SameVerdict(snp, row)
      BY <1>3 DEF Applied, HasPatch
    <2>2. /\ row.status = snp.status /\ row.status \notin TERMINAL
          /\ row.status \in OPEN_STATUSES /\ row.duration = NoTime
          /\ row.quality # "MEASURED"
      BY <1>3, <2>1, StatusKinds DEF Applied, SameVerdict, Row, OpenUntimed, Timed
    <2>3. \A f \in evs : ~Closes(f)
      BY <2>2 DEF Story
    <2>4. \A type : FromAgent(evs, type) => FromAgent(all, type)
      BY DEF FromAgent
    <2>5. CASE ev.type \in ForwardTypes
      <3>1. /\ q.status = ForwardTarget(ev.type) /\ q.source = ev.source
            /\ q.duration = row.duration
            /\ q.quality = row.quality \/ q.quality \in {"UNKNOWN", "REPORTED"}
            /\ RANK(snp.status) < RANK(q.status)
        BY <1>3, <2>5, AppliedForward
      <3>2. /\ q.status \in OPEN_STATUSES \ {"PENDING"} /\ q.status \notin TERMINAL
            /\ q.status = "SESSION_STARTED" <=> ev.type = "connection_confirmed"
        BY <2>5, <3>1, Targets, StatusKinds
      <3> HIDE DEF q
      <3>3. Moves(e) /\ ~Closes(e)
        BY <1>1, <1>3, <2>5 DEF Moves, Closes
      <3>4. \A f \in evs : Moves(f) => RANK(ForwardTarget(f.type)) <= RANK(q.status)
        <4>1. ASSUME NEW f \in evs, Moves(f)
              PROVE  RANK(ForwardTarget(f.type)) <= RANK(q.status)
          <5>1. RANK(ForwardTarget(f.type)) <= RANK(row.status)
            BY <2>2, <4>1 DEF Story
          <5>2. /\ ForwardTarget(f.type) \in Statuses /\ row.status \in Statuses
                /\ q.status \in Statuses
            BY <1>1, <4>1, Targets, StatusKinds DEF Moves, Row
          <5>3. /\ RANK(ForwardTarget(f.type)) \in Int /\ RANK(row.status) \in Int
                /\ RANK(q.status) \in Int
            BY <5>2, RankFacts
          <5>4. QED
            BY <2>2, <3>1, <5>1, <5>3
        <4>2. QED
          BY <4>1
      <3>5. RANK(ForwardTarget(e.type)) <= RANK(q.status) /\ ForwardTarget(e.type) = q.status
        <4>1. RANK(q.status) \in Int
          BY <1>1, RankFacts DEF Row
        <4>2. QED
          BY <1>1, <3>1, <4>1
      <3> HIDE DEF e
      <3>6. Story(q, all)
        BY <2>3, <3>2, <3>3, <3>4, <3>5 DEF Story
      <3>7. q.status = "SESSION_STARTED" /\ q.source = "endpoint_agent" =>
              FromAgent(all, "connection_confirmed")
        BY <1>1, <1>3, <3>1, <3>2 DEF FromAgent
      <3>8. Timed(q, all)
        BY <2>2, <3>1, <3>7 DEF Timed
      <3>9. QED
        BY <3>6, <3>8
    <2>6. CASE ev.type \notin ForwardTypes
      <3>1. /\ q.status \in TERMINAL /\ q.source = ev.source
            /\ q.quality = "MEASURED" <=> q.duration # NoTime
            /\ q.duration # NoTime =>
                 /\ ev.type = "disconnected" /\ ev.source = "endpoint_agent"
                 /\ row.status = "SESSION_STARTED" /\ row.source = "endpoint_agent"
                 /\ q.endedAt = q.confirmedAt + q.duration
        BY <1>3, <2>1, <2>6, AppliedClose
      <3> HIDE DEF q
      <3>2. Closes(e)
        BY <1>1, <1>3, <2>6 DEF Closes
      <3>3. q.status \notin OPEN_STATUSES /\ q.status # "SESSION_STARTED"
        BY <3>1, StatusKinds DEF OPEN_STATUSES
      <3> HIDE DEF e
      <3>4. Story(q, all)
        BY <1>1, <2>3, <3>1, <3>2, <3>3 DEF Story
      <3>5. q.duration # NoTime =>
              FromAgent(all, "connection_confirmed") /\ FromAgent(all, "disconnected")
        <4>1. q.duration # NoTime => FromAgent(evs, "connection_confirmed")
          BY <3>1 DEF Timed
        <4>2. ev.type = "disconnected" /\ ev.source = "endpoint_agent" =>
                FromAgent(all, "disconnected")
          BY <1>1, <1>3 DEF FromAgent
        <4>3. QED
          BY <2>4, <3>1, <4>1, <4>2
      <3>6. Timed(q, all)
        BY <3>1, <3>3, <3>5 DEF Timed
      <3>7. QED
        BY <3>4, <3>6
    <2>7. QED
      BY <2>5, <2>6
  <1>4. QED
    BY <1>2, <1>3

-----------------------------------------------------------------------------
(* What a step does to a row and its timeline together.                    *)

\* A session is created with its first event row, or without one.
Creates(s) ==
  /\ ~Exists(s)
  /\ \E q \in Row, rows \in SUBSET {LaunchEvent} :
       /\ sess' = [sess EXCEPT ![s] = q]
       /\ events' = [events EXCEPT ![s] = rows]
       /\ \/ q.status = "PENDING" /\ rows = {}
          \/ q.status = "LAUNCH_REQUESTED" /\ rows = {LaunchEvent}
       /\ q.source # "endpoint_agent" /\ q.duration = NoTime /\ q.quality = "UNKNOWN"
       /\ q.createdAt \in Nat

\* A sign of life.
Touches(s) ==
  /\ sess[s].status = "SESSION_STARTED"
  /\ \E t \in Nat : sess' = [sess EXCEPT ![s].signalAt = t]
  /\ UNCHANGED events

\* An observation that could not be attributed.
Observes(s) ==
  /\ UNCHANGED sess
  /\ \E t \in Nat :
       events' = [events EXCEPT ![s] = @ \cup
                   {[key |-> <<"agent:ambiguous", t>>,
                     type |-> "connection_observed_ambiguous",
                     source |-> "endpoint_agent", applied |-> FALSE]}]

\* Every step writes the row and the timeline of one session, in one of four
\* ways, or of none.
LEMMA NextTables ==
  ASSUME TypeOK, [Next]_vars
  PROVE  \/ UNCHANGED <<sess, events>>
         \/ \E s \in Sessions : Creates(s) \/ Touches(s) \/ Observes(s)
         \/ \E w \in Workers : CommitWrite(w)
  <1> DEFINE Goal == \/ UNCHANGED <<sess, events>>
                     \/ \E s \in Sessions : Creates(s) \/ Touches(s) \/ Observes(s)
                     \/ \E w \in Workers : CommitWrite(w)
  <1> SUFFICES Goal
    OBVIOUS
  <1>1. ASSUME NEW s \in Sessions, create(s)
        PROVE  Creates(s)
    <2> DEFINE q == [NoRow EXCEPT !.status = "PENDING", !.createdAt = now]
    <2>1. now \in Nat /\ now \in Time /\ NoRow \in Row
      BY RowConstants DEF TypeOK, Time
    <2>2. q \in Row
      BY <2>1, ColumnType
    <2>3. /\ q.status = "PENDING" /\ q.source # "endpoint_agent" /\ q.duration = NoTime
          /\ q.quality = "UNKNOWN" /\ q.createdAt \in Nat
      BY <2>1 DEF NoRow
    <2>4. NewSession(s, q, {})
      BY <1>1 DEF create
    <2> HIDE DEF q
    <2>5. /\ ~Exists(s) /\ {} \in SUBSET {LaunchEvent}
          /\ sess' = [sess EXCEPT ![s] = q]
          /\ events' = [events EXCEPT ![s] = {}]
      BY <2>4 DEF NewSession
    <2>6. QED
      BY <2>2, <2>3, <2>5, Zenon DEF Creates
  <1>2. ASSUME NEW s \in Sessions, NEW a \in BOOLEAN,
               NewSession(s, LaunchRow(a), {LaunchEvent})
        PROVE  Creates(s)
    <2> DEFINE q == LaunchRow(a)
    <2>1. now \in Nat
      BY DEF TypeOK
    <2>2. q \in Row
      BY <2>1, RowConstants
    <2>3. /\ q.status = "LAUNCH_REQUESTED" /\ q.source # "endpoint_agent"
          /\ q.duration = NoTime /\ q.quality = "UNKNOWN" /\ q.createdAt \in Nat
      BY <2>1 DEF LaunchRow, NoRow
    <2>4. NewSession(s, q, {LaunchEvent})
      BY <1>2
    <2> HIDE DEF q
    <2>5. QED
      BY <2>2, <2>3, <2>4 DEF NewSession, Creates
  <1>3. ASSUME NEW w \in Workers, NEW s \in touch[w], Touch(w, s)
        PROVE  Goal
    <2>1. s \in Sessions /\ obs[w] \in Nat
      BY DEF TypeOK
    <2>2. CASE sess[s].status = "SESSION_STARTED"
      <3>1. sess' = [sess EXCEPT ![s].signalAt = obs[w]] /\ UNCHANGED events
        BY <1>3, <2>2 DEF Touch
      <3>2. QED
        BY <2>1, <2>2, <3>1 DEF Touches
    <2>3. CASE sess[s].status # "SESSION_STARTED"
      BY <1>3, <2>3 DEF Touch
    <2>4. QED
      BY <2>2, <2>3
  <1>4. ASSUME NEW w \in Workers, NEW s \in unclear[w], Ambiguous(w, s)
        PROVE  Goal
    <2>1. s \in Sessions /\ obs[w] \in Nat
      BY DEF TypeOK
    <2>2. QED
      BY <1>4, <2>1 DEF Ambiguous, Observes
  <1>5. ASSUME NEW w \in Workers, Request(w)
        PROVE  UNCHANGED <<sess, events>>
    BY <1>5 DEF Request, technicianReport, quickConnectEnd, recordScriptTelemetry,
       launcherRedeemed, StartRecord, reconcileEndpointSignal, database
  <1>6. ASSUME NEW w \in Workers, Continue(w)
        PROVE  Goal
    BY <1>3, <1>4, <1>6
    DEF Continue, Read, CommitDuplicate, CommitStale, SaveNotes, BatchDone,
        expireOpened, NextCall, database
  <1>7. QED
    BY <1>1, <1>2, <1>5, <1>6
    DEF Next, Tick, connectInfo, quickConnect, expireStaleSessions,
        closeAbandonedSessions, vars, database, Workers

\* What a conditional write of record() rests on: the session exists, and a
\* patch is only ever written over the verdict that was read.
LEMMA CommitFacts ==
  ASSUME IInv, NEW w \in Workers, CommitWrite(w)
  PROVE  /\ job[w] \in Job /\ job[w].s \in Sessions
         /\ snap[w] \in Row /\ sess[job[w].s] \in Row
         /\ Exists(job[w].s) /\ OpenUntimed(sess[job[w].s])
         /\ HasPatch(snap[w], job[w]) => SameVerdict(snap[w], sess[job[w].s])
         /\ sess' = [sess EXCEPT ![job[w].s] =
                       applySessionEvent(snap[w], job[w], sess[job[w].s])]
         /\ events' = [events EXCEPT ![job[w].s] = @ \cup {Stored(snap[w], job[w])}]
  <1>1. /\ job[w] \in Job /\ job[w].s \in Sessions
        /\ snap[w] \in Row /\ sess[job[w].s] \in Row
    BY DEF CommitWrite, IInv, TypeOK, Job
  <1>2. Exists(job[w].s) /\ OpenUntimed(sess[job[w].s])
    BY <1>1 DEF CommitWrite, IInv, JobInv
  <1>3. ASSUME HasPatch(snap[w], job[w])
        PROVE  SameVerdict(snap[w], sess[job[w].s])
    <2>1. sess[job[w].s].status = snap[w].status
      BY <1>3 DEF CommitWrite, Unmoved
    <2>2. RANK(snap[w].status) \in Int
      BY <1>1, RankFacts DEF Row
    <2>3. QED
      BY <2>1, <2>2 DEF CommitWrite, IInv, SnapInv
  <1>4. QED
    BY <1>1, <1>2, <1>3 DEF CommitWrite, Stored

-----------------------------------------------------------------------------
(* The timeline explains the status and the duration.                      *)

Records == \A s \in Sessions : Story(sess[s], events[s]) /\ Timed(sess[s], events[s])

LEMMA RecordsStep ==
  ASSUME IInv, Records, [Next]_vars
  PROVE  Records'
  <1>0. TypeOK /\ TypeOK'
    BY TypeStep DEF IInv
  <1> SUFFICES ASSUME NEW s \in Sessions
               PROVE  Story(sess'[s], events'[s]) /\ Timed(sess'[s], events'[s])
    BY DEF Records, Story, Timed, FromAgent
  <1>1. Story(sess[s], events[s]) /\ Timed(sess[s], events[s]) /\ sess[s] \in Row
    BY <1>0 DEF Records, TypeOK
  <1>2. CASE sess'[s] = sess[s] /\ events'[s] = events[s]
    BY <1>1, <1>2
  <1>3. ASSUME NEW x \in Sessions, Creates(x)
        PROVE  Story(sess'[s], events'[s]) /\ Timed(sess'[s], events'[s])
    <2>1. PICK q \in Row, rows \in SUBSET {LaunchEvent} :
            /\ sess' = [sess EXCEPT ![x] = q]
            /\ events' = [events EXCEPT ![x] = rows]
            /\ \/ q.status = "PENDING" /\ rows = {}
               \/ q.status = "LAUNCH_REQUESTED" /\ rows = {LaunchEvent}
            /\ q.source # "endpoint_agent" /\ q.duration = NoTime /\ q.quality = "UNKNOWN"
      BY <1>3 DEF Creates
    <2>2. Timed(q, rows)
      BY <2>1 DEF Timed
    <2>3. Story(q, rows)
      <3>1. CASE q.status = "PENDING" /\ rows = {}
        BY <3>1 DEF Story, TERMINAL
      <3>2. CASE q.status = "LAUNCH_REQUESTED" /\ rows = {LaunchEvent}
        <4>1. /\ Moves(LaunchEvent) /\ ~Closes(LaunchEvent)
              /\ ForwardTarget(LaunchEvent.type) = "LAUNCH_REQUESTED"
          BY DEF Moves, Closes, LaunchEvent, ForwardTypes, ForwardTarget
        <4>2. RANK("LAUNCH_REQUESTED") <= RANK("LAUNCH_REQUESTED")
          BY DEF RANK
        <4>3. "LAUNCH_REQUESTED" \notin TERMINAL
          BY DEF TERMINAL
        <4>4. QED
          BY <3>2, <4>1, <4>2, <4>3 DEF Story
      <3>3. QED
        BY <2>1, <3>1, <3>2
    <2>4. CASE s = x
      <3>1. sess'[s] = q /\ events'[s] = rows
        BY <1>0, <2>1, <2>4 DEF TypeOK
      <3>2. QED
        BY <2>2, <2>3, <3>1
    <2>5. CASE s # x
      BY <1>0, <1>2, <2>1, <2>5 DEF TypeOK
    <2>6. QED
      BY <2>4, <2>5
  <1>4. ASSUME NEW x \in Sessions, Touches(x)
        PROVE  Story(sess'[s], events'[s]) /\ Timed(sess'[s], events'[s])
    <2>1. PICK t \in Nat : sess' = [sess EXCEPT ![x].signalAt = t]
      BY <1>4 DEF Touches
    <2>2. sess'[s] \in Row /\ events'[s] = events[s]
      BY <1>0, <1>4 DEF TypeOK, Touches
    <2>3. SameStory(sess[s], sess'[s])
      <3>1. CASE s = x
        <4>1. sess'[s] = [sess[s] EXCEPT !.signalAt = t]
          BY <1>0, <2>1, <3>1 DEF TypeOK
        <4>2. QED
          BY <1>1, <4>1 DEF SameStory, SameVerdict, Row
      <3>2. CASE s # x
        <4>1. sess'[s] = sess[s]
          BY <1>0, <2>1, <3>2 DEF TypeOK
        <4>2. QED
          BY <4>1 DEF SameStory, SameVerdict
      <3>3. QED
        BY <3>1, <3>2
    <2>4. PICK e : e = [applied |-> FALSE]
      OBVIOUS
    <2>5. ~e.applied
      BY <2>4
    <2>6. QED
      BY <1>1, <2>2, <2>3, <2>5, StoryKept
  <1>5. ASSUME NEW x \in Sessions, Observes(x)
        PROVE  Story(sess'[s], events'[s]) /\ Timed(sess'[s], events'[s])
    <2>1. PICK e : ~e.applied /\ events' = [events EXCEPT ![x] = @ \cup {e}]
      BY <1>5 DEF Observes
    <2>2. sess'[s] = sess[s] /\ SameStory(sess[s], sess[s])
      BY <1>5 DEF Observes, SameStory, SameVerdict
    <2>3. events'[s] = events[s] \/ events'[s] = events[s] \cup {e}
      BY <1>0, <2>1 DEF TypeOK
    <2>4. QED
      BY <1>1, <2>1, <2>2, <2>3, StoryKept
  <1>6. ASSUME NEW w \in Workers, CommitWrite(w)
        PROVE  Story(sess'[s], events'[s]) /\ Timed(sess'[s], events'[s])
    <2> DEFINE j == job[w]
               q == applySessionEvent(snap[w], j, sess[j.s])
               e == Stored(snap[w], j)
    <2>1. /\ j \in Job /\ j.s \in Sessions /\ snap[w] \in Row /\ sess[j.s] \in Row
          /\ sess[j.s].status # "ABSENT" /\ OpenUntimed(sess[j.s])
          /\ HasPatch(snap[w], j) => SameVerdict(snap[w], sess[j.s])
          /\ sess' = [sess EXCEPT ![j.s] = q]
          /\ events' = [events EXCEPT ![j.s] = @ \cup {e}]
      BY <1>6, CommitFacts DEF Exists
    <2>2. CASE s = j.s
      <3>1. Story(q, events[s] \cup {e}) /\ Timed(q, events[s] \cup {e})
        BY <1>1, <2>1, <2>2, StoryCommit
      <3> HIDE DEF j, q, e
      <3>2. sess'[s] = q /\ events'[s] = events[s] \cup {e}
        BY <1>0, <2>1, <2>2 DEF TypeOK
      <3>3. QED
        BY <3>1, <3>2
    <2>3. CASE s # j.s
      <3> HIDE DEF j, q, e
      <3>1. QED
        BY <1>0, <1>2, <2>1, <2>3 DEF TypeOK
    <2>4. QED
      BY <2>2, <2>3
  <1>7. QED
    BY <1>0, <1>2, <1>3, <1>4, <1>5, <1>6, NextTables

\* Rows and timelines agree in every reachable state.
LEMMA RecordsAgree == Spec => []Records
  <1>1. Init => Records
    BY DEF Init, Records, Story, Timed, NoRow, TERMINAL, OPEN_STATUSES,
           PRE_CLIENT_STATUSES
  <1>2. IInv /\ Records /\ [Next]_vars => Records'
    BY RecordsStep
  <1>3. QED
    BY <1>1, <1>2, Inductive, PTL DEF Spec

\* The timeline tells the whole story of every session: its open status is
\* the furthest step an applied event reached, and it is closed exactly when
\* one applied event closed it, whoever raced to close it.  The invariant
\* that carries it is Records, and its step rests on SnapInv: an applied
\* event is only ever stored over the status it was decided on.
THEOREM TimelinesExplain == Spec => []TimelineExplainsStatus
  <1>1. IInv /\ Records => TimelineExplainsStatus
    <2> SUFFICES ASSUME IInv, Records, NEW s \in Sessions
                 PROVE  LET closing == {e \in AppliedEvents(s) : e.type \notin ForwardTypes}
                            reached == {RANK(ForwardTarget(e.type)) :
                                          e \in AppliedEvents(s) \ closing}
                        IN /\ sess[s].status \in TERMINAL <=> closing # {}
                           /\ \A e, f \in closing : e = f
                           /\ \A e \in closing : e.source = sess[s].source
                           /\ Exists(s) /\ closing = {} =>
                                /\ RANK(sess[s].status) \in reached \cup {0}
                                /\ \A r \in reached : r <= RANK(sess[s].status)
      BY DEF TimelineExplainsStatus
    <2> DEFINE closing == {e \in AppliedEvents(s) : e.type \notin ForwardTypes}
               reached == {RANK(ForwardTarget(e.type)) : e \in AppliedEvents(s) \ closing}
    <2>1. Story(sess[s], events[s]) /\ sess[s].status \in Statuses
      BY DEF Records, IInv, TypeOK, Row
    <2>2. \A e : e \in closing <=> e \in events[s] /\ Closes(e)
      BY DEF AppliedEvents, Closes
    <2>3. \A e : e \in AppliedEvents(s) \ closing <=> e \in events[s] /\ Moves(e)
      BY DEF AppliedEvents, Moves
    <2>4. sess[s].status \in TERMINAL <=> closing # {}
      BY <2>1, <2>2 DEF Story
    <2>5. /\ \A e, f \in closing : e = f
          /\ \A e \in closing : e.source = sess[s].source
      BY <2>1, <2>2 DEF Story
    <2>6. ASSUME Exists(s), closing = {}
          PROVE  /\ RANK(sess[s].status) \in reached \cup {0}
                 /\ \A r \in reached : r <= RANK(sess[s].status)
      <3>1. sess[s].status \in OPEN_STATUSES
        BY <2>1, <2>4, <2>6, StatusKinds DEF Exists
      <3>2. \A r \in reached : r <= RANK(sess[s].status)
        BY <2>1, <2>3, <3>1 DEF Story
      <3>3. CASE sess[s].status = "PENDING"
        BY <3>2, <3>3 DEF RANK
      <3>4. CASE sess[s].status # "PENDING"
        <4>1. PICK e \in events[s] : Moves(e) /\ ForwardTarget(e.type) = sess[s].status
          BY <2>1, <3>1, <3>4 DEF Story
        <4>2. QED
          BY <2>3, <3>2, <4>1
      <3>5. QED
        BY <3>3, <3>4
    <2> HIDE DEF closing, reached
    <2>7. QED
      BY <2>4, <2>5, <2>6 DEF closing, reached
  <1>2. QED
    BY <1>1, Inductive, RecordsAgree, PTL

\* A duration is only ever recorded for a connection the endpoint agent both
\* confirmed and saw end, and it is the distance of the two, even when the
\* end was decided on a row read before other reports were stored.
THEOREM MeasuredDurations == Spec => []MeasuredMeansObserved
  <1>1. Records => MeasuredMeansObserved
    <2> SUFFICES ASSUME Records, NEW s \in Sessions
                 PROVE  LET row == sess[s]
                            Agent(type) == \E e \in AppliedEvents(s) :
                                             e.type = type /\ e.source = "endpoint_agent"
                        IN /\ row.quality = "MEASURED" <=> row.duration # NoTime
                           /\ row.duration # NoTime =>
                                /\ Agent("connection_confirmed") /\ Agent("disconnected")
                                /\ row.endedAt = row.confirmedAt + row.duration
      BY DEF MeasuredMeansObserved
    <2>1. Timed(sess[s], events[s])
      BY DEF Records
    <2>2. \A type : FromAgent(events[s], type) =>
                      \E e \in AppliedEvents(s) : e.type = type /\ e.source = "endpoint_agent"
      BY DEF FromAgent, AppliedEvents
    <2>3. QED
      BY <2>1, <2>2 DEF Timed
  <1>2. QED
    BY <1>1, RecordsAgree, PTL

-----------------------------------------------------------------------------
(* The calls in flight.                                                    *)

ConfirmKey == <<"agent:confirm", 0>>

\* The record() calls a worker has still to decide or to make.
Pending(w) == todo[w] \cup (IF pc[w] \in {"read", "commit"} THEN {job[w]} ELSE {})

\* The keys of the sweeps and of the agent belong to one event each.
KeyFits(j) ==
  /\ j.key = <<"timeout:ended", 0>>    => j.type = "timeout_ended" /\ j.source = "timeout"
  /\ j.key = <<"timeout:unknown", 0>>  => j.type = "timeout_unknown" /\ j.source = "timeout"
  /\ j.key = <<"agent:disconnect", 0>> => j.type = "disconnected" /\ j.source = "endpoint_agent"
  /\ j.key = ConfirmKey => j.type = "connection_confirmed" /\ j.source = "endpoint_agent"

\* The events only a confirmed session is sent.
Endings == {"timeout_ended", "disconnected"}

\* What a handler or a sweep knows of a session when it makes a call on it.
Fresh(j) ==
  /\ j.s \in Sessions
  /\ KeyFits(j)
  /\ j.type \in Endings => sess[j.s].status = "SESSION_STARTED"
  /\ j.key = ConfirmKey =>
       /\ j.s \in RecentLaunches
       /\ \E active \in 0..MaxActive :
            Attributable(active, ManagedIn({"SESSION_STARTED"}), RecentLaunches)

SameCall(i, j) == j.s = i.s /\ j.type = i.type /\ j.source = i.source /\ j.key = i.key

\* No report of a person or a script uses a key of a sweep or of the agent.
LEMMA ReportKeys ==
  \A r \in TechnicianReports \cup QuickConnectResults \cup ScriptReports :
    /\ r[2] \notin {"timeout:ended", "timeout:unknown", "agent:disconnect", "agent:confirm"}
    /\ r[1] \notin Endings
  BY DEF TechnicianReports, QuickConnectResults, ScriptReports, Endings

\* A call under one of the other keys is fresh whatever the session's state.
LEMMA PlainCall ==
  ASSUME NEW s \in Sessions, NEW type, type \notin Endings, NEW source, NEW at, NEW strict,
         NEW key, key \notin {"timeout:ended", "timeout:unknown", "agent:disconnect",
                              "agent:confirm"}
  PROVE  Fresh([Call(s, type, source, at, key, strict) EXCEPT !.recv = now])
  <1> DEFINE j == [Call(s, type, source, at, key, strict) EXCEPT !.recv = now]
  <1>1. j.s = s /\ j.type = type /\ j.key = <<key, 0>>
    BY DEF Call
  <1> HIDE DEF j
  <1>2. Fresh(j)
    BY <1>1 DEF Fresh, KeyFits, ConfirmKey
  <1>3. QED
    BY <1>2 DEF j

\* The calls of the sweeps and of a heartbeat say what they are.
LEMMA CallFields ==
  ASSUME NEW s
  PROVE  /\ TimeoutUnknown(s).s = s /\ TimeoutUnknown(s).key = <<"timeout:unknown", 0>>
         /\ TimeoutUnknown(s).type = "timeout_unknown"
         /\ TimeoutUnknown(s).source = "timeout"
         /\ TimeoutEnded(s).s = s /\ TimeoutEnded(s).key = <<"timeout:ended", 0>>
         /\ TimeoutEnded(s).type = "timeout_ended" /\ TimeoutEnded(s).source = "timeout"
         /\ Confirm(s).s = s /\ Confirm(s).key = ConfirmKey
         /\ Confirm(s).type = "connection_confirmed"
         /\ Confirm(s).source = "endpoint_agent"
         /\ Disconnect(s).s = s /\ Disconnect(s).key = <<"agent:disconnect", 0>>
         /\ Disconnect(s).type = "disconnected" /\ Disconnect(s).source = "endpoint_agent"
  BY DEF TimeoutUnknown, TimeoutEnded, Confirm, Disconnect, Call, ConfirmKey

\* Every call in flight was in flight before the step or is fresh.
LEMMA NextPending ==
  ASSUME TypeOK, [Next]_vars, NEW w \in Workers, NEW j \in Pending(w)'
  PROVE  Fresh(j) \/ \E i \in Pending(w) : SameCall(i, j)
  <1> DEFINE Goal == Fresh(j) \/ \E i \in Pending(w) : SameCall(i, j)
  <1> SUFFICES Goal
    OBVIOUS
  <1>1. CASE j \in Pending(w)
    BY <1>1 DEF SameCall
  <1>2. ASSUME UNCHANGED <<pc, todo, job>>
        PROVE  Goal
    BY <1>1, <1>2 DEF Pending
  <1>3. ASSUME NEW v \in Workers, NEW c, Fresh([c EXCEPT !.recv = now]), StartRecord(v, c)
        PROVE  Goal
    <2>1. j \in Pending(w) \/ j = [c EXCEPT !.recv = now]
      BY <1>3 DEF StartRecord, Pending, batch, TypeOK
    <2>2. QED
      BY <1>1, <1>3, <2>1
  <1>4. ASSUME NEW v \in Workers, Request(v)
        PROVE  Goal
    <2>1. ASSUME NEW s \in Sessions, NEW r \in
                   TechnicianReports \cup QuickConnectResults \cup ScriptReports,
                 NEW source, NEW strict,
                 StartRecord(v, Call(s, r[1], source, NoTime, r[2], strict))
          PROVE  Goal
      BY <1>3, <2>1, ReportKeys, PlainCall
    <2>2. ASSUME NEW s \in Sessions, launcherRedeemed(v, s)
          PROVE  Goal
      <3>1. Fresh([Call(s, "launcher_acknowledged", "server", NoTime, "launcher", FALSE)
                    EXCEPT !.recv = now])
        BY PlainCall DEF Endings
      <3>2. QED
        BY <1>3, <2>2, <3>1 DEF launcherRedeemed
    <2>3. ASSUME NEW active \in 0..MaxActive, reconcileEndpointSignal(v, active)
          PROVE  Goal
      <3> DEFINE confirmed == ManagedIn({"SESSION_STARTED"})
      <3>1. \/ j \in Pending(w)
            \/ j \in {Disconnect(s) : s \in confirmed}
            \/ /\ Attributable(active, confirmed, RecentLaunches)
               /\ j \in {Confirm(s) : s \in RecentLaunches}
        BY <2>3 DEF reconcileEndpointSignal, Pending, TypeOK
      <3>2. ASSUME NEW s \in confirmed, j = Disconnect(s)
            PROVE  Fresh(j)
        <4>1. s \in Sessions /\ sess[s].status = "SESSION_STARTED"
          BY DEF ManagedIn
        <4>2. QED
          BY <3>2, <4>1, CallFields DEF Fresh, KeyFits, ConfirmKey
      <3>3. ASSUME NEW s \in RecentLaunches, j = Confirm(s),
                   Attributable(active, confirmed, RecentLaunches)
            PROVE  Fresh(j)
        <4>1. s \in Sessions
          BY DEF RecentLaunches, ManagedIn
        <4>2. j.s = s /\ j.key = ConfirmKey /\ j.type = "connection_confirmed"
              /\ j.source = "endpoint_agent"
          BY <3>3, CallFields
        <4>3. KeyFits(j) /\ j.type \notin Endings
          BY <4>2 DEF KeyFits, ConfirmKey, Endings
        <4>4. QED
          BY <3>3, <4>1, <4>2, <4>3 DEF Fresh
      <3>4. QED
        BY <1>1, <3>1, <3>2, <3>3
    <2>4. QED
      BY <1>4, <2>1, <2>2, <2>3
      DEF Request, technicianReport, quickConnectEnd, recordScriptTelemetry
  <1>5. ASSUME NEW s \in Sessions, j = TimeoutUnknown(s)
        PROVE  Goal
    BY <1>5, CallFields DEF Fresh, KeyFits, ConfirmKey, Endings
  <1>6. ASSUME NEW v \in Workers, expireStaleSessions(v) \/ expireOpened(v)
        PROVE  Goal
    <2>1. j \in Pending(w) \/ \E s \in Sessions : j = TimeoutUnknown(s)
      BY <1>6 DEF expireStaleSessions, expireOpened, StaleLaunches, ManagedIn, Pending, TypeOK
    <2>2. QED
      BY <1>1, <1>5, <2>1
  <1>7. ASSUME NEW v \in Workers, closeAbandonedSessions(v)
        PROVE  Goal
    <2>1. j \in Pending(w) \/ \E s \in {t \in Sessions : Silent(sess[t])} : j = TimeoutEnded(s)
      BY <1>7 DEF closeAbandonedSessions, Pending, TypeOK
    <2>2. ASSUME NEW s \in Sessions, Silent(sess[s]), j = TimeoutEnded(s)
          PROVE  Fresh(j)
      <3>1. sess[s].status = "SESSION_STARTED"
        BY <2>2 DEF Silent
      <3>2. QED
        BY <2>2, <3>1, CallFields DEF Fresh, KeyFits, ConfirmKey
    <2>3. QED
      BY <1>1, <2>1, <2>2
  <1>8. ASSUME NEW v \in Workers, NEW c \in todo[v], NextCall(v, c)
        PROVE  Goal
    <2>1. j \in Pending(w) \/ (w = v /\ j = [c EXCEPT !.recv = now])
      BY <1>8 DEF NextCall, Pending, TypeOK
    <2>2. c \in Job /\ (w = v => c \in Pending(w))
      BY DEF Pending, TypeOK
    <2>3. SameCall(c, [c EXCEPT !.recv = now])
      BY <2>2 DEF SameCall, Job
    <2>4. QED
      BY <1>1, <2>1, <2>2, <2>3
  <1>9. ASSUME NEW v \in Workers, UNCHANGED todo,
               \/ Done(v)
               \/ pc[v] \in {"read", "commit"} /\ \E p : StayAt(v, p)
        PROVE  Goal
    BY <1>1, <1>9 DEF Done, StayAt, Pending, TypeOK
  <1>10. ASSUME NEW v \in Workers, Continue(v)
         PROVE  Goal
    BY <1>2, <1>6, <1>8, <1>9, <1>10
    DEF Continue, Read, CommitDuplicate, CommitStale, CommitWrite, SaveNotes,
        BatchDone, Touch, Ambiguous, batch
  <1>11. QED
    BY <1>2, <1>4, <1>6, <1>7, <1>10
    DEF Next, Tick, create, connectInfo, quickConnect, NewSession, vars, batch, Workers

-----------------------------------------------------------------------------
(* Dedupe keys.                                                            *)

\* Confirmed at some time: what a session never falls back from.
Settled == {"SESSION_STARTED"} \cup TERMINAL

\* A call in flight carries the key of its event, and one that ends a
\* connection is about a session that was confirmed, as its handler read it.
KeyInv ==
  \A w \in Workers :
    /\ \A j \in Pending(w) :
         /\ j.s \in Sessions
         /\ KeyFits(j)
         /\ j.type \in Endings => sess[j.s].status \in Settled
    /\ pc[w] = "commit" /\ job[w].type \in Endings => snap[w].status \in Settled

\* The keys of one session that its events have spent.
Unburnt(row, evs) ==
  row.status \in OPEN_STATUSES =>
    \A e \in evs :
      /\ e.key # <<"timeout:ended", 0>> /\ e.key # <<"agent:disconnect", 0>>
      /\ e.key \in {<<"timeout:unknown", 0>>, ConfirmKey} => row.status = "SESSION_STARTED"

\* A RowStep never reopens a session and never takes back a confirmation.
LEMMA SettledStep ==
  ASSUME NEW r \in Row, NEW q \in Row, RowStep(r, q)
  PROVE  /\ r.status \in Settled => q.status \in Settled
         /\ q.status \in OPEN_STATUSES /\ r.status # "ABSENT" =>
              /\ r.status \in OPEN_STATUSES
              /\ r.status = "SESSION_STARTED" => q.status = "SESSION_STARTED"
  <1>1. r.status \in Statuses
    BY DEF Row
  <1>2. CASE q.status = r.status
    BY <1>1, <1>2
  <1>3. CASE Advance(r, q) /\ r.status \notin TERMINAL
    <2>1. r.status = "SESSION_STARTED" => q.status \in TERMINAL
      BY <1>3 DEF Advance, TERMINAL
    <2>2. QED
      BY <1>1, <1>3, <2>1, StatusKinds DEF Settled
  <1>4. QED
    BY <1>2, <1>3 DEF RowStep, SameVerdict

\* The same of the whole table.
LEMMA SettledStays ==
  ASSUME IInv, [Next]_vars, NEW s \in Sessions, sess[s].status \in Settled
  PROVE  sess'[s].status \in Settled
  <1>1. OneRow
    BY NextOneRow
  <1>2. ASSUME NEW x \in Sessions, NEW q \in Row, sess' = [sess EXCEPT ![x] = q],
               RowStep(sess[x], q)
        PROVE  sess'[s].status \in Settled
    <2>1. sess[x] \in Row
      BY DEF IInv, TypeOK
    <2>2. sess[x].status \in Settled => q.status \in Settled
      BY <1>2, <2>1, SettledStep
    <2>3. QED
      BY <1>2, <2>2 DEF IInv, TypeOK
  <1>3. QED
    BY <1>1, <1>2 DEF OneRow

LEMMA KeyInvStep ==
  ASSUME IInv, KeyInv, [Next]_vars
  PROVE  KeyInv'
  <1>0. TypeOK /\ TypeOK'
    BY TypeStep DEF IInv
  <1>1. ASSUME NEW w \in Workers, NEW j \in Pending(w)'
        PROVE  /\ j.s \in Sessions
               /\ KeyFits(j)
               /\ j.type \in Endings => sess'[j.s].status \in Settled
    <2>1. CASE Fresh(j)
      <3>1. j.s \in Sessions /\ KeyFits(j) /\ (j.type \in Endings => sess[j.s].status \in Settled)
        BY <2>1 DEF Fresh, Settled
      <3>2. QED
        BY <3>1, SettledStays
    <2>2. ASSUME NEW i \in Pending(w), SameCall(i, j)
          PROVE  /\ j.s \in Sessions
                 /\ KeyFits(j)
                 /\ j.type \in Endings => sess'[j.s].status \in Settled
      <3>1. /\ i.s \in Sessions /\ KeyFits(i)
            /\ i.type \in Endings => sess[i.s].status \in Settled
        BY DEF KeyInv
      <3>2. KeyFits(j) /\ j.s = i.s /\ j.type = i.type
        BY <2>2, <3>1 DEF KeyFits, SameCall
      <3>3. QED
        BY <3>1, <3>2, SettledStays
    <2>3. QED
      BY <1>0, <2>1, <2>2, NextPending
  <1>2. ASSUME NEW w \in Workers, pc'[w] = "commit", job'[w].type \in Endings
        PROVE  snap'[w].status \in Settled
    <2>1. CASE pc[w] = "commit" /\ UNCHANGED <<snap[w], job[w]>>
      BY <1>2, <2>1 DEF KeyInv
    <2>2. CASE snap'[w] = sess'[job'[w].s]
      <3>1. job'[w] \in Pending(w)'
        BY <1>2 DEF Pending
      <3>2. QED
        BY <1>1, <1>2, <2>2, <3>1
    <2>3. QED
      BY <1>0, <1>2, <2>1, <2>2, SnapOrigin
  <1>3. QED
    BY <1>1, <1>2 DEF KeyInv

\* Whatever a stored decision did, the key it spends is one the session no
\* longer needs.
LEMMA UnburntCommit ==
  ASSUME NEW snp \in Row, NEW ev \in Job, NEW row \in Row, NEW evs,
         HasPatch(snp, ev) => SameVerdict(snp, row),
         SameVerdict(snp, row) \/ RANK(snp.status) < RANK(row.status),
         row.status # "ABSENT", OpenUntimed(row),
         KeyFits(ev), ev.type \in Endings => snp.status \in Settled,
         Unburnt(row, evs)
  PROVE  Unburnt(applySessionEvent(snp, ev, row), evs \cup {Stored(snp, ev)})
  <1> DEFINE q == applySessionEvent(snp, ev, row)
             e == Stored(snp, ev)
  <1>0. q \in Row /\ e.key = ev.key
    BY ApplyType DEF Stored
  <1>1. RowStep(row, q)
    BY ApplyStep DEF SameVerdict
  <1>2. /\ row.status \in Statuses /\ snp.status \in Statuses /\ q.status \in Statuses
        /\ RANK(row.status) \in Int /\ RANK(snp.status) \in Int
    BY <1>0, RankFacts DEF Row
  <1>3. snp.status \in TERMINAL => row.status = snp.status
    <2>1. snp.status \in TERMINAL => ~(RANK(snp.status) < RANK(row.status))
      BY <1>2, RankFacts
    <2>2. QED
      BY <2>1 DEF SameVerdict
  <1>4. snp.status = "SESSION_STARTED" => row.status \in Settled
    <2>1. RANK("SESSION_STARTED") < RANK(row.status) => row.status \in TERMINAL
      BY <1>2 DEF RANK, Statuses, OPEN_STATUSES, PRE_CLIENT_STATUSES
    <2>2. QED
      BY <2>1 DEF SameVerdict, Settled
  <1>5. Applied(snp, ev) => SameVerdict(snp, row)
    BY DEF Applied, HasPatch
  <1>6. ASSUME Applied(snp, ev), ev.type \notin ForwardTypes
        PROVE  q.status \in TERMINAL
    BY <1>5, <1>6, AppliedClose
  <1>7. ~Applied(snp, ev) => q.status = row.status
    BY UnappliedKeeps DEF SameStory, SameVerdict
  <1> HIDE DEF q, e
  <1>8. ASSUME ev.key \in {<<"timeout:ended", 0>>, <<"agent:disconnect", 0>>}
        PROVE  q.status \in TERMINAL
    <2>1. /\ ev.type \in Endings /\ ev.source \in ALLOWED_SOURCES(ev.type)
          /\ ev.type \notin ForwardTypes
      BY <1>8 DEF KeyFits, Endings, ALLOWED_SOURCES, ForwardTypes
    <2>2. CASE snp.status = "SESSION_STARTED"
      <3>1. Applied(snp, ev)
        BY <2>1, <2>2 DEF Applied, Applicable, Endings, ForwardTypes, TERMINAL
      <3>2. QED
        BY <1>6, <2>1, <3>1
    <2>3. CASE snp.status \in TERMINAL
      BY <1>3, <1>7, <2>3 DEF Applied
    <2>4. QED
      BY <2>1, <2>2, <2>3 DEF Settled
  <1>9. ASSUME ev.key = <<"timeout:unknown", 0>>
        PROVE  q.status \in Settled
    <2>1. /\ ev.type = "timeout_unknown" /\ ev.source \in ALLOWED_SOURCES(ev.type)
          /\ ev.type \notin ForwardTypes
      BY <1>9 DEF KeyFits, ALLOWED_SOURCES, ForwardTypes
    <2>2. CASE Applied(snp, ev)
      BY <1>6, <2>1, <2>2 DEF Settled
    <2>3. CASE ~Applied(snp, ev)
      <3>1. snp.status \in Settled
        BY <2>1, <2>3 DEF Applied, Applicable, ForwardTypes, Settled
      <3>2. QED
        BY <1>3, <1>4, <1>7, <2>3, <3>1 DEF Settled
    <2>4. QED
      BY <2>2, <2>3
  <1>10. ASSUME ev.key = ConfirmKey
         PROVE  q.status \in Settled
    <2>1. /\ ev.type = "connection_confirmed" /\ ev.source \in ALLOWED_SOURCES(ev.type)
          /\ ev.type \in ForwardTypes
      BY <1>10 DEF KeyFits, ALLOWED_SOURCES, ForwardTypes
    <2>2. CASE Applied(snp, ev)
      <3>1. q.status = ForwardTarget(ev.type)
        BY <2>1, <2>2, AppliedForward DEF q
      <3>2. QED
        BY <2>1, <3>1, Targets DEF Settled
    <2>3. CASE ~Applied(snp, ev)
      <3>1. snp.status \in TERMINAL \/ ~(RANK("SESSION_STARTED") > RANK(snp.status))
        BY <2>1, <2>3 DEF Applied, Applicable, ForwardTypes, ForwardTarget
      <3>2. snp.status \in Settled
        BY <1>2, <3>1 DEF RANK, Statuses, OPEN_STATUSES, PRE_CLIENT_STATUSES, Settled
      <3>3. QED
        BY <1>3, <1>4, <1>7, <2>3, <3>2 DEF Settled
    <2>4. QED
      BY <2>2, <2>3
  <1>11. ASSUME q.status \in OPEN_STATUSES, NEW f \in evs \cup {e}
         PROVE  /\ f.key # <<"timeout:ended", 0>> /\ f.key # <<"agent:disconnect", 0>>
                /\ f.key \in {<<"timeout:unknown", 0>>, ConfirmKey} =>
                     q.status = "SESSION_STARTED"
    <2>1. q.status \notin TERMINAL
      BY <1>11, StatusKinds
    <2>2. CASE f \in evs
      <3>1. /\ row.status \in OPEN_STATUSES
            /\ row.status = "SESSION_STARTED" => q.status = "SESSION_STARTED"
        BY <1>0, <1>1, <1>11, SettledStep
      <3>2. QED
        BY <2>2, <3>1 DEF Unburnt
    <2>3. CASE f = e
      BY <1>0, <1>8, <1>9, <1>10, <2>1, <2>3 DEF Settled
    <2>4. QED
      BY <1>11, <2>2, <2>3
  <1>12. Unburnt(q, evs \cup {e})
    BY <1>11 DEF Unburnt
  <1>13. QED
    BY <1>12 DEF q, e

UnburntInv == \A s \in Sessions : Unburnt(sess[s], events[s])

LEMMA UnburntStep ==
  ASSUME IInv, KeyInv, UnburntInv, [Next]_vars
  PROVE  UnburntInv'
  <1>0. TypeOK /\ TypeOK'
    BY TypeStep DEF IInv
  <1> SUFFICES ASSUME NEW s \in Sessions
               PROVE  Unburnt(sess'[s], events'[s])
    BY DEF UnburntInv, Unburnt
  <1>1. Unburnt(sess[s], events[s]) /\ sess[s] \in Row
    BY <1>0 DEF UnburntInv, TypeOK
  <1>2. CASE sess'[s] = sess[s] /\ events'[s] = events[s]
    BY <1>1, <1>2
  <1>3. ASSUME NEW x \in Sessions, Creates(x)
        PROVE  Unburnt(sess'[s], events'[s])
    <2>1. PICK q \in Row, rows \in SUBSET {LaunchEvent} :
            /\ sess' = [sess EXCEPT ![x] = q]
            /\ events' = [events EXCEPT ![x] = rows]
      BY <1>3 DEF Creates
    <2>2. LaunchEvent.key = <<"server:launch", 0>>
      BY DEF LaunchEvent
    <2>3. Unburnt(q, rows)
      BY <2>2 DEF Unburnt, ConfirmKey
    <2>4. \/ sess'[s] = q /\ events'[s] = rows
          \/ sess'[s] = sess[s] /\ events'[s] = events[s]
      BY <1>0, <2>1 DEF TypeOK
    <2>5. QED
      BY <1>2, <2>3, <2>4
  <1>4. ASSUME NEW x \in Sessions, Touches(x)
        PROVE  Unburnt(sess'[s], events'[s])
    <2>1. PICK t \in Nat : sess' = [sess EXCEPT ![x].signalAt = t]
      BY <1>4 DEF Touches
    <2>2. \/ sess'[s] = sess[s]
          \/ sess'[s] = [sess[s] EXCEPT !.signalAt = t]
      BY <1>0, <2>1 DEF TypeOK
    <2>3. sess'[s].status = sess[s].status /\ events'[s] = events[s]
      BY <1>1, <1>4, <2>2 DEF Touches, Row
    <2>4. QED
      BY <1>1, <2>3 DEF Unburnt
  <1>5. ASSUME NEW x \in Sessions, Observes(x)
        PROVE  Unburnt(sess'[s], events'[s])
    <2>1. PICK e : /\ \E t \in Nat : e.key = <<"agent:ambiguous", t>>
                   /\ events' = [events EXCEPT ![x] = @ \cup {e}]
      BY <1>5 DEF Observes
    <2>2. sess'[s] = sess[s] /\ events'[s] \in {events[s], events[s] \cup {e}}
      BY <1>0, <1>5, <2>1 DEF Observes, TypeOK
    <2>3. QED
      BY <1>1, <2>1, <2>2 DEF Unburnt, ConfirmKey
  <1>6. ASSUME NEW w \in Workers, CommitWrite(w)
        PROVE  Unburnt(sess'[s], events'[s])
    <2> DEFINE j == job[w]
               q == applySessionEvent(snap[w], j, sess[j.s])
               e == Stored(snap[w], j)
    <2>1. /\ j \in Job /\ j.s \in Sessions /\ snap[w] \in Row /\ sess[j.s] \in Row
          /\ sess[j.s].status # "ABSENT" /\ OpenUntimed(sess[j.s])
          /\ HasPatch(snap[w], j) => SameVerdict(snap[w], sess[j.s])
          /\ sess' = [sess EXCEPT ![j.s] = q]
          /\ events' = [events EXCEPT ![j.s] = @ \cup {e}]
      BY <1>6, CommitFacts DEF Exists
    <2>2. CASE s = j.s
      <3>1. pc[w] = "commit" /\ j \in Pending(w)
        BY <1>6 DEF CommitWrite, Pending
      <3>2. KeyFits(j) /\ (j.type \in Endings => snap[w].status \in Settled)
        BY <3>1 DEF KeyInv
      <3>3. SameVerdict(snap[w], sess[j.s]) \/ RANK(snap[w].status) < RANK(sess[j.s].status)
        BY <3>1 DEF IInv, SnapInv
      <3>4. Unburnt(q, events[s] \cup {e})
        BY <1>1, <2>1, <2>2, <3>2, <3>3, UnburntCommit
      <3> HIDE DEF j, q, e
      <3>5. sess'[s] = q /\ events'[s] = events[s] \cup {e}
        BY <1>0, <2>1, <2>2 DEF TypeOK
      <3>6. QED
        BY <3>4, <3>5
    <2>3. CASE s # j.s
      <3> HIDE DEF j, q, e
      <3>1. QED
        BY <1>0, <1>2, <2>1, <2>3 DEF TypeOK
    <2>4. QED
      BY <2>2, <2>3
  <1>7. QED
    BY <1>0, <1>2, <1>3, <1>4, <1>5, <1>6, NextTables

\* The calls in flight fit their keys in every reachable state.
LEMMA KeysFit == Spec => []KeyInv
  <1>1. Init => KeyInv
    BY DEF Init, KeyInv, Pending
  <1>2. IInv /\ KeyInv /\ [Next]_vars => KeyInv'
    BY KeyInvStep
  <1>3. QED
    BY <1>1, <1>2, Inductive, PTL DEF Spec

\* A dedupe key spent by an event that changed nothing never blocks the
\* event that could still close or confirm the session: record() stores such
\* an event only when the session is past it.  It needs KeyInv, because a
\* sweep or a heartbeat selects first and records later.
THEOREM KeysAreNotBurnt == Spec => []NoBurntKeys
  <1>1. Init => UnburntInv
    BY DEF Init, UnburntInv, Unburnt
  <1>2. IInv /\ KeyInv /\ UnburntInv /\ [Next]_vars => UnburntInv'
    BY UnburntStep
  <1>3. UnburntInv => NoBurntKeys
    BY DEF UnburntInv, Unburnt, NoBurntKeys, KeysOf, ConfirmKey
  <1>4. QED
    BY <1>1, <1>2, <1>3, Inductive, KeysFit, PTL DEF Spec

-----------------------------------------------------------------------------
(* Attribution.                                                            *)

\* Launches that some heartbeat in flight is about to confirm.
Claimed ==
  {s \in Sessions :
     /\ sess[s].status \in OPEN_STATUSES \ {"SESSION_STARTED"}
     /\ \E w \in Workers : \E j \in Pending(w) : j.s = s /\ j.key = ConfirmKey}

\* Connections the agent's reports have been attributed to.
Attributed ==
  {s \in ManagedIn({"SESSION_STARTED"}) : \E e \in AppliedEvents(s) : e.key = ConfirmKey}

\* The clock, and the creation times a launch's age is taken from.
Clock ==
  /\ now <= MaxTime
  /\ \A s \in Sessions : Exists(s) => sess[s].createdAt \in Nat

\* Heartbeats confirm managed sessions that exist; all of those in flight
\* agree on the launch to confirm, and there is room for it.
Attribution ==
  /\ \A w \in Workers : \A j \in Pending(w) :
       j.key = ConfirmKey => Exists(j.s) /\ ~sess[j.s].adhoc
  /\ \A s, t \in Claimed : s = t
  /\ Claimed # {} => Cardinality(Attributed) < MaxActive
  /\ Cardinality(Attributed) <= MaxActive

\* No event changes what a session is or when it was created.
LEMMA ApplyIdentity ==
  ASSUME NEW snp \in Row, NEW ev \in Job, NEW row \in Row
  PROVE  LET q == applySessionEvent(snp, ev, row)
         IN  q.adhoc = row.adhoc /\ q.createdAt = row.createdAt
  <1> DEFINE Same(q) == q.adhoc = row.adhoc /\ q.createdAt = row.createdAt
  <1> SUFFICES Same(applySessionEvent(snp, ev, row))
    OBVIOUS
  <1>1. Same(forward(snp, ev, row))
    BY DEF forward, Row
  <1>2. \A x : Same(end(snp, ev, x, row))
    BY DEF end, Row
  <1>3. \A st, x : Same(close(snp, ev, st, x, row))
    BY DEF close, Row
  <1>4. \A st, x, t : Same(closeByTimeout(ev, st, t, x, row))
    BY DEF closeByTimeout, Row
  <1>5. Same(UnappliedPatch(snp, ev, row))
    BY DEF UnappliedPatch, Row
  <1> HIDE DEF Same
  <1>6. Same(AppliedPatch(snp, ev, row))
    BY <1>1, <1>2, <1>3, <1>4 DEF AppliedPatch, fail
  <1>7. Same(row)
    BY DEF Same
  <1>8. QED
    BY <1>5, <1>6, <1>7 DEF applySessionEvent

\* A session that exists keeps its kind and its creation time.
LEMMA IdentityStep ==
  ASSUME IInv, [Next]_vars, NEW s \in Sessions
  PROVE  /\ Exists(s) => /\ sess'[s].adhoc = sess[s].adhoc
                         /\ sess'[s].createdAt = sess[s].createdAt
         /\ ~Exists(s) /\ sess'[s] # sess[s] => sess'[s].createdAt \in Nat
  <1> DEFINE Goal == /\ Exists(s) => /\ sess'[s].adhoc = sess[s].adhoc
                                     /\ sess'[s].createdAt = sess[s].createdAt
                     /\ ~Exists(s) /\ sess'[s] # sess[s] => sess'[s].createdAt \in Nat
  <1> SUFFICES Goal
    OBVIOUS
  <1>0. TypeOK /\ sess[s] \in Row
    BY DEF IInv, TypeOK
  <1>1. CASE sess'[s] = sess[s]
    BY <1>1
  <1>2. ASSUME NEW x \in Sessions, Creates(x)
        PROVE  Goal
    <2>1. PICK q \in Row : sess' = [sess EXCEPT ![x] = q] /\ q.createdAt \in Nat
      BY <1>2 DEF Creates
    <2>2. CASE s = x
      <3>1. sess'[s] = q /\ ~Exists(s)
        BY <1>0, <1>2, <2>1, <2>2 DEF Creates, TypeOK
      <3>2. QED
        BY <2>1, <3>1
    <2>3. CASE s # x
      BY <1>0, <1>1, <2>1, <2>3 DEF TypeOK
    <2>4. QED
      BY <2>2, <2>3
  <1>3. ASSUME NEW x \in Sessions, Touches(x)
        PROVE  Goal
    <2>1. PICK t \in Nat : sess' = [sess EXCEPT ![x].signalAt = t]
      BY <1>3 DEF Touches
    <2>2. CASE s = x
      <3>1. sess'[s] = [sess[s] EXCEPT !.signalAt = t] /\ Exists(s)
        BY <1>0, <1>3, <2>1, <2>2 DEF Touches, TypeOK, Exists
      <3>2. QED
        BY <1>0, <3>1 DEF Row
    <2>3. CASE s # x
      BY <1>0, <1>1, <2>1, <2>3 DEF TypeOK
    <2>4. QED
      BY <2>2, <2>3
  <1>4. ASSUME NEW x \in Sessions, Observes(x)
        PROVE  Goal
    BY <1>1, <1>4 DEF Observes
  <1>5. ASSUME NEW w \in Workers, CommitWrite(w)
        PROVE  Goal
    <2> DEFINE j == job[w]
               q == applySessionEvent(snap[w], j, sess[j.s])
    <2>1. /\ j \in Job /\ j.s \in Sessions /\ snap[w] \in Row /\ sess[j.s] \in Row
          /\ Exists(j.s) /\ sess' = [sess EXCEPT ![j.s] = q]
      BY <1>5, CommitFacts
    <2>2. q.adhoc = sess[j.s].adhoc /\ q.createdAt = sess[j.s].createdAt
      BY <2>1, ApplyIdentity
    <2> HIDE DEF j, q
    <2>3. CASE s = j.s
      <3>1. sess'[s] = q
        BY <1>0, <2>1, <2>3 DEF TypeOK
      <3>2. QED
        BY <2>1, <2>2, <2>3, <3>1
    <2>4. CASE s # j.s
      BY <1>0, <1>1, <2>1, <2>4 DEF TypeOK
    <2>5. QED
      BY <2>3, <2>4
  <1>6. QED
    BY <1>0, <1>1, <1>2, <1>3, <1>4, <1>5, NextTables

LEMMA ClockStep ==
  ASSUME IInv, Clock, [Next]_vars
  PROVE  Clock'
  <1>0. TypeOK
    BY DEF IInv
  <1>1. now' <= MaxTime
    <2>1. CASE now' = now
      BY <2>1 DEF Clock
    <2>2. CASE Tick
      BY <1>0, <2>2, BoundsAssumption DEF Tick, TypeOK
    <2>3. now' = now \/ Tick
      BY DEF Next, create, connectInfo, quickConnect, NewSession, Request,
             technicianReport, quickConnectEnd, recordScriptTelemetry, launcherRedeemed,
             StartRecord, reconcileEndpointSignal, expireStaleSessions,
             closeAbandonedSessions, Continue, Read, CommitDuplicate, CommitStale,
             CommitWrite, SaveNotes, BatchDone, expireOpened, Touch, Ambiguous,
             NextCall, vars
    <2>4. QED
      BY <2>1, <2>2, <2>3
  <1>2. ASSUME NEW s \in Sessions, Exists(s)'
        PROVE  sess'[s].createdAt \in Nat
    BY <1>2, IdentityStep DEF Clock, Exists
  <1>3. QED
    BY <1>1, <1>2 DEF Clock

\* A connection is newly attributed only to a claimed launch, which is then
\* claimed no longer.  UnburntInv rules out that a launch not yet confirmed
\* already has the agent's confirmation among its events.
LEMMA AttributedStep ==
  ASSUME IInv, UnburntInv, [Next]_vars, NEW s \in Attributed'
  PROVE  s \in Attributed \/ (s \in Claimed /\ s \notin Claimed')
  <1> DEFINE Goal == s \in Attributed \/ (s \in Claimed /\ s \notin Claimed')
  <1> SUFFICES Goal
    OBVIOUS
  <1>0. TypeOK /\ s \in Sessions /\ sess[s] \in Row
    BY DEF Attributed, ManagedIn, IInv, TypeOK
  <1>1. /\ sess'[s].status = "SESSION_STARTED" /\ ~sess'[s].adhoc
        /\ \E e \in events'[s] : e.applied /\ e.key = ConfirmKey
    BY DEF Attributed, ManagedIn, AppliedEvents
  <1>2. ASSUME sess[s].status = "SESSION_STARTED",
               \E e \in events[s] : e.applied /\ e.key = ConfirmKey
        PROVE  Goal
    <2>1. ~sess[s].adhoc
      BY <1>0, <1>1, <1>2, IdentityStep DEF Exists
    <2>2. QED
      BY <1>0, <1>2, <2>1 DEF Attributed, ManagedIn, AppliedEvents
  <1>3. CASE sess'[s] = sess[s] /\ events'[s] = events[s]
    BY <1>1, <1>2, <1>3
  <1>4. ASSUME NEW x \in Sessions, Creates(x)
        PROVE  Goal
    <2>1. PICK q \in Row, rows \in SUBSET {LaunchEvent} :
            /\ sess' = [sess EXCEPT ![x] = q]
            /\ events' = [events EXCEPT ![x] = rows]
            /\ q.status \in {"PENDING", "LAUNCH_REQUESTED"}
      BY <1>4 DEF Creates
    <2>2. CASE s = x
      <3>1. sess'[s] = q
        BY <1>0, <2>1, <2>2 DEF TypeOK
      <3>2. QED
        BY <1>1, <2>1, <3>1
    <2>3. CASE s # x
      BY <1>0, <1>3, <2>1, <2>3 DEF TypeOK
    <2>4. QED
      BY <2>2, <2>3
  <1>5. ASSUME NEW x \in Sessions, Touches(x)
        PROVE  Goal
    <2>1. PICK t \in Nat : sess' = [sess EXCEPT ![x].signalAt = t]
      BY <1>5 DEF Touches
    <2>2. \/ sess'[s] = sess[s]
          \/ sess'[s] = [sess[s] EXCEPT !.signalAt = t]
      BY <1>0, <2>1 DEF TypeOK
    <2>3. sess'[s].status = sess[s].status /\ events'[s] = events[s]
      BY <1>0, <1>5, <2>2 DEF Touches, Row
    <2>4. QED
      BY <1>1, <1>2, <2>3
  <1>6. ASSUME NEW x \in Sessions, Observes(x)
        PROVE  Goal
    <2>1. PICK e : ~e.applied /\ events' = [events EXCEPT ![x] = @ \cup {e}]
      BY <1>6 DEF Observes
    <2>2. sess'[s] = sess[s] /\ events'[s] \in {events[s], events[s] \cup {e}}
      BY <1>0, <1>6, <2>1 DEF Observes, TypeOK
    <2>3. QED
      BY <1>1, <1>2, <2>1, <2>2
  <1>7. ASSUME NEW w \in Workers, CommitWrite(w)
        PROVE  Goal
    <2> DEFINE j == job[w]
               q == applySessionEvent(snap[w], j, sess[j.s])
               e == Stored(snap[w], j)
    <2>1. /\ j \in Job /\ j.s \in Sessions /\ snap[w] \in Row /\ sess[j.s] \in Row
          /\ Exists(j.s)
          /\ HasPatch(snap[w], j) => SameVerdict(snap[w], sess[j.s])
          /\ sess' = [sess EXCEPT ![j.s] = q]
          /\ events' = [events EXCEPT ![j.s] = @ \cup {e}]
      BY <1>7, CommitFacts
    <2>2. CASE s # j.s
      <3> HIDE DEF j, q, e
      <3>1. QED
        BY <1>0, <1>3, <2>1, <2>2 DEF TypeOK
    <2>3. CASE s = j.s /\ ~Applied(snap[w], j)
      <3>1. q.status = sess[s].status
        BY <2>1, <2>3, UnappliedKeeps DEF SameStory, SameVerdict
      <3>2. ~e.applied
        BY <2>3 DEF Stored
      <3> HIDE DEF j, q, e
      <3>3. sess'[s] = q /\ events'[s] = events[s] \cup {e}
        BY <1>0, <2>1, <2>3 DEF TypeOK
      <3>4. QED
        BY <1>1, <1>2, <3>1, <3>2, <3>3
    <2>4. CASE s = j.s /\ Applied(snap[w], j)
      <3>1. HasPatch(snap[w], j) /\ sess[s].status = snap[w].status
        BY <2>1, <2>4 DEF Applied, HasPatch, SameVerdict
      <3>2. j \in Pending(w) /\ e.key = j.key
        BY <1>7 DEF CommitWrite, Pending, Stored
      <3>3. ASSUME j.type \notin ForwardTypes
            PROVE  q.status \in TERMINAL
        BY <2>1, <2>4, <3>1, <3>3, AppliedClose
      <3>4. ASSUME j.type \in ForwardTypes
            PROVE  snap[w].status # "SESSION_STARTED" /\ snap[w].status \notin TERMINAL
        BY <2>1, <2>4, <3>4, AppliedForward
      <3> HIDE DEF j, q, e
      <3>5. sess'[s] = q /\ events'[s] = events[s] \cup {e}
        BY <1>0, <2>1, <2>4 DEF TypeOK
      <3>6. sess[s].status \in OPEN_STATUSES \ {"SESSION_STARTED"}
        <4>1. j.type \in ForwardTypes
          BY <1>1, <3>3, <3>5 DEF TERMINAL
        <4>2. QED
          BY <1>0, <2>1, <2>4, <3>1, <3>4, <4>1, StatusKinds DEF Exists, Row
      <3>7. \A f \in events[s] : f.key # ConfirmKey
        BY <1>0, <3>6 DEF UnburntInv, Unburnt
      <3>8. j.key = ConfirmKey
        BY <1>1, <3>2, <3>5, <3>7
      <3>9. s \in Claimed
        BY <1>0, <2>4, <3>2, <3>6, <3>8 DEF Claimed
      <3>10. s \notin Claimed'
        BY <1>1 DEF Claimed
      <3>11. QED
        BY <3>9, <3>10
    <2>5. QED
      BY <2>2, <2>3, <2>4
  <1>8. QED
    BY <1>0, <1>3, <1>4, <1>5, <1>6, <1>7, NextTables

\* Within one launch window, a claimed launch is still one that any
\* heartbeat finds.
LEMMA ClaimedIsRecent ==
  ASSUME MaxTime <= LaunchTTL, TypeOK, Clock, Attribution
  PROVE  Claimed \subseteq RecentLaunches
  <1> SUFFICES ASSUME NEW s \in Claimed
               PROVE  s \in RecentLaunches
    OBVIOUS
  <1>1. /\ s \in Sessions /\ sess[s].status \in OPEN_STATUSES \ {"SESSION_STARTED"}
        /\ Exists(s) /\ ~sess[s].adhoc
    BY DEF Claimed, Attribution
  <1>2. sess[s].createdAt \in Nat
    BY <1>1 DEF Clock
  <1>3. sess[s].createdAt >= now - LaunchTTL
    BY <1>2, BoundsAssumption DEF Clock, TypeOK
  <1>4. QED
    BY <1>1, <1>3 DEF RecentLaunches, ManagedIn

\* A launch becomes claimed only when a heartbeat starts, finds it to be the
\* one recent launch, and counts a connection more than are confirmed.
LEMMA ClaimedStep ==
  ASSUME IInv, Attribution, [Next]_vars, NEW s \in Claimed'
  PROVE  \/ s \in Claimed
         \/ /\ s \in RecentLaunches
            /\ \E active \in 0..MaxActive :
                 Attributable(active, ManagedIn({"SESSION_STARTED"}), RecentLaunches)
  <1>0. TypeOK /\ TypeOK'
    BY TypeStep DEF IInv
  <1>1. PICK w \in Workers : \E j \in Pending(w)' : j.s = s /\ j.key = ConfirmKey
    BY DEF Claimed
  <1> PICK j \in Pending(w)' : j.s = s /\ j.key = ConfirmKey
    BY <1>1
  <1>2. s \in Sessions /\ sess'[s].status \in OPEN_STATUSES \ {"SESSION_STARTED"}
    BY DEF Claimed
  <1>3. CASE Fresh(j)
    BY <1>3 DEF Fresh
  <1>4. ASSUME NEW i \in Pending(w), SameCall(i, j)
        PROVE  s \in Claimed
    <2>1. i.s = s /\ i.key = ConfirmKey
      BY <1>4 DEF SameCall
    <2>2. Exists(s)
      BY <2>1 DEF Attribution
    <2>3. sess[s].status \in OPEN_STATUSES \ {"SESSION_STARTED"}
      <3>1. OneRow
        BY NextOneRow
      <3>2. ASSUME NEW x \in Sessions, NEW q \in Row, sess' = [sess EXCEPT ![x] = q],
                   RowStep(sess[x], q)
            PROVE  sess[s].status \in OPEN_STATUSES \ {"SESSION_STARTED"}
        <4>1. CASE x = s
          <5>1. sess[s] \in Row /\ sess'[s] = q
            BY <1>0, <1>2, <3>2, <4>1 DEF TypeOK
          <5>2. QED
            BY <1>2, <2>2, <3>2, <4>1, <5>1, SettledStep DEF Exists
        <4>2. CASE x # s
          BY <1>0, <1>2, <3>2, <4>2 DEF TypeOK
        <4>3. QED
          BY <4>1, <4>2
      <3>3. QED
        BY <1>2, <3>1, <3>2 DEF OneRow
    <2>4. QED
      BY <1>2, <2>1, <2>3 DEF Claimed
  <1>5. QED
    BY <1>0, <1>3, <1>4, NextPending

\* Sets of sessions have sizes.
LEMMA Sizes ==
  ASSUME NEW S \in SUBSET Sessions, NEW T \in SUBSET S
  PROVE  /\ IsFiniteSet(S) /\ Cardinality(S) \in Nat /\ Cardinality(T) \in Nat
         /\ Cardinality(T) <= Cardinality(S)
         /\ \A c : IsFiniteSet(S \cup {c}) /\ Cardinality(S \cup {c}) \in Nat
                   /\ Cardinality(S \cup {c}) <= Cardinality(S) + 1
  <1>1. IsFiniteSet(S)
    BY SessionsAssumption, FS_Subset
  <1>2. IsFiniteSet(T) /\ Cardinality(T) <= Cardinality(S)
    BY <1>1, FS_Subset
  <1>3. Cardinality(S) \in Nat /\ Cardinality(T) \in Nat
    BY <1>1, <1>2, FS_CardinalityType
  <1>4. ASSUME NEW c
        PROVE  /\ IsFiniteSet(S \cup {c}) /\ Cardinality(S \cup {c}) \in Nat
               /\ Cardinality(S \cup {c}) <= Cardinality(S) + 1
    <2>1. /\ IsFiniteSet(S \cup {c})
          /\ Cardinality(S \cup {c}) = IF c \in S THEN Cardinality(S) ELSE Cardinality(S) + 1
      BY <1>1, FS_AddElement
    <2>2. QED
      BY <1>3, <2>1
  <1>5. QED
    BY <1>1, <1>2, <1>3, <1>4

\* Attributable leaves room, and names one launch.
LEMMA AttributableFacts ==
  ASSUME NEW active \in 0..MaxActive,
         NEW confirmed \in SUBSET Sessions, NEW candidates \in SUBSET Sessions,
         Attributable(active, confirmed, candidates)
  PROVE  /\ Cardinality(confirmed) < MaxActive
         /\ \A s, t \in candidates : s = t
  <1>1. IsFiniteSet(candidates) /\ Cardinality(confirmed) \in Nat
    BY Sizes
  <1>2. \E x : candidates = {x}
    BY <1>1, FS_Singleton DEF Attributable
  <1>3. Cardinality(confirmed) < MaxActive
    BY <1>1, BoundsAssumption DEF Attributable
  <1>4. QED
    BY <1>2, <1>3

LEMMA AttributionStep ==
  ASSUME MaxTime <= LaunchTTL, IInv, Clock, UnburntInv, Attribution, [Next]_vars
  PROVE  Attribution'
  <1> DEFINE confirmed == ManagedIn({"SESSION_STARTED"})
             Room == Cardinality(confirmed) < MaxActive
  <1>0. TypeOK /\ TypeOK' /\ MaxActive \in Nat
    BY TypeStep, BoundsAssumption DEF IInv
  <1>1. /\ Claimed \subseteq RecentLaunches
        /\ confirmed \in SUBSET Sessions /\ RecentLaunches \in SUBSET Sessions
        /\ Attributed \in SUBSET confirmed /\ Attributed \in SUBSET Sessions
        /\ Attributed' \in SUBSET Sessions
    BY <1>0, ClaimedIsRecent DEF ManagedIn, RecentLaunches, Attributed
  <1>2. /\ Cardinality(Attributed) \in Nat /\ Cardinality(Attributed') \in Nat
        /\ Cardinality(confirmed) \in Nat
        /\ Cardinality(Attributed) <= Cardinality(confirmed)
    BY <1>1, Sizes
  <1>3. ASSUME NEW w \in Workers, NEW j \in Pending(w)', j.key = ConfirmKey
        PROVE  Exists(j.s)' /\ ~sess'[j.s].adhoc
    <2>1. j.s \in Sessions /\ Exists(j.s) /\ ~sess[j.s].adhoc
      <3>1. CASE Fresh(j)
        BY <1>3, <3>1, StatusKinds DEF Fresh, RecentLaunches, ManagedIn, Exists
      <3>2. ASSUME NEW i \in Pending(w), SameCall(i, j)
            PROVE  j.s \in Sessions /\ Exists(j.s) /\ ~sess[j.s].adhoc
        <4>1. i.key = ConfirmKey /\ i.s = j.s
          BY <1>3, <3>2 DEF SameCall
        <4>2. i \in Job
          BY <1>0 DEF Pending, TypeOK
        <4>3. QED
          BY <4>1, <4>2 DEF Attribution, Job
      <3>3. QED
        BY <1>0, <3>1, <3>2, NextPending
    <2>2. QED
      BY <2>1, IdentityStep, ExistsStep, NextOneRow
  <1>4. ASSUME NEW s \in Claimed'
        PROVE  \/ s \in Claimed
               \/ s \in RecentLaunches /\ Room /\ \A t, u \in RecentLaunches : t = u
    <2>1. CASE s \in Claimed
      BY <2>1
    <2>2. ASSUME s \in RecentLaunches, NEW active \in 0..MaxActive,
                 Attributable(active, confirmed, RecentLaunches)
          PROVE  Room /\ \A t, u \in RecentLaunches : t = u
      BY <1>1, <2>2, AttributableFacts
    <2>3. QED
      BY <2>1, <2>2, ClaimedStep
  <1>5. \A s, t \in Claimed' : s = t
    BY <1>1, <1>4 DEF Attribution
  <1>6. ASSUME NEW s \in Claimed', NEW t \in Claimed
        PROVE  s = t
    BY <1>1, <1>4, <1>6 DEF Attribution
  <1>7. CASE Attributed' \in SUBSET Attributed
    <2>1. Cardinality(Attributed') <= Cardinality(Attributed)
      BY <1>1, <1>7, Sizes
    <2>2. Cardinality(Attributed') <= MaxActive
      BY <1>0, <1>2, <2>1 DEF Attribution
    <2>3. ASSUME NEW s \in Claimed'
          PROVE  Cardinality(Attributed') < MaxActive
      <3>1. CASE s \in Claimed
        BY <1>0, <1>2, <2>1, <3>1 DEF Attribution
      <3>2. CASE Room
        BY <1>0, <1>2, <2>1, <3>2
      <3>3. QED
        BY <1>4, <3>1, <3>2
    <2>4. QED
      BY <1>3, <1>5, <2>2, <2>3 DEF Attribution
  <1>8. ASSUME NEW c \in Claimed, c \in Attributed', c \notin Claimed'
        PROVE  Attribution'
    <2>1. Claimed' = {}
      BY <1>6, <1>8
    <2>2. Attributed' \in SUBSET (Attributed \cup {c})
      BY AttributedStep DEF Attribution
    <2>3. c \in Sessions
      BY DEF Claimed
    <2>4. /\ Attributed \cup {c} \in SUBSET Sessions
          /\ Cardinality(Attributed \cup {c}) \in Nat
          /\ Cardinality(Attributed \cup {c}) <= Cardinality(Attributed) + 1
      BY <1>1, <2>3, Sizes
    <2>5. Cardinality(Attributed') <= Cardinality(Attributed \cup {c})
      BY <2>2, <2>4, Sizes
    <2>6. Cardinality(Attributed) < MaxActive
      BY DEF Attribution
    <2>7. Cardinality(Attributed') <= MaxActive
      BY <1>0, <1>2, <2>4, <2>5, <2>6
    <2>8. QED
      BY <1>3, <2>1, <2>7 DEF Attribution
  <1>9. QED
    BY <1>7, <1>8, AttributedStep

\* Within one launch window, overlapping heartbeats never attribute more
\* connections at a time than the largest number any of them reported,
\* however many are in flight: all those that attribute one agree on the
\* launch, because each found it to be the only recent one.  Across the end
\* of the window two of them may disagree: a launch that one of them
\* selected is too old for the next, which then selects a newer one.
THEOREM AttributionIsBounded ==
  ASSUME MaxTime <= LaunchTTL
  PROVE  Spec => []AttributionBounded
  <1>1. Init => Clock /\ UnburntInv /\ Attribution
    <2> SUFFICES ASSUME Init PROVE Clock /\ UnburntInv /\ Attribution
      OBVIOUS
    <2>1. Clock /\ UnburntInv
      BY BoundsAssumption DEF Init, Clock, Exists, NoRow, UnburntInv, Unburnt
    <2>2. Attributed = {} /\ Claimed = {}
      BY DEF Init, Attributed, Claimed, ManagedIn, NoRow, Pending, OPEN_STATUSES,
             PRE_CLIENT_STATUSES
    <2>3. \A w \in Workers : Pending(w) = {}
      BY DEF Init, Pending
    <2>4. Cardinality(Attributed) = 0
      BY <2>2, FS_EmptySet
    <2>5. QED
      BY <2>1, <2>2, <2>3, <2>4, BoundsAssumption DEF Attribution
  <1>2. IInv /\ Clock /\ [Next]_vars => Clock'
    BY ClockStep
  <1>3. IInv /\ KeyInv /\ UnburntInv /\ [Next]_vars => UnburntInv'
    BY UnburntStep
  <1>4. IInv /\ Clock /\ UnburntInv /\ Attribution /\ [Next]_vars => Attribution'
    BY AttributionStep
  <1>5. Attribution => AttributionBounded
    BY DEF Attribution, AttributionBounded, Attributed, ConfirmKey
  <1>6. QED
    BY <1>1, <1>2, <1>3, <1>4, <1>5, Inductive, KeysFit, PTL DEF Spec
=============================================================================
