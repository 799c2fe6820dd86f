---------------------------- MODULE SessionState ----------------------------
(***************************************************************************)
(* The pure decision function of apps/api/src/sessions/session-state.ts:   *)
(* what one piece of evidence does to one support session.                 *)
(*                                                                         *)
(* A row holds the columns that decisions read or write.  Timestamps are   *)
(* naturals, NoTime is SQL null.  The four evidence timestamps             *)
(* launchRequestedAt / launcherAckAt / clientOpenedAt are only ever tested  *)
(* for null, so the row keeps the set `evidence' of the ones filled in.    *)
(* endReason, completedAt and startedAt are labels no decision reads.      *)
(***************************************************************************)
EXTENDS Integers

NoTime == -1
Time == Nat \cup {NoTime}

TERMINAL == {"SESSION_COMPLETED", "FAILED", "CANCELED", "STATUS_UNKNOWN"}

PRE_CLIENT_STATUSES == {"PENDING", "LAUNCH_REQUESTED", "LAUNCHER_ACKNOWLEDGED"}

OPEN_STATUSES == PRE_CLIENT_STATUSES \cup {"CLIENT_OPENED", "SESSION_STARTED"}

\* "ABSENT" is a session id for which no row exists yet.
Statuses == OPEN_STATUSES \cup TERMINAL \cup {"ABSENT"}

EventTypes ==
  {"launch_requested", "launcher_acknowledged", "client_opened",
   "client_launch_failed", "connection_confirmed", "disconnected",
   "technician_completed", "technician_canceled", "technician_failed",
   "timeout_unknown", "timeout_ended"}

Sources == {"server", "launcher", "connect_script", "endpoint_agent",
            "technician", "timeout"}

Qualities == {"MEASURED", "REPORTED", "INFERRED", "UNKNOWN"}

ALLOWED_SOURCES(type) ==
  CASE type = "launch_requested"      -> {"server"}
    [] type = "launcher_acknowledged" -> {"server", "launcher", "connect_script"}
    [] type \in {"client_opened", "client_launch_failed"}
                                      -> {"launcher", "connect_script"}
    [] type = "connection_confirmed"  -> {"endpoint_agent", "technician"}
    [] type = "disconnected"          -> {"endpoint_agent"}
    [] type \in {"technician_completed", "technician_canceled",
                 "technician_failed"} -> {"technician"}
    [] OTHER                          -> {"timeout"}

RANK(status) ==
  CASE status = "ABSENT"                -> -1
    [] status = "PENDING"               -> 0
    [] status = "LAUNCH_REQUESTED"      -> 1
    [] status = "LAUNCHER_ACKNOWLEDGED" -> 2
    [] status = "CLIENT_OPENED"         -> 3
    [] status = "SESSION_STARTED"       -> 4
    [] OTHER                            -> 9

Row == [status      : Statuses,
        source      : Sources \cup {"none"},   \* statusSource
        changedAt   : Time,                    \* statusChangedAt
        createdAt   : Time,
        confirmedAt : Time,                    \* connectionConfirmedAt
        endedAt     : Time,
        signalAt    : Time,                    \* lastSignalAt
        evidence    : SUBSET EventTypes,
        quality     : Qualities,               \* timingQuality
        duration    : Time,
        adhoc       : BOOLEAN]                 \* isAdHoc

\* An event handed to applySessionEvent; at = NoTime when the reporter gave
\* no occurredAt.
Event == [type : EventTypes, source : Sources, at : Time, recv : Nat]

-----------------------------------------------------------------------------

\* The reporter's time, kept inside [createdAt, receivedAt].
clamp(at, lo, hi) ==
  LET t == IF at = NoTime THEN hi ELSE at
  IN  IF t < lo THEN lo ELSE IF t > hi THEN hi ELSE t

EventTime(snap, ev) == clamp(ev.at, snap.createdAt, ev.recv)

Later(a, b) == IF a > b THEN a ELSE b

\* Where a progress event leads.
ForwardTarget(type) ==
  CASE type = "launch_requested"      -> "LAUNCH_REQUESTED"
    [] type = "launcher_acknowledged" -> "LAUNCHER_ACKNOWLEDGED"
    [] type = "client_opened"         -> "CLIENT_OPENED"
    [] OTHER                          -> "SESSION_STARTED"

ForwardTypes == {"launch_requested", "launcher_acknowledged", "client_opened",
                 "connection_confirmed"}

\* What the event type alone demands of an open session's status.
Applicable(snap, ev) ==
  CASE ev.type \in ForwardTypes    -> RANK(ForwardTarget(ev.type)) > RANK(snap.status)
    [] ev.type \in {"disconnected", "timeout_ended"}
                                   -> snap.status = "SESSION_STARTED"
    [] ev.type = "timeout_unknown" -> snap.status # "SESSION_STARTED"
    [] OTHER                       -> TRUE

\* Mutant: no terminal lock.
Applied_NoLock(snap, ev) ==
  ev.source \in ALLOWED_SOURCES(ev.type) /\ Applicable(snap, ev)

\* result.applied: does the event change the status of the session as read?
Applied(snap, ev) ==
  /\ ev.source \in ALLOWED_SOURCES(ev.type)
  /\ snap.status \notin TERMINAL
  /\ Applicable(snap, ev)

\* An event that does not advance the session still fills in evidence the
\* row never had (backfill), and a repeated confirmation is a sign of life.
Backfills(snap, ev) ==
  /\ ev.type \in {"launch_requested", "launcher_acknowledged", "client_opened"}
  /\ ev.type \notin snap.evidence

HasPatch(snap, ev) ==
  /\ ev.source \in ALLOWED_SOURCES(ev.type)
  /\ snap.status \notin TERMINAL
  /\ \/ Applicable(snap, ev)
     \/ Backfills(snap, ev)
     \/ ev.type = "connection_confirmed"

-----------------------------------------------------------------------------
(* The patches.  Each is the row that results from writing the columns     *)
(* decided on the snapshot `snap' into the row as it is at the time of the *)
(* write; columns the patch does not name keep the value of `row'.         *)

Signal(snap, ev) == Later(EventTime(snap, ev), snap.signalAt)

forward(snap, ev, row) ==
  [row EXCEPT !.status = ForwardTarget(ev.type), !.source = ev.source,
              !.changedAt = ev.recv, !.signalAt = Signal(snap, ev),
              !.evidence = IF ev.type = "connection_confirmed" THEN @
                           ELSE @ \cup {ev.type},
              !.confirmedAt = IF ev.type = "connection_confirmed"
                              THEN EventTime(snap, ev) ELSE @,
              !.quality = IF ev.type # "connection_confirmed" THEN @
                          ELSE IF ev.source = "endpoint_agent" THEN "UNKNOWN"
                          ELSE "REPORTED"]

\* Mutant: a technician-confirmed start counts as measured.
end_AnyStart(snap, ev, quality, row) ==
  LET endAt == Later(EventTime(snap, ev), snap.confirmedAt) IN
  [row EXCEPT !.status = "SESSION_COMPLETED", !.source = ev.source,
              !.changedAt = ev.recv, !.signalAt = endAt, !.endedAt = endAt,
              !.duration = IF quality = "MEASURED"
                           THEN endAt - snap.confirmedAt ELSE NoTime,
              !.quality = quality]

\* The end of a confirmed connection: measured only when both ends came from
\* the endpoint agent.
end(snap, ev, quality, row) ==
  LET start    == snap.confirmedAt
      endAt    == Later(EventTime(snap, ev), start)
      measured == /\ quality = "MEASURED"
                  /\ snap.source = "endpoint_agent"
                  /\ start # NoTime
  IN [row EXCEPT !.status = "SESSION_COMPLETED", !.source = ev.source,
                 !.changedAt = ev.recv, !.signalAt = endAt, !.endedAt = endAt,
                 !.duration = IF measured THEN endAt - start ELSE NoTime,
                 !.quality = IF quality = "MEASURED" /\ ~measured
                             THEN "REPORTED" ELSE quality]

\* A closing verdict with no duration claimed.
close(snap, ev, status, quality, row) ==
  [row EXCEPT !.status = status, !.source = ev.source, !.changedAt = ev.recv,
              !.signalAt = Signal(snap, ev), !.endedAt = EventTime(snap, ev),
              !.duration = NoTime, !.quality = quality]

\* Mutant: a late failure report erases the confirmation.
fail_Always(snap, ev, row) == close(snap, ev, "FAILED", "UNKNOWN", row)

\* A reported failure is the end of a confirmed connection, a failed launch
\* otherwise.
fail(snap, ev, row) ==
  IF snap.status = "SESSION_STARTED"
  THEN end(snap, ev, IF ev.source = "technician" THEN "REPORTED" ELSE "UNKNOWN", row)
  ELSE close(snap, ev, "FAILED", "UNKNOWN", row)

closeByTimeout(ev, status, endedAt, quality, row) ==
  [row EXCEPT !.status = status, !.source = "timeout", !.changedAt = ev.recv,
              !.endedAt = endedAt, !.duration = NoTime, !.quality = quality]

\* applySessionEvent for an event that applies.
AppliedPatch(snap, ev, row) ==
  LET confirmed == snap.status = "SESSION_STARTED" IN
  CASE ev.type \in ForwardTypes -> forward(snap, ev, row)
    [] ev.type \in {"client_launch_failed", "technician_failed"} ->
         fail(snap, ev, row)
    [] ev.type = "disconnected" -> end(snap, ev, "MEASURED", row)
    [] ev.type = "technician_completed" ->
         IF confirmed THEN end(snap, ev, "REPORTED", row)
         ELSE close(snap, ev, "SESSION_COMPLETED", "UNKNOWN", row)
    [] ev.type = "technician_canceled" ->
         close(snap, ev, "CANCELED",
               IF confirmed THEN "REPORTED" ELSE "UNKNOWN", row)
    [] ev.type = "timeout_unknown" ->
         closeByTimeout(ev, "STATUS_UNKNOWN", NoTime, "UNKNOWN", row)
    [] OTHER ->
         closeByTimeout(ev, "SESSION_COMPLETED",
                        IF snap.signalAt # NoTime THEN snap.signalAt
                        ELSE snap.confirmedAt, "INFERRED", row)

\* What an event that is stored with applied = false still writes.
UnappliedPatch(snap, ev, row) ==
  IF ev.type = "connection_confirmed"
  THEN [row EXCEPT !.signalAt = Signal(snap, ev)]
  ELSE [row EXCEPT !.evidence = @ \cup {ev.type}]

\* The row after persisting the decision taken on `snap'.
applySessionEvent(snap, ev, row) ==
  IF ~HasPatch(snap, ev) THEN row
  ELSE IF Applied(snap, ev) THEN AppliedPatch(snap, ev, row)
  ELSE UnappliedPatch(snap, ev, row)
=============================================================================
