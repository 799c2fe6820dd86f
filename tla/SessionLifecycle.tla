-------------------------- MODULE SessionLifecycle --------------------------
(***************************************************************************)
(* What the session subsystem promises about a support session, without    *)
(* handlers, snapshots or timelines: a session is launched once, confirmed *)
(* at most once, and closed at most once; only a confirmed session can end *)
(* with a measured duration; a confirmed session never turns into a failed *)
(* or unknown one; a closed one never changes.                             *)
(***************************************************************************)
CONSTANT Sessions

VARIABLES
  stage,     \* how far each session has come
  measured   \* the sessions whose duration counts in the statistics

vars == <<stage, measured>>

Closed == {"completed", "failed", "canceled", "unknown"}
Stages == {"absent", "launched", "confirmed"} \cup Closed

TypeOK == /\ stage \in [Sessions -> Stages]
          /\ measured \subseteq Sessions

Init == /\ stage = [s \in Sessions |-> "absent"]
        /\ measured = {}

Launch(s) ==
  /\ stage[s] = "absent"
  /\ stage' = [stage EXCEPT ![s] = "launched"]
  /\ UNCHANGED measured

Confirm(s) ==
  /\ stage[s] = "launched"
  /\ stage' = [stage EXCEPT ![s] = "confirmed"]
  /\ UNCHANGED measured

\* Closed without proof that a connection took place.
GiveUp(s, verdict) ==
  /\ stage[s] = "launched"
  /\ stage' = [stage EXCEPT ![s] = verdict]
  /\ UNCHANGED measured

\* The end of a confirmed connection, timed or not.
End(s) ==
  /\ stage[s] = "confirmed"
  /\ stage' = [stage EXCEPT ![s] = "completed"]
  /\ measured' \in {measured, measured \cup {s}}

Abort(s) ==
  /\ stage[s] = "confirmed"
  /\ stage' = [stage EXCEPT ![s] = "canceled"]
  /\ UNCHANGED measured

Next ==
  \E s \in Sessions :
    \/ Launch(s) \/ Confirm(s) \/ End(s) \/ Abort(s)
    \/ \E verdict \in Closed : GiveUp(s, verdict)

Spec == Init /\ [][Next]_vars
=============================================================================
