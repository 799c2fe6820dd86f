-------------------------- MODULE DeviceCredentials --------------------------
(***************************************************************************)
(* The device secret and the RustDesk password of one computer, on both    *)
(* sides: heartbeat, confirm-rotation and the binding of a claim           *)
(* (apps/api/src/enrollment/enrollment.service.ts), rotateCredential and   *)
(* acceptDeviceSecret (endpoints.service.ts), and the installer and        *)
(* heartbeat.ps1 they talk to (public.controller.ts).                      *)
(*                                                                         *)
(* The server keeps a copy of a password that only the computer can set.   *)
(* A worker is one request in flight; every database statement is atomic,  *)
(* and other requests run between two of them.  Requests and answers get   *)
(* lost: the script then gives up and the handler goes on.                 *)
(*                                                                         *)
(* Secrets and passwords are numbers, 0 for none; a password is positive   *)
(* when an installer made it and negative when rotateCredential() did.     *)
(* How old a candidate is, is kept as two flags: seen lately, and first    *)
(* seen long enough ago.                                                   *)
(***************************************************************************)
EXTENDS Integers, FiniteSets

CONSTANTS
  Workers,       \* requests that may be in flight together
  MaxInstalls,   \* bound on the passwords made by installers
  MaxRotations,  \* bound on the passwords made by the server
  MaxPasswords,  \* bound on all of them together
  MaxSecrets,    \* bound on the device secrets made
  Faults         \* what the computer may do beyond losing requests and answers

\* "noAnswer": the answer to a confirmation is lost.  "notTaken": RustDesk
\* does not take a rotated password.  "byHand": the installer is started at
\* the computer while heartbeat.ps1 runs.
ASSUME CredentialsAssumption ==
  /\ MaxInstalls \in Nat \ {0} /\ MaxRotations \in Nat /\ MaxPasswords \in Nat
  /\ MaxSecrets \in Nat \ {0}
  /\ Faults \subseteq {"noAnswer", "notTaken", "byHand"}

VARIABLES
  node,      \* the RustdeskNode row
  disk,      \* heartbeat.dat
  rd,        \* the password RustDesk accepts
  doubtful,  \* the installer warned that RustDesk did not confirm the password
  run,       \* the run of heartbeat.ps1
  inst,      \* the run of the installer
  installs, rotations, secrets,   \* how many were made
  taken,     \* history: rotated passwords RustDesk has accepted
  pc,        \* where each worker is
  loc        \* its locals

computer == <<disk, rd, doubtful, run, inst, taken>>
made     == <<installs, rotations, secrets>>
vars     == <<node, computer, made, pc, loc>>

NoWorker  == "none"
Secrets   == 0..MaxSecrets
Passwords == (-MaxRotations)..MaxInstalls

\* The candidate columns.  live: candidateSecretSeenAt is recent; settled:
\* candidateSecretFirstAt is CANDIDATE_SETTLE_MS ago.
Candidate == [secret : Secrets, pw : Passwords,
              live : BOOLEAN, settled : BOOLEAN, conflict : BOOLEAN]
Node      == [secret : Secrets, perm : Passwords, pending : Passwords, cand : Candidate]

NoCandidate == [secret |-> 0, pw |-> 0, live |-> FALSE, settled |-> FALSE, conflict |-> FALSE]

PCs == {"idle", "update", "offer", "refuse", "answer", "swap", "claim", "bind"}

\* seen: the candidate as the handler read it.
Locals == [secret : Secrets, pw : Passwords, seen : Candidate]
NoLoc  == [secret |-> 0, pw |-> 0, seen |-> NoCandidate]

RunOff  == [at |-> "off", w |-> NoWorker, secret |-> 0, rot |-> 0]
InstOff == [at |-> "off", w |-> NoWorker, secret |-> 0, pw |-> 0]

\* A computer that was enrolled.
Init ==
  /\ node = [secret |-> 1, perm |-> 1, pending |-> 0, cand |-> NoCandidate]
  /\ disk = [secret |-> 1, pw |-> 1] /\ rd = 1 /\ doubtful = FALSE
  /\ run = RunOff /\ inst = InstOff /\ taken = {}
  /\ installs = 1 /\ rotations = 0 /\ secrets = 1
  /\ pc = [w \in Workers |-> "idle"]
  /\ loc = [w \in Workers |-> NoLoc]

Goto(w, p, l) == /\ pc' = [pc EXCEPT ![w] = p]
                 /\ loc' = [loc EXCEPT ![w] = l]
Return(w)     == Goto(w, "idle", NoLoc)

\* An answer, as far as somebody still waits for it.  `next' is where
\* heartbeat.ps1 goes on with `rot'; the installer only wants to be done.
Answer(w, next, rot) ==
  /\ Return(w)
  /\ run' = IF run.at \in {"beat", "confirming"} /\ run.w = w
            THEN IF next = "off" THEN RunOff
                 ELSE [run EXCEPT !.at = next, !.w = NoWorker, !.rot = rot]
            ELSE run
  /\ inst' = IF inst.at \in {"claiming", "beating"} /\ inst.w = w
             THEN [inst EXCEPT !.at = "write", !.w = NoWorker] ELSE inst
  /\ UNCHANGED <<disk, rd, doubtful, taken, made>>

-----------------------------------------------------------------------------
(* heartbeat().                                                            *)

\* The row is read and the secret checked before anything is written.
heartbeat(w, secret, pw) ==
  /\ pc[w] = "idle"
  /\ Goto(w, IF secret = node.secret THEN "update" ELSE "offer",
          [secret |-> secret, pw |-> pw, seen |-> node.cand])
  /\ UNCHANGED <<node, made>>

\* The reported password is taken over; a candidate that was read is moot.
update(w) ==
  LET l == loc[w] IN
  /\ pc[w] = "update"
  /\ node' = [node EXCEPT !.perm = IF l.pw # 0 THEN l.pw ELSE @,
                          !.cand = IF l.seen.secret # 0 THEN NoCandidate ELSE @]
  /\ Goto(w, "answer", NoLoc)
  /\ UNCHANGED <<computer, made>>

\* Mutant: a rotation counts as applied once it was handed out.
answer_Optimistic(w) ==
  /\ pc[w] = "answer"
  /\ Answer(w, IF node.pending # 0 THEN "apply" ELSE "off", node.pending)
  /\ node' = [node EXCEPT !.perm = IF node.pending # 0 THEN node.pending ELSE @]

\* A rotation that is pending now goes out with the answer.
answer(w) ==
  /\ pc[w] = "answer"
  /\ Answer(w, IF node.pending # 0 THEN "apply" ELSE "off", node.pending)
  /\ UNCHANGED node

\* recordCandidateSecret(), decided on the row as read, and 401.
offer(w) ==
  LET l   == loc[w]
      now == node.cand
  IN
  /\ pc[w] = "offer"
  /\ node' = [node EXCEPT !.cand =
       IF l.seen.secret = l.secret
       THEN [now EXCEPT !.live = TRUE,
                        !.pw = IF l.pw # 0 THEN l.pw ELSE @,
                        !.conflict = @ /\ ~(l.seen.conflict /\ l.seen.settled)]
       ELSE [secret |-> l.secret, pw |-> l.pw, live |-> TRUE, settled |-> FALSE,
             conflict |-> l.seen.secret # 0 /\ l.seen.live]]
  /\ Answer(w, "off", 0)

-----------------------------------------------------------------------------
(* Rotation.                                                               *)

\* rotateCredential(): one update, whatever was pending before.
rotateCredential ==
  /\ rotations < MaxRotations
  /\ installs + rotations + (IF disk.secret = 0 THEN 1 ELSE 0) < MaxPasswords
  /\ node.secret # 0
  /\ rotations' = rotations + 1
  /\ node' = [node EXCEPT !.pending = -(rotations + 1)]
  /\ UNCHANGED <<computer, installs, secrets, pc, loc>>

confirmed(secret, pw) == node.pending # 0 /\ node.secret = secret /\ node.pending = pw

\* confirmRotation(): refused at once, or a swap of what was read.
confirmRotation(w, secret, pw) ==
  /\ pc[w] = "idle"
  /\ IF confirmed(secret, pw)
     THEN Goto(w, "swap", [NoLoc EXCEPT !.pw = node.pending])
     ELSE Goto(w, "refuse", NoLoc)
  /\ UNCHANGED <<node, made>>

refuse(w) ==
  /\ pc[w] = "refuse"
  /\ Answer(w, "off", 0)
  /\ UNCHANGED node

\* Mutant: the column is not cleared.
swap_KeepPending(w) ==
  /\ pc[w] = "swap"
  /\ node' = [node EXCEPT !.perm = loc[w].pw]
  /\ Answer(w, "persist", loc[w].pw)

swap(w) ==
  /\ pc[w] = "swap"
  /\ node' = [node EXCEPT !.perm = loc[w].pw, !.pending = 0]
  /\ Answer(w, "persist", loc[w].pw)

-----------------------------------------------------------------------------
(* Binding a secret: a claim for this computer, or an operator.            *)

\* claimEndpoint() with a token minted for this computer.
claimEndpoint(w, secret, pw) ==
  /\ pc[w] = "idle"
  /\ Goto(w, "claim", [NoLoc EXCEPT !.secret = secret, !.pw = pw])
  /\ UNCHANGED <<node, made>>

\* The upsert of the node; candidate and pending columns are left alone.
upsert(w) ==
  /\ pc[w] = "claim"
  /\ node' = [node EXCEPT !.secret = loc[w].secret, !.perm = loc[w].pw]
  /\ Answer(w, "off", 0)

acceptDeviceSecret(w) ==
  /\ pc[w] = "idle"
  /\ node.cand.secret # 0 /\ node.cand.live /\ ~node.cand.conflict
  /\ Goto(w, "bind", [NoLoc EXCEPT !.seen = node.cand])
  /\ UNCHANGED <<node, computer, made>>

\* Conditional on the candidate that was shown.
bind(w) ==
  LET seen == loc[w].seen IN
  /\ pc[w] = "bind"
  /\ node' = IF node.cand.secret = seen.secret /\ ~node.cand.conflict
             THEN [node EXCEPT !.secret = seen.secret, !.cand = NoCandidate,
                               !.perm = IF seen.pw # 0 THEN seen.pw ELSE @]
             ELSE node
  /\ Return(w)
  /\ UNCHANGED <<computer, made>>

-----------------------------------------------------------------------------
(* heartbeat.ps1: one instance at a time, from the file as it was read.    *)

\* The installer removes the script until it has written the new one.
beat(w) ==
  /\ run.at = "off" /\ inst.at \in {"off", "poll"} /\ disk.secret # 0
  /\ heartbeat(w, disk.secret, disk.pw)
  /\ run' = [RunOff EXCEPT !.at = "beat", !.w = w, !.secret = disk.secret]
  /\ UNCHANGED <<disk, rd, doubtful, inst, taken>>

\* rustdesk.exe --password, whose outcome is not looked at.
apply(took) ==
  /\ run.at = "apply"
  /\ took \/ "notTaken" \in Faults
  /\ rd' = IF took THEN run.rot ELSE rd
  /\ taken' = IF took THEN taken \cup {run.rot} ELSE taken
  /\ run' = [run EXCEPT !.at = "confirm"]
  /\ UNCHANGED <<node, disk, doubtful, inst, made, pc, loc>>

sendConfirm(w) ==
  /\ run.at = "confirm"
  /\ confirmRotation(w, run.secret, run.rot)
  /\ run' = [run EXCEPT !.at = "confirming", !.w = w]
  /\ UNCHANGED <<disk, rd, doubtful, inst, taken>>

\* Mutant: the new password is kept only in RustDesk.
persist_Forget ==
  /\ run.at = "persist"
  /\ run' = RunOff
  /\ UNCHANGED <<node, disk, rd, doubtful, inst, taken, made, pc, loc>>

\* The whole of $state is written, with the new password.
persist ==
  /\ run.at = "persist"
  /\ disk' = [secret |-> run.secret, pw |-> run.rot]
  /\ run' = RunOff
  /\ UNCHANGED <<node, rd, doubtful, inst, taken, made, pc, loc>>

\* The request is lost, Invoke-RestMethod times out, or the computer goes
\* down: nothing is persisted.
giveUp ==
  /\ \/ run.at \in {"beat", "confirm"}
     \/ run.at \in {"confirming", "persist"} /\ "noAnswer" \in Faults
  /\ run' = RunOff
  /\ UNCHANGED <<node, disk, rd, doubtful, inst, taken, made, pc, loc>>

-----------------------------------------------------------------------------
(* The installer: run by heartbeat.ps1 as its last step, or by hand.       *)

\* A new password always; the secret of heartbeat.dat, or a new one.  When
\* RustDesk does not confirm the password there is a warning.
install(took) ==
  LET pw     == installs + 1
      secret == IF disk.secret # 0 THEN disk.secret ELSE secrets + 1
  IN
  /\ inst.at = "off" /\ (run.at = "off" \/ "byHand" \in Faults)
  /\ installs < MaxInstalls /\ installs + rotations < MaxPasswords /\ secret <= MaxSecrets
  /\ inst' = [InstOff EXCEPT !.at = "register", !.secret = secret, !.pw = pw]
  /\ installs' = pw
  /\ secrets' = IF disk.secret # 0 THEN secrets ELSE secret
  /\ rd' = IF took THEN pw ELSE rd
  /\ doubtful' = ~took
  /\ UNCHANGED <<node, disk, run, rotations, taken, pc, loc>>

\* Register: the claim when there is a token, else a heartbeat; also a
\* heartbeat when the claim fails.
registerClaim(w) ==
  /\ inst.at = "register"
  /\ claimEndpoint(w, inst.secret, inst.pw)
  /\ inst' = [inst EXCEPT !.at = "claiming", !.w = w]
  /\ UNCHANGED <<disk, rd, doubtful, run, taken>>

registerHeartbeat(w) ==
  /\ inst.at \in {"register", "fallback"}
  /\ heartbeat(w, inst.secret, inst.pw)
  /\ inst' = [inst EXCEPT !.at = "beating", !.w = w]
  /\ UNCHANGED <<disk, rd, doubtful, run, taken>>

noAnswer ==
  /\ inst.at \in {"register", "claiming", "fallback", "beating"}
  /\ inst' = [inst EXCEPT !.at = IF @ = "claiming" THEN "fallback" ELSE "write",
                          !.w = NoWorker]
  /\ UNCHANGED <<node, disk, rd, doubtful, run, taken, made, pc, loc>>

\* Mutant: the file is written without the device secret.
write_NoSecret ==
  /\ inst.at = "write"
  /\ disk' = [pw |-> inst.pw]
  /\ inst' = [inst EXCEPT !.at = "poll"]
  /\ UNCHANGED <<node, rd, doubtful, run, taken, made, pc, loc>>

\* heartbeat.dat is written anew, whether or not the server answered.
write ==
  /\ inst.at = "write"
  /\ disk' = [secret |-> inst.secret, pw |-> inst.pw]
  /\ inst' = [inst EXCEPT !.at = "poll"]
  /\ UNCHANGED <<node, rd, doubtful, run, taken, made, pc, loc>>

\* Test-Registered: heartbeats without a password, and nobody reads the
\* rotation of their answers.
testRegistered(w) ==
  /\ inst.at = "poll"
  /\ heartbeat(w, inst.secret, 0)
  /\ UNCHANGED computer

endInstall ==
  /\ inst.at = "poll"
  /\ inst' = InstOff
  /\ UNCHANGED <<node, disk, rd, doubtful, run, taken, made, pc, loc>>

\* The state directory is lost (a new disk, an untrusted owner).
wipe ==
  /\ run.at = "off" /\ inst.at = "off" /\ disk.secret # 0
  /\ secrets < MaxSecrets /\ installs < MaxInstalls /\ installs + rotations < MaxPasswords
  /\ disk' = [secret |-> 0, pw |-> 0]
  /\ UNCHANGED <<node, rd, doubtful, run, inst, taken, made, pc, loc>>

-----------------------------------------------------------------------------
(* Time: CANDIDATE_LIVE_MS and CANDIDATE_SETTLE_MS.                        *)

passLive ==
  /\ node.cand.live
  /\ node' = [node EXCEPT !.cand.live = FALSE]
  /\ UNCHANGED <<computer, made, pc, loc>>

passSettle ==
  /\ node.cand.secret # 0 /\ ~node.cand.settled
  /\ node' = [node EXCEPT !.cand.settled = TRUE]
  /\ UNCHANGED <<computer, made, pc, loc>>

-----------------------------------------------------------------------------

Continue(w) == \/ update(w) \/ answer(w) \/ offer(w) \/ swap(w) \/ refuse(w)
               \/ upsert(w) \/ bind(w)

Script    == giveUp \/ persist \/ \E took \in BOOLEAN : apply(took)
Installer == write \/ endInstall \/ noAnswer \/ \E w \in Workers : registerClaim(w) \/ registerHeartbeat(w)

Next ==
  \/ Script \/ Installer \/ (\E took \in BOOLEAN : install(took)) \/ wipe
  \/ rotateCredential \/ passLive \/ passSettle
  \/ \E w \in Workers : \/ Continue(w) \/ beat(w) \/ sendConfirm(w)
                        \/ testRegistered(w) \/ acceptDeviceSecret(w)

Spec == Init /\ [][Next]_vars

\* heartbeat.ps1 has not given up yet.
InTime(w) == run.at = "beat" /\ run.w = w

\* Handlers run to their end and neither script waits for ever.  The computer
\* stays on, so that its heartbeats and confirmations are sent again and
\* again, and neither all of them nor all the answers are lost.  Nobody has
\* to install, rotate or accept anything.
Fairness ==
  /\ \A w \in Workers : WF_vars(Continue(w))
  /\ WF_vars(Script) /\ WF_vars(Installer)
  /\ SF_vars(\E w \in Workers : beat(w))
  /\ SF_vars(\E w \in Workers : InTime(w) /\ update(w))
  /\ SF_vars(\E w \in Workers : InTime(w) /\ answer(w))
  /\ SF_vars(\E w \in Workers : sendConfirm(w))

FairSpec == Spec /\ Fairness

-----------------------------------------------------------------------------
(* Properties.                                                             *)

TypeOK ==
  /\ node \in Node
  /\ disk \in [secret : Secrets, pw : Passwords]
  /\ rd \in Passwords /\ doubtful \in BOOLEAN
  /\ run \in [at : {"off", "beat", "apply", "confirm", "confirming", "persist"},
              w : Workers \cup {NoWorker}, secret : Secrets, rot : Passwords]
  /\ inst \in [at : {"off", "register", "claiming", "fallback", "beating", "write", "poll"},
               w : Workers \cup {NoWorker}, secret : Secrets, pw : Passwords]
  /\ taken \subseteq Passwords
  /\ installs \in 1..MaxInstalls /\ rotations \in 0..MaxRotations /\ secrets \in 1..MaxSecrets
  /\ pc \in [Workers -> PCs]
  /\ loc \in [Workers -> Locals]

\* A rotated password becomes the one the console hands out only after
\* RustDesk has taken it, whatever was staged or confirmed in between.
RotatedWasTaken == node.perm < 0 => node.perm \in taken

Bound == node.secret = disk.secret

\* Once the computer is known by its secret, the password the console hands
\* out ends up being the one RustDesk accepts, and stays that.
PasswordSyncs == <>[](Bound /\ ~doubtful) => <>[](node.perm = rd)

\* A rotation staged for a computer that stays known is applied or replaced
\* by a newer one.
RotationResolves ==
  <>[]Bound => \A p \in (-MaxRotations)..(-1) : node.pending = p ~> node.pending # p
=============================================================================
