# A TLA+ model of rem0te

rem0te is a remote-support console for managed computers. A NestJS API over
PostgreSQL (`apps/api`) keeps all state; a web console (`apps/web`), a desktop
launcher (`apps/launcher`), the agents on enrolled computers and a RustDesk
server are its clients. Paths below are relative to `apps/api/src` unless they
start with `docs/` or `apps/`; `PROJECT.json` maps every definition to its lines.

1. [Why this code needs a model](#why-this-code-needs-a-model)
2. [Inventory](#inventory)
3. [The modules](#the-modules)
4. [Runs](#runs)
5. [Bounds, time and fairness](#bounds-time-and-fairness)
6. [Proofs](#proofs)
7. [Where code and text disagree](#where-code-and-text-disagree)
8. [Not modelled](#not-modelled)
9. [Plan](#plan)

## Why this code needs a model

The API is one Node process. A handler runs alone between two `await`s, but at
every `await` on the database any other handler may run: an HTTP request, the
heartbeat of a computer, or a timer callback. Almost every operation reads a row,
decides, and writes in a later statement. Whether that is correct depends on what
the *write* is conditional on: nothing but the id, the status, a version number,
a unique key. Unit tests mock the database and run one handler at a time, so the
interleavings are where the questions are.

All modules share one way of modelling this. A **worker** is a handler in flight,
with a program counter `pc[w]` and the locals that live across its awaits. One
action is one database statement (or one `$transaction`), with the code that runs
up to the next await. Reading a row and writing it are separate actions exactly
when they are separate statements. A request that is refused before its first
write changes nothing and is left out; a refusal that comes later is a step.

## Inventory

State, operations and correctness of the components with logic of their own.

| Component | State | Operations | What makes it correct |
|---|---|---|---|
| **Sessions** `sessions/` | `SupportSession` rows (status, its source and time, confirmed/ended/last-signal times, duration and its quality), `SupportSessionEvent` rows with a unique dedupe key | create, `record()` of 11 event types, technician completion, cancelation and notes, script telemetry, heartbeat reconciliation, two sweeps every five minutes | a verdict is decided on the current row; a closed session never changes; a measured duration was observed; the timeline explains the status; one connection is attributed to one launch; every managed launch is resolved |
| **Update rollouts** `admin/update-rollout.service.ts` | `UpdateRollout` (status, current batch), `UpdateJob` per computer (status, attempts, batch, nonce) | create, start, pause, cancel, cancel one job, minute `tick`, heartbeat evidence and dispatch, installer fetch | pilot first; attempts bounded; one installer per computer; pause and cancel are effective; every install gets a verdict |
| **Support requests** `support-requests/` | `SupportRequest` (status, version, claimer, address hash, erased), its events, the business's intake link | link on/off/regenerate, public and portal submit, customer cancel, claim, hand off, release, close, Connect, expire and erase | one holder, taken only by those entitled; one verdict; caps; retention erases only what is closed |
| **Commands** `endpoint-inventory/`, `heartbeat.ps1` | queue of `EndpointCommand` rows, freshness of each collection, the agent's run | request, automatic staging, hand-out with a heartbeat, expiry, results, views | the outcome shown happened; a command is handed out a bounded number of times; the queue drains |
| **Device credentials** `enrollment/`, `endpoints/`, installer, `heartbeat.ps1` | device secret, candidate secret, password and pending password on the server; `heartbeat.dat` and RustDesk's password on the computer | heartbeat, confirm rotation, rotate, accept a candidate secret, bind by a claim, install, poll | the console's copy of the password becomes the one RustDesk takes; a rotation is applied; nothing is handed out that RustDesk never took |
| **Connect** `endpoints/`, `launcher/` | connection grants, single-use 120 s launcher tokens | mint, redeem with a fresh authorization check, revoke | used once, by a person allowed to connect then |
| **Technicians** `technicians/`, **access control** `rbac/`, **offboarding** `offboarding/` | assignments, approvals, group membership, computer access, weekly windows | create, request, decide, revoke, suspend, offboard step by step | decisions and revocations stand; offboarding leaves nothing, also not what is approved while it runs; windows mean the clock times they name |
| **Sign-in** `auth/`, **MFA** `mfa/` | failure counters in memory, `sessionsValidAfter`, authenticator secret and last used step, stamped sessions | log in, verify a code, step up, enrol, disable, change and reset the password, sign out | a code is used once; the lockout counts what overlaps; an ended session stays ended |
| **Single sign-on** `sso/`, **passkeys** `passkeys/`, **recovery** `cli/` | provider, external identities, passkeys, rows of round trips under way | begin, callback (sign in, link, provision), register, authenticate, step up, unlink, remove, disable | a round trip is accepted once; every way in was asked for by the account; a sign-in rests on what is still there |
| **Claim tokens** `enrollment/` | `DeviceClaimToken` rows | create, claim (consume, adopt or create a computer, hand back), revoke | a token enrols one computer, where its creator said |
| **Server update** `admin/update.service.ts` | checkout, deployed files, `version.json` | fetch, verify, build, deploy, restart | what is reported is what runs |
| **Quick Connect** `quick-connect/` | ad-hoc sessions, three enabling switches | connect, end | its session obeys the session rules; it attaches only to the holder's request |

How they interact:

- A **heartbeat** (enrollment) authenticates the computer and then calls into
  rollouts (`onHeartbeat`), commands (`collectForHeartbeat`) and sessions
  (`reconcileEndpointSignal`) one after the other; its answer carries a pending
  rotation, an installer to run and commands.
- **Connect** (endpoints) and **Quick Connect** create the session row, move a
  support request to CONNECTING and issue a launcher token.
- **Launcher redemption**, the Connect script and the technician report into
  `record()`.
- **Offboarding**, suspension and revocation change the rows that a redemption in
  flight is being authorized on.
- **Single sign-on** and **passkeys** end in the same session, stamped and
  revocable, as a password.
- The **timers** (session sweeps every 5 minutes, rollout tick every minute,
  retention every 10 minutes) act on rows that requests act on at the same time.

The remaining parts (businesses and sites, API keys, notes, audit, diagnostics,
platform settings, GeoIP, the RustDesk binaries, the console and the launcher
program) are CRUD, text generation or I/O; they are listed in `PROJECT.json` with
the reason they are left out.

## The modules

| Module | Models | Role |
|---|---|---|
| `SessionState` | `sessions/session-state.ts` | the pure state machine as operators: which event applies to which row, event time clamping, duration and its quality |
| `SessionEvents` | `sessions/session-events.service.ts` and all its callers | the component: `record()`, reporters, heartbeats, sweeps |
| `SessionLifecycle` | what the rest of the API may rely on | abstract specification that `SessionEvents` implements |
| `UpdateRollout` | `admin/update-rollout.service.ts` | the component |
| `SupportRequests` | `support-requests/support-requests.service.ts`, the Connect hooks in `quick-connect/` and `endpoints/` | the component |
| `EndpointCommands` | `endpoint-inventory/endpoint-inventory.service.ts`, the requests in `endpoints/` that stage work, the part of `heartbeat.ps1` that runs it | server and computer composed |
| `DeviceCredentials` | `enrollment/enrollment.service.ts` (heartbeat, confirm), `rotateCredential` and `acceptDeviceSecret`, the installer and `heartbeat.ps1` in `public/public.controller.ts` | server and computer composed, with lost messages |
| `ConnectAccess` | grants, launcher tokens, `authorizeConnect` and `rbac/`, `technicians/`, `users/`, `businesses/`, `offboarding/` | several components composed: those who redeem and those who revoke |
| `AccessSchedule` | `rbac/schedule.ts` | weekly windows, with a reference definition by the clock |
| `SignIn` | `auth/`, `mfa/`, the resets of `users/` | the component |
| `ExternalSignIn` | `sso/`, `passkeys/`, `cli/auth-recovery.ts` | the component |
| `Enrollment` | claim tokens in `enrollment/enrollment.service.ts` | the component: create, claim statement by statement, revoke |
| `SingleUse` | what a grant, a launcher token and a round trip promise | abstract specification that `ConnectAccess` and `ExternalSignIn` implement |
| `SessionEventsProofs`, `SupportRequestsProofs`, `EndpointCommandsProofs`, `ConnectAccessProofs`, `ExternalSignInProofs`, `EnrollmentProofs`, `SignInProofs`, `UpdateRolloutProofs` | | theorems |
| `MCSessions`, `MCRollout`, `MCSupport`, `MCCommands`, `MCCredentials`, `MCAccess`, `MCSignIn`, `MCExternal`, `MCEnrollment` | | model values and symmetry for TLC |

### Sessions

`sess`, `events` and `notes` are the tables. `record()` is the loop of
`Read` (load the row and decide), then one of `CommitDuplicate` (the unique index
refuses the key), `CommitStale` (the conditional update on `status` and
`statusChangedAt` matches no row: roll back, retry, give up after
`MAX_ATTEMPTS` = 3) and `CommitWrite`. `snap` is the row it read, `job` the event
it was asked to record, `attempt` the loop counter. The callers are
`technicianReport`, `quickConnectEnd`, `recordScriptTelemetry`,
`launcherRedeemed`, `reconcileEndpointSignal` (which first writes the last-signal
times, `Touch`, and the rows of ambiguous observations, `Ambiguous`, and then makes its
`record()` calls, `NextCall`) and the sweeps `expireStaleSessions` (two queries:
the second is `expireOpened`) and `closeAbandonedSessions`. `SaveNotes` is the
update `complete()` makes after `record()`.

Abstractions: all managed sessions are of one computer (no statement looks at
those of another); the 20- and 500-row limits of the queries are not reached; the
instants of contradicting evidence are a set; rows migrated from before 0.20 (quality
LEGACY, which only the migration writes) are left out; a session has one launcher token;
`launchRequestedAt` equals `createdAt`; telemetry tokens exist for launches of
enrolled computers only.

`SessionLifecycle` has a stage per session (absent, launched, confirmed, closed in
one of four ways) and the set of sessions with a measured duration. The mapping
(`StageOf`, `Lifecycle`) forgets handlers, snapshots, keys and times.

### Rollouts

`roll` and `job` are the tables. `create` and `start` are two statements each;
`cancel` is read, update, read jobs, one update per job. `tick` lists the rollouts and
for each expires overdue jobs (`findStale`, `expire`), checks the failure
threshold (`checkThreshold`, `autoPause`), and completes it or opens the next
batch (`advance`, `complete`, `boundary`, `setBatch`). A heartbeat reads the jobs
in flight (`onHeartbeat`), judges each (`recordEvidence`, and `verify` where the
RustDesk server is asked), and otherwise selects and dispatches one job
(`selectJob`, `dispatch`). Failing attempts are `failAttempt` (back to REQUESTED
with a back-off, or FAILED).

Abstractions: a reported version is none, older than, equal to or newer than the
target; whether the computer defers the update, and whether it is registered with
the RustDesk server, is a nondeterministic choice; the nonce is whether one is
set, and whether the heartbeat echoes it; which computers are pilots and which are
skipped at creation is chosen freely.

### Support requests

`req` and `timeline` are the tables, `linked` the sessions created for requests,
`intake` the link of the business. Claim, hand-off, release and close load the
request (`Loaded`: the version the client sent, the holder that was read) and
commit with the condition of their `updateMany`. `forConnect`, `connecting` and
`createSession` are the three statements of Connect. `retention` expires,
`findOld` selects and `erase` anonymises one request at a time.

Abstractions: one business, which is active; `Users` are the people who may see
its queue; the version a technician sends is any version up to the current one,
because it is one the queue has shown; the batch limits of retention (500, 200)
are not reached; the two cap counts of one submission are read together.

### Commands

`cmd` is the table, `agent` the run of `heartbeat.ps1`. The server's side of a
heartbeat is `auto` and `autoCreate` (stage what has aged out, per type: look for an
outstanding command, then insert), `expire`, `find` and one `deal` per command, then
`respond`. A result is `result` (load), `record` (the snapshot or scan) and `succeed`
or `fail`; each of those writes by id. The computer does `beat`, `sendResult`,
`giveUp` (its 15 second timeout, while the handler goes on) and `endRun`;
`testRegistered` is the installer's poll of the same route, which throws the
commands away. A device page requests with `create` and reads nothing that matters.

Abstractions: one computer; ages are `overdue` (past `expiresAt`) and `fresh`
(collected lately); parameters and contents of results are left out. `ran` is history:
what the computer really finished, which `OutcomeExplained` compares with the rows.

### Device credentials

`node` is the row on the server; `disk` (`heartbeat.dat`), `rd` (what RustDesk
accepts), `run` and `inst` are the computer. The server's operations are `heartbeat`
(then `update` and `answer` for the bound secret, `offer` for another one),
`rotateCredential`, `confirmRotation` with `swap` or `refuse`, a claim's `upsert`, and
`acceptDeviceSecret` with `bind`. The computer's are `beat`, `apply`, `sendConfirm`,
`persist`, `giveUp`, and the installer's `install`, `register`, `write`, `poll`, `wipe`.
A request or its answer may be lost at every point: the script gives up, the handler
goes on. `Faults` adds what the repair of a lost message does not cover: the answer to
a confirmation is lost (`noAnswer`), RustDesk does not take a password (`notTaken`),
somebody runs the installer by hand while the script runs (`byHand`).

Abstractions: secrets and passwords are numbers, positive when made by an installer
and negative when made by the server; the age of a candidate secret is two flags.

### Connect and access

A redemption is a chain of statements in the order of the code: `find` the token,
`user`, `membership`, `resolveExtras`, `endpoint`, `authorizeConnect`,
`canReachEndpoint`, then `claim` (the conditional update) or `refuse`; minting runs
the same chain and ends in `mint`. Between them run the administrators: archive, group
and computer access, assignment, request, decision, revocation, and offboarding
statement by statement; and the operations on members (`People`): `addUser` and
`createMembership`, `setActive` with `setStatus` and `setMember` in the order of
`suspend()`/`activate()` or the opposite one of `setUserActive()`, `resetUserAccess`, and
`removeUser` with `dropAccess`, `dropMember`, `countMembers` and `dropAccount`. `stale` holds, for each redemption
in flight, the facts that have been untrue ever since it began; `RedeemedWasAuthorized`
says that the facts a connection was handed out on are not among them.

Abstractions: one person and one business; a membership that was removed and made anew
is not told apart from the one a request has read, so an update of the old row may
throw, as it does in the code, or also reach the new one; every assignment carries the connect
capability; computers are in access mode ASSIGNED_USERS; a dated and scheduled row is
early, open, shut or over. What a weekly schedule says about a minute is
`AccessSchedule`, checked against the set of minutes it covers.

### Sign-in

`user`, `totp`, `fails` and `tries` are the rows and the two counters in memory. A
login is password lookup, hash (the await during which others run), counting
(`recordLoginFailure`), then a partial token or a session; the second factor is
`matchingStep`, `use` (the conditional update of `lastTotpStep`). Set-ups
(`generateTotpSetup`, `setup`) and confirmations (`confirmTotpEnrollment`, `activate`) are a
read and an unconditional update each, and overlap freely. A
revocation is `instant` and `write` (`sessionsValidAfter`). Time is counted in ticks, `TPS` to
the second, because a token's stamp is in whole seconds and the revocation instant is
rounded up: whether a session signed in the same second survives is the point.

Abstractions: one account; the fifteen minutes of a lockout pass at any time;
authenticator codes are time steps of a secret. `spent` is history: the codes that were
accepted. A confirmation that another one overtook (`late`) sets the stored step back, so
`activate` drops the newer codes from it; the rest must never be accepted again. The
account has its authenticator row, not confirmed yet, from the start: two set-ups of an
account without one may create two rows, which is left out. Recovery codes are not
modelled.

### Single sign-on and passkeys

A trip is a row (`OidcLoginState`, `WebAuthnChallenge`). A callback is `consume`
(delete the row), `finish` (the provider's answer), `findIdentity`, then `countLinks` and
`createLink` for a link, or `emailInUse` and `provision` for a new account, `touch` and
`signIn`. A passkey is `respond`, then `newKey` and `createKey`, or `findKey` and
`useKey`. Meanwhile providers are replaced, identities unlinked, keys removed, accounts
disabled, trips cleaned up, and `auth-recovery` run on the host. `seen` records what
held at some moment since the answer arrived.

Abstractions: one provider at a time, numbered by replacement; an account is its
e-mail address; what the libraries verify succeeds or fails; the two timers that delete
expired rows, of logins and of challenges, are one action. Redirects, cookies and
the mode (SSO only or not) are left out.

### Enrollment

`rows` are the endpoint rows, `node` the `RustdeskNode` row of each RustDesk ID, `tok` the
claim tokens. The code finds a node by its RustDesk ID, which an upsert may change, and
adopts or deletes it by its id, which nothing changes: the endpoint it belongs to and the
request that created it stand for the id, and `RowOf` is where that row is by now. `claimEndpoint` reads the token and `consume` is the conditional update.
`readNode` then decides the route (`Route`): a computer of the pending pool is adopted
(`adopt`, `activate`, `recordAdopted`, `reread`) or, when the token names another endpoint,
dropped (`drop`, `dropEndpoint`); the token's endpoint is updated or a new one created
(`load`, `update` or `create`, `upsert`, `assign`, `record`). There is no transaction
around a claim: any statement may throw (`dbError`, or the row is gone by then), which ends
in `handBack` and leaves what was written. `revokeClaimToken` reads and `delete` deletes by
id. Meanwhile unknown computers heartbeat into the pool (`heartbeat`, `poolEndpoint`,
`poolNode`) and administrators type computers in (`typeIn`, `typedIn`).

Abstractions: what a token says about the computer (business, group, users) is copied and
never read back, so only its endpoint is kept; secrets are numbers; the statement that hands a token back succeeds.

## Runs

Every run interleaves handlers at every statement unless it says otherwise. Each
property has a mutant in `PROJECT.json`: a plausible bug in a mapped definition that
makes TLC find it violated. The
runs of sessions, rollouts, requests, credentials and sign-in also check `TypeOK`; for
commands, access, external sign-in and enrollment it is proved (`TypeCorrect`).

| Run | Instance | States | Question and answer |
|---|---|---|---|
| `sessions_sweeps` | 1 session, 1 handler, 1 timer callback, 4 instants, fair | 0.67 M | With a request and a sweep at once and time passing the three thresholds: does `record()` decide on the row it writes to (`CommittedDecisionIsCurrent`), never touch a closed session (`ClosedIsFinal`), leave a timeline that explains the status (`TimelineExplainsStatus`), and implement `SessionLifecycle` (`ImplementsLifecycle`)? Is a measured duration always between two observed ends (`MeasuredMeansObserved`), does no event without effect use up the dedupe key of one that could still close or confirm the session (`NoBurntKeys`), and is every launch of an enrolled computer confirmed or closed in the end (`ManagedLaunchResolves`)? Yes; that more handlers change nothing about the current row, closed sessions and the refinement is proved. |
| `sessions_pair` | 2 sessions, 2 handlers | 4.0 M | Can overlapping heartbeats, each counting the confirmed sessions before the other confirms one, attribute more connections than any of them reported? No (`AttributionBounded`), within the 30 minutes in which a launch is recent. |
| `rollout_races` | 1 computer, 2 attempts, 3 handlers | 1.1 M | With a heartbeat, a tick and an operator at once, is a computer asked to install more often than `MAX_ATTEMPTS`? No (`AttemptsBounded`). |
| `rollout_batches` | 2 computers, 2 attempts, 1 handler, fair | 0.21 M | Does every sequence of calls pass the pilot first (`PilotGate`), and does every install get a verdict although its computer falls silent or its rollout is paused (`InstallGetsVerdict`)? Yes. |
| `support_race` | 1 request, a technician, an owner, a member, a public address, retention; 2 handlers | 1.3 M | Does a request leave its holder only by those entitled (`TakenOnlyByEntitled`), is it closed once (`ClosedIsFinal`, `OneClosingEvent`) and erased only when closed (`ErasedIsClosed`)? Yes. |
| `commands_overlap` | 1 command, 2 handlers, 2 dispatches, 1 per heartbeat, fair | 0.23 M | Did every outcome shown happen on the computer, late and duplicate results included (`OutcomeExplained`)? Is the number of hand-outs bounded (`DispatchesBounded`: by `MAX_DISPATCHES` and one more for each handler but one), and does the queue drain (`EventuallySettled`)? Yes. |
| `credentials_sync` | 2 installs, 2 rotations, at most 3 passwords, 2 secrets, 2 handlers, fair | 0.21 M | With heartbeats and their answers getting lost, a reinstallation and operators rotating: does the console's copy become what RustDesk takes once nothing changes any more (`PasswordSyncs`), is every staged rotation applied or replaced (`RotationResolves`), and was every rotated password that is shown taken by RustDesk (`RotatedWasTaken`)? Yes, as long as answers to confirmations arrive. |
| `credentials_lost` | 1 install, 1 rotation, 2 handlers, fair; answers to confirmations may be lost | violation | `PasswordSyncs` fails; see [below](#where-code-and-text-disagree). |
| `access_redeem` | 1 computer, 1 assignment, 1 token, 2 handlers, 2 changes, days of 3 minutes | 0.75 M | Is a token used once (`ImplementsSingleUse`), by somebody allowed to connect while the redemption ran (`RedeemedWasAuthorized`); does a decision or a revocation stand (`DecisionsStand`); does offboarding leave no assignment to the person that it found (`OffboardedStaysOut`); do windows mean the clock (`ScheduleMatchesClock`)? Yes. |
| `sign_in` | 2 handlers, 4 requests, 2 ticks per second, 2 secrets, 2 attempts to a lockout | 1.8 M | Does a session that was out when the account's sessions were ended stay ended (`EndedStaysEnded`), is a code that was spent never accepted to verify again, unless a confirmation that another one overtook set the stored step back (`CodesAreSingleUse`), and are no more wrong passwords checked than the lockout allows with what overlaps (`LockoutHolds`)? Yes, with one revocation at a time. |
| `external_sign_in` | 2 handlers, 2 accounts (1 existing), 2 subjects, 1 key, 2 trips, 3 changes | 1.3 M | Was every identity, key and account asked for by a trip of that account (`EveryWayInWasAskedFor`), is a trip accepted once (`TripsAreSingleUse`, an implementation of `SingleUse`), and does a sign-in rest on something that was there while it ran (`SignInIsCurrent`)? Yes. |
| `enrollment_claims` | 2 identities, 2 tokens, 2 handlers, 3 requests, 2 secrets; any statement may fail | 4.4 M | Does one claim at a time work with a token, and is one answered with success (`ClaimsAreSingleUse`)? Is a token whose claim failed usable again (`NoTokenIsLost`)? Is the secret a computer is bound to, whichever RustDesk ID its row has by then, replaced or removed only by a claim that proved it, or whose token or own row is that computer's (`IdentityIsProved`)? Yes; that the RustDesk ID was proved too is refuted, see [below](#where-code-and-text-disagree). |

## Bounds, time and fairness

**Sessions.** Time is in ticks; `LaunchTTL`, `SilenceTTL`, `LongTTL` stand for 30
minutes, 1 hour and 12 hours and keep their order. `MaxTime` lets the clock pass
the longest, `LastCreate` keeps creation at the start so that it does.
`MaxEvents` stops *reports* about a session that already has that many timeline
rows; the sweeps are not stopped, so liveness is not helped by it. `MaxActive` is
the largest number of connections a heartbeat may report: with 0 or 1 and two
launches, attribution has to be refused or be unambiguous. A tick stands for at least
half an hour, so a handler in flight sees at most one (`Prompt`). One session suffices
for everything but attribution, because `record()` touches one session; two are used
there. Two handlers suffice for stale retries and giving up, since each handler may
start again and again.

**Rollouts.** There is no clock: `overdue`, `backoff` and `ran` say which spans
have ended. These spans are minutes long and end only while no handler is in
flight (`Quiet`); `AttemptsBounded` depends on this, because a heartbeat that was
suspended for a whole retry cycle could write an old attempt count back.
`Threshold` 1, `BatchSize` 1 and two computers give a pilot batch and a following
one. Three handlers are a heartbeat, a tick and an operator.

**Support requests.** `MaxVersion` stops claims and hand-offs at that version;
release, close, cancel and expiry are possible beyond it. `MaxSlugs` bounds generated
links. Caps of 1 stand for 25 and 3. Ages are the sets of requests past each limit,
which grow in the only order possible (a day, a week, a month after closing).

**Commands.** `MaxCommands` bounds what is ever staged. One command with two handlers
is every race on a row; `PerHeartbeat` only orders several commands. `MaxDispatches` 2
stands for 4.

**Device credentials.** `MaxInstalls`, `MaxRotations`, `MaxPasswords` and `MaxSecrets`
bound what is made, not what is sent: heartbeats, losses and confirmations go on for
ever. Two of each suffice for a stale one to meet a new one.

**Access, sign-in.** `MaxChanges` bounds what administrators and time change. One
computer and one assignment suffice because a redemption looks at one computer and any
live assignment would do. `MaxRequests`, `MaxNow`, `MaxStep`, `MaxPasswords` and
`MaxSecrets` bound sign-in. Somebody is signed in and the authenticator row is there
from the start, so that four requests are enough for two confirmations to overlap and a
code to be used twice after them; two seconds and a second secret are enough for the
rounding and for a set-up that replaces a secret. At their end nothing is left to do,
which is why `sign_in` does not look for deadlocks. `AtOnce` is 1: with two overlapping
revocations TLC refutes `EndedStaysEnded` (see below).

**Enrollment.** `MaxRequests` bounds the requests that may create a row, whose
number names it; `MaxSecrets` 2 is the right secret and a wrong one. When the requests are used up
nothing is left to do, which is why the run does not look for deadlocks. Two tokens, two
identities and two handlers let two claims meet on one token and on one computer.

**Symmetry** permutes handlers, sessions, technicians, subjects or trips that are
treated alike, only in runs without liveness properties.

**Fairness.** Handlers run to their end: `WF` on `Continue`, since nothing in them
waits for anything but the database. Timers: `SF` on the sweeps and the tick, since
`setInterval` fires for as long as the process lives and a callback needs no free slot,
while a modelled worker may be busy again and again. Time passes: `WF` on the clock or
the ages, and `SF` on the verify timeout, which is enabled only while no handler is in
flight. The commands and the credentials are about a computer that stays on: its task
starts every three minutes (`SF` on `beat`), the script and the installer go on to their
next statement (`WF` on `Agent`, `Script`, `Installer`), and not every message is lost for
ever (`SF` on a heartbeat answered in time, and on sending a confirmation). Nothing makes
a person or a customer act.

## Proofs

TLAPS checks the theorems for every value of the constants, so for any number of
sessions, requests, commands, users and handlers.

**`SessionEventsProofs`**, from `BoundsAssumption`, `WorkersAssumption` and, for counting,
`SessionsAssumption` (finitely many sessions):

- `TypeCorrect`: `Spec => []TypeOK`. `ApplyType` shows that the state machine maps
  rows to rows; `TypeRequest` and `TypeContinue` have a step per action.
- `Inductive`: `Spec => []IInv` with `IInv` = `TypeOK`, an open session has no
  duration, a worker in `record()` works on an existing session (`JobInv`), and
  `SnapInv`.
- `DecisionsAreCurrent`: `Spec => []CommittedDecisionIsCurrent`. The update
  compares only `status` and `statusChangedAt`, and two changes can fall into one
  instant. It is enough because the rank of the status only grows: `SnapInv` says
  that the snapshot still agrees with the row in every column a verdict depends
  on, or the row's rank has moved past it. Equal status then means equal verdict
  (`VerdictDepends`).
- `ClosedSessionsAreFinal`: `Spec => ClosedIsFinal`. Closed has the highest rank, so
  no decision applies to it.
- `Refinement`: `Spec => ImplementsLifecycle`. Every step changes at most one row
  (`NextOneRow`), by a `RowStep`, and every `RowStep` maps to a step of
  `SessionLifecycle` or to a stutter (`StageStep`).
- `TimelinesExplain`, `MeasuredDurations`: `Spec => []TimelineExplainsStatus` and
  `Spec => []MeasuredMeansObserved`, from `Records`: what the event rows of a session say
  about its row (`Story`), and where a duration comes from (`Timed`). The step that
  stores an event rests on `SnapInv`: an applied event is only ever stored over the status
  it was decided on. `Timed` has to remember who confirmed a connection that still lasts.
- `KeysAreNotBurnt`: `Spec => []NoBurntKeys`. A sweep or a heartbeat selects first and
  records later, so the property needs `KeyInv`: a call in flight carries the key of its
  event, and one that ends a connection is about a session that had been confirmed.
- `AttributionIsBounded`: `Spec => []AttributionBounded` while no launch outlives its
  window (`MaxTime <= LaunchTTL`): all heartbeats in flight that attribute a connection
  agree on the launch, because each found it to be the only recent one. Across the end of
  the window TLC finds the counterexample listed [below](#where-code-and-text-disagree).

**`SupportRequestsProofs`**, from `SetsAssumption` and `BoundsAssumption`:

- `TypeCorrect`, `Inductive` with `IInv` = `TypeOK`, `Pointers` (what a worker
  points to exists), `ManageInv`, `EraseInv`, `HolderMatchesStatus`, `ErasedIsClosed`.
- `OnlyTheEntitledTake`: `Spec => TakenOnlyByEntitled`. Release and close check the
  holder when they load the request, and the version when they write. `ManageInv`
  is why that is enough: the loaded version is at most the current one, and if it
  is the current one then the holder is still the one that was read. It holds
  because every change of the holder raises the version, and `connecting`, which
  does not raise it, does not change the holder.
- `HoldersMatch`, `ErasedAreClosed` (`EraseInv`: what was selected as closed stays
  closed), `ClosedRequestsAreFinal`.
- `OneClosingEventEver`: `Spec => []OneClosingEvent`. The event is written after the
  status, so `Closing` speaks of the handler that closed a request and has still to write:
  it is the only one, and the timeline has no closing event yet.
- The argument goes through two lemmas, what a step may do to a row (`RowSteps`)
  and to the locals of a worker (`LocSteps`), from which `InvStep` follows.

**`EndpointCommandsProofs`**, from `CommandsAssumption`:

- `TypeCorrect`, and `Inductive` with `Base` (types, and that every result in flight
  is one the computer finished) and `Limits`.
- `DispatchLimit`: `Spec => []DispatchesBounded`. The bound alone is not inductive: a
  handler between `find` and `deal` carries a decision to hand out. `Budget` counts
  them: the dispatches of a command plus the handlers that will still add one never
  exceed `MaxDispatches + |Workers| - 1`. A handler joins only while the count it reads
  is below the limit, and the handlers in flight besides it are at most |Workers| - 1.
- `OutcomesAreExplained`: `Spec => []OutcomeExplained`. `Counts` relates the count a
  handler read to the row (it never falls), and `Results` says where a result in flight
  came from.

**`ConnectAccessProofs`**, from `AccessAssumption` and, for the windows,
`ScheduleAssumption` (a day has a minute):

- `TypeCorrect`, and `Inductive` with `TokInv` (a token that was not used bought
  nothing; grants are never revoked), `LeftInv` (what offboarding found is revoked),
  `Fits` (what a request may rely on at each statement) and `Sure`.
- `RedemptionsWereAuthorized`: `Spec => RedeemedWasAuthorized`. `Sure` says, statement
  by statement, which facts a redemption has already made sure of. It survives the
  steps of everybody else because `stale` only shrinks: what was true at some moment
  cannot come to have been untrue all along, however often it changes afterwards.
- `TokensAreSingleUse`: `Spec => ImplementsSingleUse`. Everything a step may do to tokens
  is one of five moves (`TokMove`), each a step of `SingleUse` or a stutter.
- `DecisionsAreFinal`, `OffboardingIsFinal`: an assignment never loses a decision or a
  revocation (`AsgKept`), so what offboarding revoked stays out, also when it is approved
  afterwards. `PeopleQuiet` shows that no operation on members touches either.
- `SchedulesMatchClock`: `Spec => []ScheduleMatchesClock`, for every length of a day. The
  minutes of the week are counted in one row; `DayAndMinute` and `OpenMinute` show that
  the day and the minute `isWithinSchedule()` looks at name the same place in it.

**`ExternalSignInProofs`**, from `ExternalAssumption`:

- `TypeCorrect`, and `Inductive`: a trip keeps the kind and the account it was begun
  for, one that was not accepted was handed to nobody, what was made belongs to an
  existing account, and what a request rests on was seen to hold.
- The three properties of `external_sign_in` follow, `TripsAreSingleUse` as a refinement.

**`EnrollmentProofs`**, from `EnrollmentAssumption`:

- `TypeCorrect`, and `Inductive` with `Fits` (who adopts or drops a node has proved
  the secret it saw), `Sole` (a token is in the hands of one claim), `Lost` (a used token
  was answered for, or its claim is under way) and `Pool` (every node of the pending pool
  has a secret). Every step is one of five kinds, and each kind keeps each part.
- `ClaimsUseATokenOnce`, `TokensComeBack`, `IdentitiesAreProved`: the three properties
  of `enrollment_claims`. The last is about computers: a claim that adopts or deletes acts
  on the row it read and on no other, because the row's id does not change and `Fits` keeps
  the endpoint and the secret as read together, even when another claim has moved that
  row to another RustDesk ID.

The same module proves the safety of the device credentials, on an instance of
`DeviceCredentials` with variables of its own (`Cred`, `credNode` for `node`, `credPc`
for `pc`, `credLoc` for `loc`). An `ASSUME` of an instantiated module is not a fact for
the prover, so `Cred!CredentialsAssumption` is a hypothesis of each theorem; TLC
evaluates it in `credentials_sync`.

- `CredentialsTypeCorrect`: `Cred!Spec => []Cred!TypeOK`.
- `RotationsWereTaken`: `Cred!Spec => []Cred!RotatedWasTaken`, for any number of
  requests in flight, installations and rotations, with answers lost and installers
  started by hand, provided that `"notTaken" \notin Faults`. `RotatedWasTaken` speaks of
  one column and is not inductive: the password gets there from a confirmation, a
  heartbeat, a claim or an accepted candidate, each of which carries one the computer sent
  earlier. `CredInv` follows it back: the permanent and the candidate's password
  (`RowAccepted`), the file and what `heartbeat.ps1` confirms or persists
  (`SentAccepted`) and the locals of every request (`RequestsAccepted`) hold a rotated
  password only if RustDesk accepted it; what is staged, and what was handed out but
  not applied yet, need not be. The proviso cannot be dropped: the script does not look
  at the outcome of `rustdesk.exe --password`, and with `"notTaken"` among the faults
  TLC refutes the invariant.
- `StagedUntilConfirmed`: from the same invariant, a staged rotation leaves the row only
  for a newer one, or in the update that hands out a rotated password RustDesk has taken.
  It need not be the staged one: `confirmRotation` clears the column whatever it holds by
  then, so a rotation staged between its read and its update is lost with it.

**`SignInProofs`**, from `SignInAssumption` (finitely many handlers, positive limits):

- `TypeCorrect`, and `InductiveInvariant` with `Bounds` (what the requests in flight will
  still make fits the bounds), `Spent` and `Counting`.
- `CodesSingleUse`: `Spec => []CodesAreSingleUse`. The conditional update of
  `lastTotpStep` is not the whole argument: `confirmTotpEnrollment` writes that column
  unconditionally. `Spent` says why a confirmation that no other one overtook does not take
  it back: until it is written the authenticator is off, so no newer code can be under
  way. One that was overtaken may take it back, and then codes newer than its own are
  good again (see [below](#where-code-and-text-disagree)); the theorem is about all others.
- `Lockout`: `Spec => []LockoutHolds`. Failures are counted after the hash was awaited;
  `Counting` bounds the wrong passwords checked plus the comparisons under way by
  `MaxLogin - 1` and one for each handler.
- `EndedSessions`: `Spec => []EndedStaysEnded`, assuming `AtOnce <= 1`. `Revoked`: what a
  revocation is about to store ends every session it saw, and is not older than what is
  stored. The rounding to seconds is handled by `DivBounds`, for every resolution. The
  hypothesis cannot be dropped (see [below](#where-code-and-text-disagree)).

**`UpdateRolloutProofs`**, from `ConstantsAssumption`:

- `TypeCorrect`, and `InductiveInvariant`: `Typed` (the locals that go with each
  statement), `Created` (rows are created once), `CopiesAgree`, `Selected`, `Budget`.
- `AttemptsAreBounded`: `Spec => []AttemptsBounded`, for any number of handlers.
  `failAttempt()` compares the attempts of the job *as read*. That is enough because a
  copy somebody still holds has the attempts of the row (`CopiesAgree`): a job that is
  requeued while copies of it are held is backing off, hence not selected, and a job that
  is handed out while another handler was about to hand it out is not judged with an old
  copy (`Selected`). Every step is one of five moves (settle, read, requeue, select, hand
  out), and each move keeps each part.
- `PilotGateHolds`: `Spec => PilotGate`, assuming that handlers run one at a time
  (`\A v, w \in Workers : v = w`), as in `rollout_batches`, but for any number of
  computers, rollouts, batch sizes and thresholds. `Gate` says that a rollout enters a
  batch only when all before it are finished with few failures and that nothing of a later
  batch is in flight (`RolloutGate`), and what each handler has made sure of at each
  statement (`Sure`). With two handlers TLC refutes the property (see
  [below](#where-code-and-text-disagree)).

Only model-checked: the liveness properties (`ManagedLaunchResolves`,
`InstallGetsVerdict`, `EventuallySettled`, `PasswordSyncs` and `RotationResolves`), as
fairness is beyond this prover. Every invariant and every action property of the passing
runs is stated by a theorem.

## Where code and text disagree

Kept as a run that ends in a violation:

- `credentials_lost`: "If the confirm failed we deliberately keep the old value: the
  server still has the rotation pending and will re-offer it on the next heartbeat"
  (`public/public.controller.ts:1042`), but `confirmRotation` clears the pending password
  (`enrollment/enrollment.service.ts:857`) before its answer reaches the agent. When that
  answer is lost the agent keeps the old password in `heartbeat.dat`, nothing is pending
  any more, and its next heartbeat writes the old password over the one that RustDesk
  now accepts; nothing repairs this until the next rotation.

Found by TLC on these modules with other instances or stronger properties, and left as
text because the cause is the same everywhere, a check and a write in two statements:

- *Sessions.* The 30 minute sweep closes as unknown a client that opened after its
  query ("nothing that has actually opened a client is touched",
  `sessions/sessions.controller.ts:40`; `sessions.service.ts:365`). A launch that turns
  30 minutes old while a heartbeat that counted it is in flight is invisible to the
  next heartbeat, and both confirm a launch for the one connection
  (`session-events.service.ts:153`). A heartbeat between the read and the commit of
  `timeout_ended` leaves an inferred end older than the last signal
  (`sessions.service.ts:377`). An unconfirmed Quick Connect launch stays open unless
  the technician reports (`docs/technician-guide.md:123`): the sweep excludes it.
- *Rollouts.* Evidence brings a canceled job back ("marked canceled and no longer
  tracked", `docs/updates.md:164`; `update-rollout.service.ts:558`). A paused rollout may
  dispatch once more (`docs/updates.md:175`), two rollouts may each hand an installer to
  a computer (`:472`), two `create` calls may both take it (`:184`), a completed rollout
  may keep an unfinished job (`:572`), and `start()` may undo a `cancel()` (`:280`). "So a
  failed pilot stops the fleet" (`docs/updates.md:162`), but `checkThreshold` leaves a
  paused rollout alone (`:387`); when it is resumed before `tick()` looks at its status
  again (`:436`), the next batch is released.
- *Support requests.* A session may be attached to a request its technician no longer
  holds ("a stray or guessed id never attaches a session to someone else's request",
  `quick-connect/quick-connect.service.ts:145`; `support-requests.service.ts:525`). A
  toggle writes a replaced slug back ("Regenerating it invalidates the old one at
  once", `docs/support-requests.md:15`; `:132`). Overlapping submissions exceed the caps
  (`docs/support-requests.md:28`). A request that is claimed and never closed is neither
  expired nor erased (`docs/support-requests.md:5`).

Seen while modelling:

- *Commands.* The installer's polls use up dispatches, so a command may end with "Its
  agent cannot run this" although no agent saw it; overlapping heartbeats stage the same
  automatic command twice (`endpoint-inventory.service.ts:386`).
- *Enrollment.* `reinstallDispatchedAt` is written before the answer that carries the
  installer (`enrollment.service.ts:600`). A heartbeat that read an old staged target
  clears a newer one. A rotation staged between the read and the write of
  `confirmRotation` is lost. The installer always makes a new password and rewrites
  `heartbeat.dat` without `lastUpdateAttempt`, although its comment says that it keeps
  it; `heartbeat.ps1` does not look at whether `--password` worked. The adopt
  path sets the tenant, not the customer, the access mode or the assigned users
  (`:234`).
- *Claim tokens.* "Adopting or replacing it means proving that secret — otherwise anyone
  holding any business's token could pull another machine out of the pending pool by its
  ID" (`enrollment/enrollment.service.ts:225`), but the update and the delete that follow
  are by the node's id (`:237`, `:265`). When another claim, whose token names that
  computer's endpoint, renames the node and binds a new secret in between (`:326`), the
  first claim still takes the node into its business and binds its own secret to the new
  RustDesk ID, or deletes it: it proved neither the new ID's secret nor the new ID. So
  `IdentityIsProved` is stated of the computer. A claim that fails half-way hands its token back as if it "has
  enrolled nothing" (`:190`), although a computer may have been created; the token then
  enrols a second one. Of two claims with different tokens for one pending computer, one
  removes a node that the other has adopted (`:265`). A revocation is answered although a
  claim in flight goes on and enrols (`:963`). "It must already be in this business"
  (`:78`) is not checked for a platform administrator
  (`rbac/access-control.service.ts:286`).
- *Access.* `decide()` with an empty list widens a request for some computers to the
  whole business (`technicians.service.ts:341`, against "may NARROW ... but never widen",
  `:305`). `grantAccess` racing the removal of a member leaves a row ("Leaving ComputerAccess rows
  behind would resurrect access", `businesses.service.ts:509`). The list of
  credentials in the offboarding report is computed before a redemption in flight ends.
- *Members.* "The invitation token is what actually lets them in"
  (`businesses.service.ts:340`), but nothing accepts an invitation. `addUser` of a person
  who was removed leaves the account DELETED, and a removal racing `addUser` deletes an
  account that has a membership again (`:517`). `suspend()` and `setUserActive()` write the
  account and the membership in opposite orders, so that two of them at once may leave one
  active and the other not. "Never leave the platform without an operator"
  (`users.service.ts:409`): two administrators demoting each other at once do, and so does
  `resetUserAccess` on one's own account. "Moving someone without clearing them would carry
  access across the boundary" (`users.service.ts:336`), but moving a computer does not
  clear who may reach it (`endpoints.service.ts:314`).
- *Sign-in.* Two overlapping revocations may store their instants in the wrong order,
  which revives sessions (`AtOnce` = 2 refutes `EndedStaysEnded`). A session stamped ahead
  within a second survives another sign-out in that second. A login in flight with the
  old password outlives its change. One wrong recovery code blocks for 15 minutes where
  `mfa.service.ts:182` says five, and two requests may use the same one (`:172`).
  A set-up that overlaps a
  confirmation may switch the second factor off, and overlapping first set-ups leave two
  authenticator rows, as nothing makes user and type unique.
- *Authenticator codes.* "Single use: the conditional update is the check, so two requests
  racing the same code cannot both win" (`mfa/mfa.service.ts:112`) and "so a code cannot be
  replayed in its window" (`prisma/schema.prisma:334`), but `confirmTotpEnrollment` writes
  `lastTotpStep` unconditionally (`:86`). Two confirmations overlap: the first reads the
  inactive row at one step; the second is read and written, and a code of the next step is
  used; then the first is written, sets `lastTotpStep` back, and the code of the next step
  is accepted once more. `CodesAreSingleUse` without the exception is refuted by TLC. Nor
  does a confirmation look at `lastTotpStep`: it accepts a code that was already used.
- *Single sign-on, passkeys.* Two racing link callbacks give an account two identities
  (`docs/sign-in.md:29`); overlapping registrations exceed `MAX_PASSKEYS`.
- *Server update.* It builds the API but deploys only the web assets
  (`admin/update.service.ts:303`, `install.sh:409`), and copies `version.json` before the
  restart, so that after a failed restart the new version is reported as "The running
  build" (`:67`). The API's unit sets `NoNewPrivileges`, so its `sudo` cannot restart.

## Not modelled

- Reading and searching, permission checks in front of the operations, rate limits,
  e-mail and audit rows (best effort, never read back to decide), and formatting.
- Crashes of the process between two statements are not separate actions: a worker
  that never continues is a behaviour of each `Spec`, so the safety properties cover it.
- Recovery codes, the step-up cookie, levels, capabilities and moves between businesses,
  the server's own update, and the components marked `not_modelled` in `PROJECT.json`.
- The larger part of the repository by lines is the web console (pages that fetch and
  render), generated documentation, text of installers and scripts, DTOs and CRUD
  handlers of one statement. A model of those would restate them: there is no state
  between two of their statements, and nothing to interleave. That is why the map
  covers a small share of all lines although it covers most of the statements that
  race.

## Plan

1. `People`: levels, capabilities, moves between businesses and platform administrators;
   there is always one left, and nobody keeps access to a business they left.
2. `ServerUpdate`: checkout, build, deploy, restart, and what is reported after each
   may fail.

Properties of later modules replace shallower ones here rather than add runs: a
run is kept only while it asks a question no other run asks.
