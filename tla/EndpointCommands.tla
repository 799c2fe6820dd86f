--------------------------- MODULE EndpointCommands ---------------------------
(***************************************************************************)
(* The collection queue of one managed computer:                           *)
(* apps/api/src/endpoint-inventory/endpoint-inventory.service.ts, the      *)
(* requests of endpoints.service.ts that stage work, and the part of       *)
(* heartbeat.ps1 (apps/api/src/public/public.controller.ts) that runs it.  *)
(*                                                                         *)
(* The server cannot push: a heartbeat collects what is due and the agent  *)
(* posts each result.  A worker is one handler in flight, every database   *)
(* statement is atomic, and other handlers run between two of them.  Two   *)
(* heartbeats of one computer overlap when the first one outlives the      *)
(* agent's 15 second timeout, and when the installer polls the heartbeat   *)
(* route to see whether RustDesk has registered.                           *)
(*                                                                         *)
(* Only heartbeats and results that carry the device secret get here, so   *)
(* that check is left to DeviceCredentials.  Command ids are given out in  *)
(* the order of createdAt.  Parameters and results are not looked at.      *)
(***************************************************************************)
EXTENDS Integers, FiniteSets, Sequences

CONSTANTS
  Workers,        \* handlers that may be in flight together
  AutoTypes,      \* what the server asks for by itself, in the order it asks
  MaxDispatches,  \* MAX_DISPATCHES
  PerHeartbeat,   \* COMMANDS_PER_HEARTBEAT
  MaxCommands     \* bound on the commands ever staged

ASSUME CommandsAssumption ==
  /\ AutoTypes \in Seq({"INVENTORY_REFRESH", "UPDATE_SCAN"}) \ {<<>>}
  /\ IsFiniteSet(Workers) /\ Workers # {}
  /\ MaxDispatches \in Nat \ {0} /\ PerHeartbeat \in Nat \ {0} /\ MaxCommands \in Nat

VARIABLES
  cmd,        \* the EndpointCommand rows
  overdue,    \* commands past their expiresAt
  fresh,      \* automatic collections that have not aged out
  agent,      \* the run of heartbeat.ps1
  ran,        \* history: <<command, ok>> of every collection the agent finished
  pc,         \* where each worker is
  loc         \* its locals

machine == <<agent, ran>>
vars    == <<cmd, overdue, fresh, machine, pc, loc>>

Commands == 1..MaxCommands
NoWorker == "none"

Types == {"INVENTORY_REFRESH", "UPDATE_SCAN", "EVENT_LOG_QUERY"}

OUTSTANDING == {"PENDING", "DISPATCHED"}
SETTLED     == {"SUCCEEDED", "FAILED", "EXPIRED"}

\* "NONE": no such row yet.  `asked': requestedById is set.
Command == [status : OUTSTANDING \cup SETTLED \cup {"NONE"}, type : Types,
            asked : BOOLEAN, dispatches : Nat, error : {"none", "agent", "limit"}]

NoCommand == [status |-> "NONE", type |-> "EVENT_LOG_QUERY", asked |-> FALSE,
              dispatches |-> 0, error |-> "none"]

PCs == {"idle", "auto", "autoCreate", "expire", "find", "deal", "create",
        "result", "record", "succeed", "fail"}

\* todo: types still to be staged; stale: those that were stale when looked at;
\* due: <<command, dispatchCount as read>>; out: the answer to the heartbeat.
Locals == [todo : Seq(Types), stale : SUBSET Types, due : Seq(Commands \X Nat), out : SUBSET Commands,
           c : Commands \cup {0}, ok : BOOLEAN]

NoLoc == [todo |-> <<>>, stale |-> {}, due |-> <<>>, out |-> {}, c |-> 0, ok |-> FALSE]

AgentOff == [at |-> "off", w |-> NoWorker, cmds |-> {}]

Init ==
  /\ cmd = [c \in Commands |-> NoCommand]
  /\ overdue = {} /\ fresh = {}
  /\ agent = AgentOff /\ ran = {}
  /\ pc = [w \in Workers |-> "idle"]
  /\ loc = [w \in Workers |-> NoLoc]

Goto(w, p, l) == /\ pc' = [pc EXCEPT ![w] = p]
                 /\ loc' = [loc EXCEPT ![w] = l]
Return(w)     == Goto(w, "idle", NoLoc)

-----------------------------------------------------------------------------
(* Staging.                                                                *)

Unused == {c \in Commands : cmd[c].status = "NONE"}

\* The row is created, unless the bound is reached.
Create(type, asked) ==
  IF Unused = {} THEN UNCHANGED cmd
  ELSE \E c \in Unused :
         /\ \A d \in Unused : c <= d
         /\ cmd' = [cmd EXCEPT ![c] = [NoCommand EXCEPT !.status = "PENDING", !.type = type,
                                                       !.asked = asked]]

\* requestInventoryRefresh() and requestEventLog(): one create per type.
request(w, types) ==
  /\ pc[w] = "idle" /\ Unused # {}
  /\ Goto(w, "create", [NoLoc EXCEPT !.todo = types])
  /\ UNCHANGED <<cmd, overdue, fresh, machine>>

create(w) ==
  LET l == loc[w] IN
  /\ pc[w] = "create"
  /\ Create(Head(l.todo), TRUE)
  /\ IF Len(l.todo) = 1 THEN Return(w) ELSE Goto(w, "create", [l EXCEPT !.todo = Tail(@)])
  /\ UNCHANGED <<overdue, fresh, machine>>

\* stageAutomaticCollections(): what is stale.
Stale == {type \in Types : type \notin fresh}

collectForHeartbeat(w) ==
  /\ pc[w] = "idle"
  /\ Goto(w, "auto", [NoLoc EXCEPT !.todo = AutoTypes, !.stale = Stale])
  /\ UNCHANGED <<cmd, overdue, fresh>>

\* A command of this type is waiting or handed out.
HasOutstanding(type) ==
  \E c \in Commands : cmd[c].type = type /\ cmd[c].status \in OUTSTANDING

\* stage() without a requester: look for an outstanding one, then create.
auto(w) ==
  LET l == loc[w] IN
  /\ pc[w] = "auto"
  /\ IF l.todo = <<>> THEN Goto(w, "expire", l)
     ELSE IF Head(l.todo) \notin l.stale \/ HasOutstanding(Head(l.todo))
     THEN Goto(w, "auto", [l EXCEPT !.todo = Tail(@)])
     ELSE Goto(w, "autoCreate", l)
  /\ UNCHANGED <<cmd, overdue, fresh, machine>>

autoCreate(w) ==
  /\ pc[w] = "autoCreate"
  /\ Create(Head(loc[w].todo), FALSE)
  /\ Goto(w, "auto", [loc[w] EXCEPT !.todo = Tail(@)])
  /\ UNCHANGED <<overdue, fresh, machine>>

-----------------------------------------------------------------------------
(* Handing out.                                                            *)

\* Mutant: what is overdue goes back to the queue.
Expire_Requeue ==
  cmd' = [c \in Commands |-> IF c \in overdue /\ cmd[c].status \in OUTSTANDING
                             THEN [cmd[c] EXCEPT !.status = "PENDING", !.dispatches = 0]
                             ELSE cmd[c]]

\* expireStale().
Expire ==
  cmd' = [c \in Commands |-> IF c \in overdue /\ cmd[c].status \in OUTSTANDING
                             THEN [cmd[c] EXCEPT !.status = "EXPIRED"] ELSE cmd[c]]

expire(w) ==
  /\ pc[w] = "expire"
  /\ Expire
  /\ Goto(w, "find", loc[w])
  /\ UNCHANGED <<overdue, fresh, machine>>

\* The device page: listCommands(), latestEventLog(), getCommand().
view ==
  /\ Expire
  /\ UNCHANGED <<overdue, fresh, machine, pc, loc>>

\* An operator's request comes first, then the oldest.  The requests are of
\* one operator: the rows are ordered by requestedById, descending.
Before(c, d) == \/ cmd[c].asked /\ ~cmd[d].asked
                \/ cmd[c].asked = cmd[d].asked /\ c < d

Outstanding == {c \in Commands : cmd[c].status \in OUTSTANDING}

\* `first' lists the first of them in that order, as many as a heartbeat takes.
Foremost(first) ==
  LET n == Cardinality(Outstanding) IN
  /\ Len(first) = IF n < PerHeartbeat THEN n ELSE PerHeartbeat
  /\ \A i, j \in 1..Len(first) : i < j => Before(first[i], first[j])
  /\ \A c \in Outstanding, i \in 1..Len(first) :
       c \in {first[j] : j \in 1..Len(first)} \/ Before(first[i], c)

\* findMany ... orderBy ... take COMMANDS_PER_HEARTBEAT.
find(w) ==
  /\ pc[w] = "find"
  /\ \E first \in UNION {[1..k -> Outstanding] : k \in 0..PerHeartbeat} :
       /\ Foremost(first)
       /\ Goto(w, "deal", [loc[w] EXCEPT !.due =
                 [i \in 1..Len(first) |-> <<first[i], cmd[first[i]].dispatches>>]])
  /\ UNCHANGED <<cmd, overdue, fresh, machine>>

\* Mutant: the limit is compared with "more than".
TooOften_OffByOne(count) == count > MaxDispatches

\* dispatchCount, as read, has reached the limit.
TooOften(count) == count >= MaxDispatches

\* One update by id for each row read: handed out, or written off.
deal(w) ==
  LET l == loc[w] c == Head(l.due)[1] IN
  /\ pc[w] = "deal" /\ l.due # <<>>
  /\ IF TooOften(Head(l.due)[2])
     THEN /\ cmd' = [cmd EXCEPT ![c].status = "FAILED", ![c].error = "limit"]
          /\ Goto(w, "deal", [l EXCEPT !.due = Tail(@)])
     ELSE /\ cmd' = [cmd EXCEPT ![c].status = "DISPATCHED", ![c].dispatches = @ + 1]
          /\ Goto(w, "deal", [l EXCEPT !.due = Tail(@), !.out = @ \cup {c}])
  /\ UNCHANGED <<overdue, fresh, machine>>

\* The answer reaches heartbeat.ps1 if that run is still waiting for it.
respond(w) ==
  /\ pc[w] = "deal" /\ loc[w].due = <<>>
  /\ Return(w)
  /\ IF agent.at = "beat" /\ agent.w = w
     THEN agent' = [at |-> "run", w |-> NoWorker, cmds |-> loc[w].out]
     ELSE UNCHANGED agent
  /\ UNCHANGED <<cmd, overdue, fresh, ran>>

-----------------------------------------------------------------------------
(* heartbeat.ps1.  The task scheduler runs one instance at a time.         *)

beat(w) ==
  /\ agent.at = "off"
  /\ collectForHeartbeat(w)
  /\ agent' = [agent EXCEPT !.at = "beat", !.w = w]
  /\ UNCHANGED ran

\* Test-Registered of the installer: a heartbeat whose commands nobody reads.
testRegistered(w) ==
  /\ collectForHeartbeat(w)
  /\ UNCHANGED machine

\* The collection and Send-Rem0teResult; the post is delivered or lost.
sendResult(c, ok) ==
  /\ agent.at = "run" /\ c \in agent.cmds
  /\ ran' = ran \cup {<<c, ok>>}
  /\ \/ \E w \in Workers :
          /\ pc[w] = "idle"
          /\ Goto(w, "result", [NoLoc EXCEPT !.c = c, !.ok = ok])
          /\ agent' = [at |-> "post", w |-> w, cmds |-> agent.cmds \ {c}]
     \/ agent' = [agent EXCEPT !.cmds = @ \ {c}] /\ UNCHANGED <<pc, loc>>
  /\ UNCHANGED <<cmd, overdue, fresh>>

\* Invoke-RestMethod gives up: the run ends, or goes on without the answer.
giveUp ==
  /\ agent' = IF agent.at = "beat" THEN AgentOff
              ELSE [agent EXCEPT !.at = "run", !.w = NoWorker]
  /\ agent.at \in {"beat", "post"}
  /\ UNCHANGED <<cmd, overdue, fresh, ran, pc, loc>>

\* The script is through, or the computer goes down with work in hand.
endRun ==
  /\ agent.at # "off"
  /\ agent' = AgentOff
  /\ UNCHANGED <<cmd, overdue, fresh, ran, pc, loc>>

-----------------------------------------------------------------------------
(* completeCommand().                                                      *)

\* The answer to the post, if the agent still waits for it.
Answered(w) == agent' = IF agent.at = "post" /\ agent.w = w
                        THEN [agent EXCEPT !.at = "run", !.w = NoWorker] ELSE agent

\* Mutant: the report is not looked at.
result_AlwaysOk(w) ==
  /\ pc[w] = "result"
  /\ IF cmd[loc[w].c].status \in {"SUCCEEDED", "FAILED"}
     THEN Return(w) /\ Answered(w)
     ELSE Goto(w, "record", loc[w]) /\ UNCHANGED agent
  /\ UNCHANGED <<cmd, overdue, fresh, ran>>

\* The row as read decides: complete already, failed, or to be recorded.
result(w) ==
  /\ pc[w] = "result"
  /\ IF cmd[loc[w].c].status \in {"SUCCEEDED", "FAILED"}
     THEN Return(w) /\ Answered(w)
     ELSE Goto(w, IF loc[w].ok THEN "record" ELSE "fail", loc[w]) /\ UNCHANGED agent
  /\ UNCHANGED <<cmd, overdue, fresh, ran>>

\* recordInventory(), recordUpdateScan(): the collection is up to date.
record(w) ==
  /\ pc[w] = "record"
  /\ fresh' = fresh \cup ({cmd[loc[w].c].type} \ {"EVENT_LOG_QUERY"})
  /\ Goto(w, "succeed", loc[w])
  /\ UNCHANGED <<cmd, overdue, machine>>

succeed(w) ==
  /\ pc[w] = "succeed"
  /\ cmd' = [cmd EXCEPT ![loc[w].c].status = "SUCCEEDED", ![loc[w].c].error = "none"]
  /\ Return(w) /\ Answered(w)
  /\ UNCHANGED <<overdue, fresh, ran>>

fail(w) ==
  /\ pc[w] = "fail"
  /\ cmd' = [cmd EXCEPT ![loc[w].c].status = "FAILED", ![loc[w].c].error = "agent"]
  /\ Return(w) /\ Answered(w)
  /\ UNCHANGED <<overdue, fresh, ran>>

-----------------------------------------------------------------------------
(* Time.                                                                   *)

\* COMMAND_TTL_MINUTES after a command was staged.
passTTL(c) ==
  /\ cmd[c].status # "NONE" /\ c \notin overdue
  /\ overdue' = overdue \cup {c}
  /\ UNCHANGED <<cmd, fresh, machine, pc, loc>>

\* INVENTORY_STALE_HOURS, UPDATE_SCAN_STALE_HOURS.
age(type) ==
  /\ fresh' = fresh \ {type}
  /\ UNCHANGED <<cmd, overdue, machine, pc, loc>>

-----------------------------------------------------------------------------

Requests == {AutoTypes, <<"EVENT_LOG_QUERY">>}

Continue(w) ==
  \/ create(w) \/ auto(w) \/ autoCreate(w) \/ expire(w) \/ find(w) \/ deal(w) \/ respond(w)
  \/ result(w) \/ record(w) \/ succeed(w) \/ fail(w)

Agent == giveUp \/ endRun \/ \E c \in Commands, ok \in BOOLEAN : sendResult(c, ok)

Next ==
  \/ Agent \/ view
  \/ \E c \in Commands : passTTL(c)
  \/ \E type \in fresh : age(type)
  \/ \E w \in Workers : \/ Continue(w) \/ beat(w) \/ testRegistered(w)
                        \/ \E types \in Requests : request(w, types)

Spec == Init /\ [][Next]_vars

\* Handlers run to their end, no run of the script lasts for ever, time
\* passes, and the computer stays on: its task fires every three minutes.
Fairness ==
  /\ \A w \in Workers : WF_vars(Continue(w))
  /\ WF_vars(Agent)
  /\ \A c \in Commands : WF_vars(passTTL(c))
  /\ SF_vars(\E w \in Workers : beat(w))

FairSpec == Spec /\ Fairness

-----------------------------------------------------------------------------
(* Properties.                                                             *)

TypeOK ==
  /\ cmd \in [Commands -> Command]
  /\ overdue \subseteq Commands
  /\ fresh \subseteq Types
  /\ agent \in [at : {"off", "beat", "run", "post"}, w : Workers \cup {NoWorker},
                cmds : SUBSET Commands]
  /\ ran \subseteq Commands \X BOOLEAN
  /\ pc \in [Workers -> PCs]
  /\ loc \in [Workers -> Locals]

\* Whatever overtook whatever, the outcome the console shows happened: a
\* success was collected, a reported failure was reported, a command written
\* off was handed out as often as allowed, an expired one is past its time.
OutcomeExplained ==
  \A c \in Commands :
    LET row == cmd[c] IN
    /\ row.status = "SUCCEEDED" => <<c, TRUE>> \in ran
    /\ row.status = "FAILED" => \/ row.error = "agent" /\ <<c, FALSE>> \in ran
                                \/ row.error = "limit" /\ row.dispatches >= MaxDispatches
    /\ row.status = "EXPIRED" => c \in overdue

\* The count is read with the row and incremented by another statement, so
\* heartbeats that overlap may exceed MAX_DISPATCHES, by one each.
DispatchesBounded ==
  \A c \in Commands : cmd[c].dispatches <= MaxDispatches + Cardinality(Workers) - 1

\* The queue drains: every command gets an outcome in the end and keeps one,
\* although a heartbeat that read it earlier may hand it out once more.
EventuallySettled ==
  \A c \in Commands : cmd[c].status # "NONE" ~> [](cmd[c].status \in SETTLED)
=============================================================================
