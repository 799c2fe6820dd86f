------------------------ MODULE EndpointCommandsProofs ------------------------
(***************************************************************************)
(* Theorems about EndpointCommands, for any number of overlapping          *)
(* handlers, commands and dispatches.                                      *)
(***************************************************************************)
EXTENDS EndpointCommands, FiniteSetTheorems, SequenceTheorems, TLAPS

\* Who is about to stage something knows what.
Staging == \A w \in Workers : pc[w] \in {"create", "autoCreate"} => loc[w].todo # <<>>

\* A result in hand was really produced, and its branch fits.
Results ==
  \A w \in Workers :
    pc[w] \in {"result", "record", "succeed", "fail"} =>
      /\ loc[w].c \in Commands /\ <<loc[w].c, loc[w].ok>> \in ran
      /\ pc[w] \in {"record", "succeed"} => loc[w].ok
      /\ pc[w] = "fail" => ~loc[w].ok

\* A row that does not exist was not handed out.
Unsent == \A c \in Commands : cmd[c].status = "NONE" => cmd[c].dispatches = 0

\* A count that was read is not above the row's, and no row is read twice.
Counts ==
  \A w \in Workers : \A i \in 1..Len(loc[w].due) :
    /\ loc[w].due[i][2] <= cmd[loc[w].due[i][1]].dispatches
    /\ \A j \in 1..Len(loc[w].due) : i # j => loc[w].due[i][1] # loc[w].due[j][1]

\* The handlers that will hand c out once more.
Holders(c) == {w \in Workers : \E i \in 1..Len(loc[w].due) :
                 loc[w].due[i][1] = c /\ loc[w].due[i][2] < MaxDispatches}

\* Together they stay within the bound.
Budget ==
  \A c \in Commands : cmd[c].dispatches + Cardinality(Holders(c))
                        <= MaxDispatches + Cardinality(Workers) - 1

-----------------------------------------------------------------------------
(* Types.                                                                  *)

LEMMA LocalsType == NoLoc \in Locals /\ NoCommand \in Command
  BY DEF NoLoc, Locals, NoCommand, Command, Types, OUTSTANDING, SETTLED

\* What the server asks for by itself is asked in some order.
LEMMA AutoType == AutoTypes \in Seq(Types) /\ AutoTypes # <<>>
  BY CommandsAssumption DEF Types

\* One handler moves, the others stay where they are.
LEMMA Moved ==
  ASSUME TypeOK, NEW w \in Workers, NEW p \in PCs, NEW l \in Locals, Goto(w, p, l)
  PROVE  /\ pc' \in [Workers -> PCs] /\ loc' \in [Workers -> Locals]
         /\ pc'[w] = p /\ loc'[w] = l
         /\ \A v \in Workers : v # w => pc'[v] = pc[v] /\ loc'[v] = loc[v]
  BY DEF Goto, TypeOK

LEMMA Returned ==
  ASSUME TypeOK, NEW w \in Workers, Return(w)
  PROVE  /\ pc' \in [Workers -> PCs] /\ loc' \in [Workers -> Locals]
         /\ pc'[w] = "idle" /\ loc'[w] = NoLoc
         /\ \A v \in Workers : v # w => pc'[v] = pc[v] /\ loc'[v] = loc[v]
  <1>1. "idle" \in PCs
    BY DEF PCs
  <1>2. QED
    BY <1>1, LocalsType, Moved DEF Return

\* The rest of a list of types, or of rows, is one.
LEMMA TailType ==
  ASSUME NEW l \in Locals
  PROVE  /\ l.todo # <<>> => /\ Head(l.todo) \in Types
                             /\ [l EXCEPT !.todo = Tail(@)] \in Locals
         /\ l.due # <<>> => /\ Head(l.due) \in Commands \X Nat
                            /\ [l EXCEPT !.due = Tail(@)] \in Locals
                            /\ \A c \in Commands :
                                 [l EXCEPT !.due = Tail(@), !.out = @ \cup {c}] \in Locals
  <1>1. l.todo \in Seq(Types) /\ l.due \in Seq(Commands \X Nat) /\ l.out \subseteq Commands
    BY DEF Locals
  <1>2. ASSUME l.todo # <<>> PROVE Head(l.todo) \in Types /\ Tail(l.todo) \in Seq(Types)
    BY <1>1, <1>2
  <1>3. ASSUME l.due # <<>>
        PROVE  Head(l.due) \in Commands \X Nat /\ Tail(l.due) \in Seq(Commands \X Nat)
    BY <1>1, <1>3
  <1>4. ASSUME l.todo # <<>> PROVE [l EXCEPT !.todo = Tail(@)] \in Locals
    BY <1>2, <1>4 DEF Locals
  <1>5. ASSUME l.due # <<>> PROVE [l EXCEPT !.due = Tail(@)] \in Locals
    BY <1>3, <1>5 DEF Locals
  <1>6. ASSUME l.due # <<>>, NEW c \in Commands
        PROVE  [l EXCEPT !.due = Tail(@), !.out = @ \cup {c}] \in Locals
    BY <1>1, <1>3, <1>6 DEF Locals
  <1>7. QED
    BY <1>2, <1>3, <1>4, <1>5, <1>6

\* A new row appears where there was none.
LEMMA Created ==
  ASSUME TypeOK, NEW type \in Types, NEW asked \in BOOLEAN, Create(type, asked)
  PROVE  /\ cmd' \in [Commands -> Command]
         /\ \A c \in Commands : \/ cmd'[c] = cmd[c]
                                \/ /\ cmd[c].status = "NONE"
                                   /\ cmd'[c].status = "PENDING" /\ cmd'[c].dispatches = 0
  <1>1. CASE Unused = {}
    BY <1>1 DEF Create, TypeOK
  <1>2. CASE Unused # {}
    <2>1. PICK c \in Unused :
            cmd' = [cmd EXCEPT ![c] = [NoCommand EXCEPT !.status = "PENDING", !.type = type,
                                                       !.asked = asked]]
      BY <1>2 DEF Create
    <2> DEFINE row == [NoCommand EXCEPT !.status = "PENDING", !.type = type, !.asked = asked]
    <2>2. row \in Command
      BY DEF NoCommand, Command, OUTSTANDING
    <2>3. row.status = "PENDING" /\ row.dispatches = 0
      BY DEF NoCommand
    <2>4. c \in Commands /\ cmd[c].status = "NONE"
      BY DEF Unused
    <2>5. cmd' = [cmd EXCEPT ![c] = row]
      BY <2>1
    <2> HIDE DEF row
    <2>6. QED
      BY <2>2, <2>3, <2>4, <2>5 DEF TypeOK
  <1>3. QED
    BY <1>1, <1>2

\* expireStale() only closes what is overdue.
LEMMA ExpireStep ==
  ASSUME TypeOK, Expire
  PROVE  /\ cmd' \in [Commands -> Command]
         /\ \A c \in Commands :
              \/ cmd'[c] = cmd[c]
              \/ /\ c \in overdue /\ cmd[c].status # "NONE" /\ cmd'[c].status = "EXPIRED"
                 /\ cmd'[c].dispatches = cmd[c].dispatches
  BY DEF Expire, TypeOK, Command, OUTSTANDING, SETTLED

\* The rows that find() reads, each once.
LEMMA FindStep ==
  ASSUME TypeOK, NEW w \in Workers, find(w)
  PROVE  \E due \in Seq(Commands \X Nat) :
           /\ Goto(w, "deal", [loc[w] EXCEPT !.due = due])
           /\ [loc[w] EXCEPT !.due = due] \in Locals
           /\ \A i \in 1..Len(due) : due[i][2] = cmd[due[i][1]].dispatches
           /\ \A i, j \in 1..Len(due) : i # j => due[i][1] # due[j][1]
  <1>1. PICK first \in UNION {[1..k -> Outstanding] : k \in 0..PerHeartbeat} :
          /\ Foremost(first)
          /\ Goto(w, "deal", [loc[w] EXCEPT !.due =
                    [i \in 1..Len(first) |-> <<first[i], cmd[first[i]].dispatches>>]])
    BY DEF find
  <1> DEFINE due == [i \in 1..Len(first) |-> <<first[i], cmd[first[i]].dispatches>>]
  <1>2. PICK k \in 0..PerHeartbeat : first \in [1..k -> Outstanding]
    BY <1>1
  <1>3. k \in Nat /\ Len(first) = k /\ Outstanding \subseteq Commands
    BY <1>2, CommandsAssumption DEF Outstanding
  <1>4. \A i \in 1..k : first[i] \in Commands /\ cmd[first[i]].dispatches \in Nat
    BY <1>2, <1>3 DEF TypeOK, Command
  <1>5. due \in [1..k -> Commands \X Nat]
    BY <1>3, <1>4
  <1>6. due \in Seq(Commands \X Nat) /\ Len(due) = k
    BY <1>3, <1>5, IsASeq
  <1>7. \A i \in 1..k : due[i][1] = first[i] /\ due[i][2] = cmd[first[i]].dispatches
    BY <1>3
  <1>8. \A i, j \in 1..k : i < j => first[i] # first[j]
    BY <1>1, <1>3, <1>4 DEF Foremost, Before, Commands
  <1>9. \A i, j \in 1..k : i # j => first[i] # first[j]
    BY <1>3, <1>8
  <1>10. [loc[w] EXCEPT !.due = due] \in Locals
    <2> HIDE DEF due
    <2>1. QED
      BY <1>6 DEF TypeOK, Locals
  <1>11. Goto(w, "deal", [loc[w] EXCEPT !.due = due])
    BY <1>1
  <1> HIDE DEF due
  <1>12. \A i \in 1..Len(due) : due[i][2] = cmd[due[i][1]].dispatches
    BY <1>6, <1>7
  <1>13. \A i, j \in 1..Len(due) : i # j => due[i][1] # due[j][1]
    BY <1>6, <1>7, <1>9
  <1>14. QED
    BY <1>6, <1>10, <1>11, <1>12, <1>13, Zenon

-----------------------------------------------------------------------------
(* Types, and where results come from.                                     *)

Base == TypeOK /\ Staging /\ Results

\* A handler moves and the rows are at most retyped: what is left to show.
LEMMA BaseStep ==
  ASSUME Base, NEW w \in Workers, NEW p \in PCs, NEW l \in Locals, Goto(w, p, l),
         cmd' \in [Commands -> Command], UNCHANGED <<overdue, ran>>, fresh' \subseteq Types,
         agent' \in [at : {"off", "beat", "run", "post"}, w : Workers \cup {NoWorker},
                     cmds : SUBSET Commands],
         p \in {"create", "autoCreate"} => l.todo # <<>>,
         p \in {"result", "record", "succeed", "fail"} =>
           /\ l.c \in Commands /\ <<l.c, l.ok>> \in ran
           /\ p \in {"record", "succeed"} => l.ok
           /\ p = "fail" => ~l.ok
  PROVE  Base'
  <1>1. /\ pc' \in [Workers -> PCs] /\ loc' \in [Workers -> Locals]
        /\ pc'[w] = p /\ loc'[w] = l
        /\ \A v \in Workers : v # w => pc'[v] = pc[v] /\ loc'[v] = loc[v]
    BY Moved DEF Base
  <1>2. TypeOK'
    BY <1>1 DEF Base, TypeOK
  <1>3. Staging'
    BY <1>1 DEF Base, Staging
  <1>4. Results'
    BY <1>1 DEF Base, Results
  <1>5. QED
    BY <1>2, <1>3, <1>4 DEF Base

\* The same for a handler that returns.
LEMMA BaseReturn ==
  ASSUME Base, NEW w \in Workers, Return(w),
         cmd' \in [Commands -> Command], UNCHANGED <<overdue, ran>>, fresh' \subseteq Types,
         agent' \in [at : {"off", "beat", "run", "post"}, w : Workers \cup {NoWorker},
                     cmds : SUBSET Commands]
  PROVE  Base'
  <1>1. "idle" \in PCs /\ "idle" \notin {"create", "autoCreate", "result", "record", "succeed", "fail"}
    BY DEF PCs
  <1>2. Goto(w, "idle", NoLoc)
    BY DEF Return
  <1>3. QED
    BY <1>1, <1>2, LocalsType, BaseStep

LEMMA AnsweredType ==
  ASSUME TypeOK, NEW w, Answered(w)
  PROVE  agent' \in [at : {"off", "beat", "run", "post"}, w : Workers \cup {NoWorker},
                     cmds : SUBSET Commands]
  BY DEF TypeOK, Answered

\* One command's row is updated by id.
LEMMA UpdateType ==
  ASSUME TypeOK, NEW c \in Commands, NEW st \in OUTSTANDING \cup SETTLED,
         NEW e \in {"none", "agent", "limit"}
  PROVE  /\ [cmd EXCEPT ![c].status = st, ![c].error = e] \in [Commands -> Command]
         /\ [cmd EXCEPT ![c].status = st, ![c].dispatches = @ + 1] \in [Commands -> Command]
  <1>1. cmd[c] \in Command /\ cmd[c].dispatches + 1 \in Nat
    BY DEF TypeOK, Command
  <1>2. [cmd[c] EXCEPT !.status = st, !.error = e] \in Command
    BY <1>1 DEF Command
  <1>3. [cmd[c] EXCEPT !.status = st, !.dispatches = @ + 1] \in Command
    BY <1>1 DEF Command
  <1>4. QED
    BY <1>2, <1>3 DEF TypeOK

LEMMA BaseHandler ==
  ASSUME Base, NEW w \in Workers, Continue(w)
  PROVE  Base'
  <1> DEFINE l == loc[w]
  <1>0. /\ TypeOK /\ l \in Locals /\ l.c \in Commands \cup {0}
        /\ agent \in [at : {"off", "beat", "run", "post"}, w : Workers \cup {NoWorker},
                      cmds : SUBSET Commands]
        /\ fresh \subseteq Types /\ cmd \in [Commands -> Command]
    BY DEF Base, TypeOK, Locals
  <1>p. {"idle", "auto", "autoCreate", "expire", "find", "deal", "create", "record",
         "succeed", "fail"} \subseteq PCs
    BY DEF PCs
  <1> HIDE DEF l
  <1>1. CASE create(w)
    <2>1. l.todo # <<>> /\ Create(Head(l.todo), TRUE) /\ UNCHANGED <<overdue, fresh, machine>>
      BY <1>1 DEF create, l, Base, Staging
    <2>2. cmd' \in [Commands -> Command]
      BY <2>1, <1>0, TailType, Created
    <2>3. CASE Len(l.todo) = 1
      BY <1>0, <1>1, <2>1, <2>2, <2>3, BaseReturn DEF create, l, machine
    <2>4. CASE Len(l.todo) # 1
      <3>1. Goto(w, "create", [l EXCEPT !.todo = Tail(@)]) /\ [l EXCEPT !.todo = Tail(@)] \in Locals
        BY <1>0, <1>1, <2>1, <2>4, TailType DEF create, l
      <3>2. [l EXCEPT !.todo = Tail(@)].todo # <<>>
        <4>1. l.todo \in Seq(Types) /\ l.todo # <<>>
          BY <1>0, <2>1 DEF Locals
        <4>2. Tail(l.todo) # <<>>
          <5>1. Len(l.todo) \in Nat /\ Len(l.todo) # 0
            BY <4>1, EmptySeq, LenProperties
          <5>2. Len(Tail(l.todo)) = Len(l.todo) - 1
            BY <4>1, HeadTailProperties
          <5>3. Len(<<>>) = 0
            BY EmptySeq
          <5>4. Len(l.todo) - 1 # 0
            BY <2>4, <5>1
          <5>5. QED
            BY <5>2, <5>3, <5>4, Zenon
        <4>3. QED
          BY <4>2, <1>0 DEF Locals
      <3>3. fresh' \subseteq Types /\ UNCHANGED <<overdue, ran, agent>>
        BY <1>0, <2>1 DEF machine
      <3> DEFINE rest == [l EXCEPT !.todo = Tail(@)]
      <3>4. rest \in Locals /\ Goto(w, "create", rest) /\ rest.todo # <<>>
        BY <3>1, <3>2
      <3> HIDE DEF rest
      <3>5. QED
        BY <1>0, <1>p, <2>2, <3>3, <3>4, BaseStep
    <2>5. QED
      BY <2>3, <2>4
  <1>2. CASE auto(w)
    <2>1. UNCHANGED <<cmd, overdue, fresh, machine>>
      BY <1>2 DEF auto
    <2>2. CASE Goto(w, "expire", l)
      BY <1>0, <1>p, <2>1, <2>2, BaseStep DEF machine
    <2>3. CASE l.todo # <<>> /\ Goto(w, "auto", [l EXCEPT !.todo = Tail(@)])
      BY <1>0, <1>p, <2>1, <2>3, BaseStep, TailType DEF machine
    <2>4. CASE l.todo # <<>> /\ Goto(w, "autoCreate", l)
      BY <1>0, <1>p, <2>1, <2>4, BaseStep DEF machine
    <2>5. QED
      BY <1>2, <2>2, <2>3, <2>4 DEF auto, l
  <1>3. CASE autoCreate(w)
    <2>1. /\ l.todo # <<>> /\ Create(Head(l.todo), FALSE) /\ UNCHANGED <<overdue, fresh, machine>>
          /\ Goto(w, "auto", [l EXCEPT !.todo = Tail(@)])
      BY <1>3 DEF autoCreate, l, Base, Staging
    <2>2. cmd' \in [Commands -> Command]
      BY <2>1, <1>0, TailType, Created
    <2>3. QED
      BY <1>0, <1>p, <2>1, <2>2, BaseStep, TailType DEF machine
  <1>4. CASE expire(w)
    BY <1>0, <1>4, <1>p, BaseStep, ExpireStep DEF expire, machine, l
  <1>5. CASE find(w)
    BY <1>0, <1>5, <1>p, BaseStep, FindStep DEF find, machine, l
  <1>6. CASE deal(w)
    <2> DEFINE c == Head(l.due)[1]
    <2>1. l.due # <<>> /\ UNCHANGED <<overdue, fresh, machine>>
      BY <1>6 DEF deal, l
    <2>2. c \in Commands
      BY <1>0, <2>1, TailType
    <2>3. CASE TooOften(Head(l.due)[2])
      <3>1. /\ cmd' = [cmd EXCEPT ![c].status = "FAILED", ![c].error = "limit"]
            /\ Goto(w, "deal", [l EXCEPT !.due = Tail(@)])
        BY <1>6, <2>3 DEF deal, l
      <3> HIDE DEF c
      <3>2. cmd' \in [Commands -> Command]
        BY <1>0, <2>2, <3>1, UpdateType DEF OUTSTANDING, SETTLED
      <3>3. QED
        BY <1>0, <1>p, <2>1, <3>1, <3>2, BaseStep, TailType DEF machine
    <2>4. CASE ~TooOften(Head(l.due)[2])
      <3>1. /\ cmd' = [cmd EXCEPT ![c].status = "DISPATCHED", ![c].dispatches = @ + 1]
            /\ Goto(w, "deal", [l EXCEPT !.due = Tail(@), !.out = @ \cup {c}])
        BY <1>6, <2>4 DEF deal, l
      <3> HIDE DEF c
      <3>2. cmd' \in [Commands -> Command]
        BY <1>0, <2>2, <3>1, UpdateType DEF OUTSTANDING, SETTLED
      <3>3. [l EXCEPT !.due = Tail(@), !.out = @ \cup {c}] \in Locals
        BY <1>0, <2>1, <2>2, TailType
      <3>4. QED
        BY <1>0, <1>p, <2>1, <3>1, <3>2, <3>3, BaseStep DEF machine
    <2>5. QED
      BY <2>3, <2>4
  <1>7. CASE respond(w)
    <2>1. agent' \in [at : {"off", "beat", "run", "post"}, w : Workers \cup {NoWorker},
                      cmds : SUBSET Commands]
      BY <1>0, <1>7 DEF respond, Locals, l
    <2>2. QED
      BY <1>0, <1>7, <2>1, BaseReturn DEF respond
  <1>8. CASE result(w)
    <2>1. l.c \in Commands /\ <<l.c, l.ok>> \in ran /\ l.ok \in BOOLEAN
      BY <1>0, <1>8 DEF result, l, Base, Results, Locals
    <2>2. CASE Return(w) /\ Answered(w)
      BY <1>0, <1>8, <2>2, BaseReturn, AnsweredType DEF result
    <2>3. CASE Goto(w, IF l.ok THEN "record" ELSE "fail", l) /\ UNCHANGED agent
      BY <1>0, <1>p, <1>8, <2>1, <2>3, BaseStep DEF result
    <2>4. QED
      BY <1>8, <2>2, <2>3 DEF result, l
  <1>9. CASE record(w)
    <2>1. l.c \in Commands /\ <<l.c, l.ok>> \in ran /\ l.ok
      BY <1>0, <1>9 DEF record, l, Base, Results
    <2>2. fresh' \subseteq Types
      BY <1>0, <1>9, <2>1 DEF record, l, Command
    <2>3. QED
      BY <1>0, <1>p, <1>9, <2>1, <2>2, BaseStep DEF record, machine, l
  <1>10. CASE succeed(w)
    <2>1. l.c \in Commands
      BY <1>10 DEF succeed, l, Base, Results
    <2>2. cmd' \in [Commands -> Command]
      BY <1>0, <1>10, <2>1, UpdateType DEF succeed, l, SETTLED
    <2>3. QED
      BY <1>0, <1>10, <2>2, BaseReturn, AnsweredType DEF succeed
  <1>11. CASE fail(w)
    <2>1. l.c \in Commands
      BY <1>11 DEF fail, l, Base, Results
    <2>2. cmd' \in [Commands -> Command]
      BY <1>0, <1>11, <2>1, UpdateType DEF fail, l, SETTLED
    <2>3. QED
      BY <1>0, <1>11, <2>2, BaseReturn, AnsweredType DEF fail
  <1>12. QED
    BY <1>1, <1>2, <1>3, <1>4, <1>5, <1>6, <1>7, <1>8, <1>9, <1>10, <1>11 DEF Continue

LEMMA BaseInit == Init => Base
  <1> SUFFICES ASSUME Init PROVE Base
    OBVIOUS
  <1>1. TypeOK
    BY LocalsType DEF Init, TypeOK, AgentOff, PCs
  <1>2. QED
    BY <1>1 DEF Init, Base, Staging, Results

\* A heartbeat arrives.
LEMMA BaseCollect ==
  ASSUME Base, NEW w \in Workers, collectForHeartbeat(w), UNCHANGED ran,
         agent' \in [at : {"off", "beat", "run", "post"}, w : Workers \cup {NoWorker},
                     cmds : SUBSET Commands]
  PROVE  Base'
  <1> DEFINE l == [NoLoc EXCEPT !.todo = AutoTypes, !.stale = Stale]
  <1>1. l \in Locals
    <2>1. Stale \subseteq Types
      BY DEF Stale
    <2>2. QED
      BY <2>1, AutoType, LocalsType DEF Locals
  <1>2. Goto(w, "auto", l) /\ UNCHANGED <<cmd, overdue, fresh>> /\ "auto" \in PCs
    BY DEF collectForHeartbeat, PCs
  <1>3. cmd \in [Commands -> Command] /\ fresh \subseteq Types
    BY DEF Base, TypeOK
  <1> HIDE DEF l
  <1>4. QED
    BY <1>1, <1>2, <1>3, BaseStep

LEMMA BaseNext == Base /\ [Next]_vars => Base'
  <1> SUFFICES ASSUME Base, [Next]_vars PROVE Base'
    OBVIOUS
  <1>0. /\ TypeOK /\ cmd \in [Commands -> Command] /\ fresh \subseteq Types
        /\ agent \in [at : {"off", "beat", "run", "post"}, w : Workers \cup {NoWorker},
                      cmds : SUBSET Commands]
    BY DEF Base, TypeOK
  <1>1. CASE UNCHANGED vars
    BY <1>1 DEF vars, machine, Base, TypeOK, Staging, Results
  <1>2. ASSUME NEW c \in Commands, NEW ok \in BOOLEAN, sendResult(c, ok) PROVE Base'
    <2>1. ran' = ran \cup {<<c, ok>>} /\ ran' \subseteq Commands \X BOOLEAN
      BY <1>0, <1>2 DEF sendResult, TypeOK
    <2>2. CASE agent' = [agent EXCEPT !.cmds = @ \ {c}] /\ UNCHANGED <<pc, loc>>
      BY <1>0, <1>2, <2>1, <2>2 DEF sendResult, Base, TypeOK, Staging, Results
    <2>3. ASSUME NEW w \in Workers, Goto(w, "result", [NoLoc EXCEPT !.c = c, !.ok = ok]),
                 agent' = [at |-> "post", w |-> w, cmds |-> agent.cmds \ {c}]
          PROVE  Base'
      <3> DEFINE l == [NoLoc EXCEPT !.c = c, !.ok = ok]
      <3>1. l \in Locals /\ l.c = c /\ l.ok = ok /\ "result" \in PCs
        BY LocalsType DEF Locals, PCs
      <3>2. Goto(w, "result", l)
        BY <2>3
      <3> HIDE DEF l
      <3>3. /\ pc' \in [Workers -> PCs] /\ loc' \in [Workers -> Locals]
            /\ pc'[w] = "result" /\ loc'[w] = l
            /\ \A v \in Workers : v # w => pc'[v] = pc[v] /\ loc'[v] = loc[v]
        BY <1>0, <3>1, <3>2, Moved
      <3>4. TypeOK'
        BY <1>0, <1>2, <2>1, <2>3, <3>3 DEF sendResult, TypeOK
      <3>5. Staging'
        BY <3>3 DEF Base, Staging
      <3>6. Results'
        BY <2>1, <3>1, <3>3 DEF Base, Results
      <3>7. QED
        BY <3>4, <3>5, <3>6 DEF Base
    <2>4. QED
      BY <1>2, <2>2, <2>3 DEF sendResult
  <1>3. CASE giveUp \/ endRun
    <2>1. agent' \in [at : {"off", "beat", "run", "post"}, w : Workers \cup {NoWorker},
                      cmds : SUBSET Commands]
      <3>1. AgentOff \in [at : {"off", "beat", "run", "post"}, w : Workers \cup {NoWorker},
                          cmds : SUBSET Commands]
        BY DEF AgentOff
      <3>2. [agent EXCEPT !.at = "run", !.w = NoWorker]
              \in [at : {"off", "beat", "run", "post"}, w : Workers \cup {NoWorker},
                   cmds : SUBSET Commands]
        BY <1>0
      <3>3. agent' \in {AgentOff, [agent EXCEPT !.at = "run", !.w = NoWorker]}
        BY <1>3 DEF giveUp, endRun
      <3>4. QED
        BY <3>1, <3>2, <3>3
    <2>2. UNCHANGED <<cmd, overdue, fresh, ran, pc, loc>>
      BY <1>3 DEF giveUp, endRun
    <2>3. QED
      BY <2>1, <2>2 DEF Base, TypeOK, Staging, Results
  <1>4. CASE view
    <2>1. cmd' \in [Commands -> Command]
      BY <1>0, <1>4, ExpireStep DEF view
    <2>2. QED
      BY <1>4, <2>1 DEF view, machine, Base, TypeOK, Staging, Results
  <1>5. ASSUME NEW c \in Commands, passTTL(c) PROVE Base'
    BY <1>5 DEF passTTL, machine, Base, TypeOK, Staging, Results
  <1>6. ASSUME NEW type \in fresh, age(type) PROVE Base'
    BY <1>6 DEF age, machine, Base, TypeOK, Staging, Results
  <1>7. ASSUME NEW w \in Workers, beat(w) PROVE Base'
    BY <1>0, <1>7, BaseCollect DEF beat
  <1>8. ASSUME NEW w \in Workers, testRegistered(w) PROVE Base'
    BY <1>0, <1>8, BaseCollect DEF testRegistered, machine
  <1>9. ASSUME NEW w \in Workers, NEW types \in Requests, request(w, types) PROVE Base'
    <2> DEFINE l == [NoLoc EXCEPT !.todo = types]
    <2>1. types \in Seq(Types) /\ types # <<>>
      <3>1. CASE types = <<"EVENT_LOG_QUERY">>
        BY <3>1 DEF Types
      <3>2. QED
        BY <3>1, AutoType DEF Requests
    <2>2. l \in Locals /\ l.todo # <<>> /\ "create" \in PCs
      BY <2>1, LocalsType DEF Locals, PCs
    <2>3. Goto(w, "create", l) /\ UNCHANGED <<cmd, overdue, fresh, agent, ran>>
      BY <1>9 DEF request, machine
    <2> HIDE DEF l
    <2>4. QED
      BY <1>0, <2>2, <2>3, BaseStep
  <1>10. QED
    BY <1>1, <1>2, <1>3, <1>4, <1>5, <1>6, <1>7, <1>8, <1>9, BaseHandler DEF Next, Agent

\* Rows, the agent's run and every handler's locals keep their type.
THEOREM TypeCorrect == Spec => []TypeOK
  <1>1. Base => TypeOK
    BY DEF Base
  <1>2. QED
    BY <1>1, BaseInit, BaseNext, PTL DEF Spec

-----------------------------------------------------------------------------
(* How often a command is handed out.                                      *)

\* A row that stays, or begins, as often handed out as it was.
RowKept(c) == /\ cmd'[c].dispatches = cmd[c].dispatches
              /\ cmd'[c].status = "NONE" => cmd[c].status = "NONE"

\* A step that hands nothing out and reads no row.
Kept == /\ \A w \in Workers : loc'[w].due = loc[w].due \/ loc'[w].due = <<>>
        /\ \A c \in Commands : RowKept(c)

\* A handler moves on with the rows it read, or without any.
LEMMA DueKept ==
  ASSUME TypeOK, NEW w \in Workers, NEW p \in PCs, NEW l \in Locals, Goto(w, p, l),
         l.due = loc[w].due \/ l.due = <<>>
  PROVE  \A v \in Workers : loc'[v].due = loc[v].due \/ loc'[v].due = <<>>
  BY Moved

LEMMA ReturnKept ==
  ASSUME TypeOK, NEW w \in Workers, Return(w)
  PROVE  \A v \in Workers : loc'[v].due = loc[v].due \/ loc'[v].due = <<>>
  <1>1. NoLoc.due = <<>>
    BY DEF NoLoc
  <1>2. QED
    BY <1>1, Returned

\* Every step but find() and deal() is such a step.
LEMMA MostlyKept ==
  ASSUME Base, Unsent, [Next]_vars, \A w \in Workers : ~find(w) /\ ~deal(w)
  PROVE  Kept
  <1>0. TypeOK
    BY DEF Base
  <1>p. {"idle", "auto", "autoCreate", "expire", "create", "result", "record", "succeed",
         "fail"} \subseteq PCs
    BY DEF PCs
  <1>n. NoLoc.due = <<>> /\ NoLoc \in Locals
    BY LocalsType DEF NoLoc
  <1>c. ASSUME NEW type \in Types, NEW asked \in BOOLEAN, Create(type, asked)
        PROVE  \A c \in Commands : RowKept(c)
    BY <1>0, <1>c, Created DEF Unsent, RowKept
  <1>e. ASSUME Expire PROVE \A c \in Commands : RowKept(c)
    BY <1>0, <1>e, ExpireStep DEF RowKept
  <1>1. ASSUME UNCHANGED <<cmd, loc>> PROVE Kept
    BY <1>1 DEF Kept, RowKept
  <1>2. CASE UNCHANGED vars \/ giveUp \/ endRun \/ (\E c \in Commands : passTTL(c))
               \/ (\E type \in fresh : age(type))
    BY <1>1, <1>2 DEF vars, giveUp, endRun, passTTL, age
  <1>3. CASE view
    BY <1>3, <1>e DEF view, Kept
  <1>4. ASSUME NEW c \in Commands, NEW ok \in BOOLEAN, sendResult(c, ok) PROVE Kept
    <2>1. CASE UNCHANGED <<pc, loc>>
      BY <1>1, <1>4, <2>1 DEF sendResult
    <2>2. ASSUME NEW w \in Workers, Goto(w, "result", [NoLoc EXCEPT !.c = c, !.ok = ok]) PROVE Kept
      <3> DEFINE l == [NoLoc EXCEPT !.c = c, !.ok = ok]
      <3>1. l \in Locals /\ l.due = <<>>
        BY <1>n DEF Locals
      <3>2. Goto(w, "result", l) /\ UNCHANGED cmd
        BY <1>4, <2>2 DEF sendResult
      <3> HIDE DEF l
      <3>3. QED
        BY <1>0, <1>p, <3>1, <3>2, DueKept DEF Kept, RowKept
    <2>3. QED
      BY <1>4, <2>1, <2>2 DEF sendResult
  <1>5. ASSUME NEW w \in Workers, collectForHeartbeat(w) PROVE Kept
    <2> DEFINE l == [NoLoc EXCEPT !.todo = AutoTypes, !.stale = Stale]
    <2>0. Stale \subseteq Types
      BY DEF Stale
    <2>1. l \in Locals /\ l.due = <<>>
      BY <1>n, <2>0, AutoType DEF Locals
    <2>2. Goto(w, "auto", l) /\ UNCHANGED cmd
      BY <1>5 DEF collectForHeartbeat
    <2> HIDE DEF l
    <2>3. QED
      BY <1>0, <1>p, <2>1, <2>2, DueKept DEF Kept, RowKept
  <1>6. ASSUME NEW w \in Workers, NEW types \in Requests, request(w, types) PROVE Kept
    <2> DEFINE l == [NoLoc EXCEPT !.todo = types]
    <2>0. types \in Seq(Types)
      <3>1. CASE types = <<"EVENT_LOG_QUERY">>
        BY <3>1 DEF Types
      <3>2. QED
        BY <3>1, AutoType DEF Requests
    <2>1. l \in Locals /\ l.due = <<>>
      BY <1>n, <2>0 DEF Locals
    <2>2. Goto(w, "create", l) /\ UNCHANGED cmd
      BY <1>6 DEF request
    <2> HIDE DEF l
    <2>3. QED
      BY <1>0, <1>p, <2>1, <2>2, DueKept DEF Kept, RowKept
  <1>7. ASSUME NEW w \in Workers, Continue(w) PROVE Kept
    <2> DEFINE l == loc[w]
    <2>0. l \in Locals /\ (l.todo # <<>> => [l EXCEPT !.todo = Tail(@)].due = l.due)
      BY <1>0 DEF TypeOK, Locals
    <2>r. ASSUME Return(w), UNCHANGED cmd PROVE Kept
      BY <1>0, <2>r, ReturnKept DEF Kept, RowKept
    <2> HIDE DEF l
    <2>g. ASSUME NEW p \in PCs, Goto(w, p, l)
          PROVE  \A v \in Workers : loc'[v].due = loc[v].due \/ loc'[v].due = <<>>
      BY <1>0, <2>0, <2>g, DueKept DEF l
    <2>t. ASSUME NEW p \in PCs, l.todo # <<>>, Goto(w, p, [l EXCEPT !.todo = Tail(@)])
          PROVE  \A v \in Workers : loc'[v].due = loc[v].due \/ loc'[v].due = <<>>
      BY <1>0, <2>0, <2>t, DueKept, TailType DEF l
    <2>1. CASE create(w) \/ autoCreate(w)
      <3>1. l.todo # <<>> /\ \E asked \in BOOLEAN : Create(Head(l.todo), asked)
        BY <2>1 DEF create, autoCreate, l, Base, Staging
      <3>2. \A c \in Commands : RowKept(c)
        BY <1>c, <2>0, <3>1, TailType
      <3>3. CASE Return(w)
        BY <1>0, <3>2, <3>3, ReturnKept DEF Kept
      <3>4. CASE \E p \in PCs : Goto(w, p, [l EXCEPT !.todo = Tail(@)])
        BY <2>t, <3>1, <3>2, <3>4 DEF Kept
      <3>5. QED
        BY <1>p, <2>1, <3>3, <3>4 DEF create, autoCreate, l
    <2>2. CASE auto(w)
      <3>1. UNCHANGED cmd
        BY <2>2 DEF auto
      <3>2. \/ Goto(w, "expire", l) \/ Goto(w, "autoCreate", l)
            \/ l.todo # <<>> /\ Goto(w, "auto", [l EXCEPT !.todo = Tail(@)])
        BY <2>2 DEF auto, l
      <3>3. QED
        BY <1>p, <2>g, <2>t, <3>1, <3>2 DEF Kept, RowKept
    <2>3. CASE expire(w)
      <3>1. Goto(w, "find", l) /\ Expire /\ "find" \in PCs
        BY <2>3 DEF expire, l, PCs
      <3>2. QED
        BY <1>e, <2>g, <3>1 DEF Kept
    <2>4. CASE respond(w)
      BY <2>4, <2>r DEF respond
    <2>5. CASE result(w)
      <3>1. UNCHANGED cmd
        BY <2>5 DEF result
      <3>2. Return(w) \/ \E p \in PCs : Goto(w, p, l)
        BY <1>p, <2>5 DEF result, l
      <3>3. QED
        BY <2>r, <2>g, <3>1, <3>2 DEF Kept, RowKept
    <2>6. CASE record(w)
      <3>1. UNCHANGED cmd /\ Goto(w, "succeed", l)
        BY <2>6 DEF record, l
      <3>2. QED
        BY <1>p, <2>g, <3>1 DEF Kept, RowKept
    <2>7. CASE succeed(w) \/ fail(w)
      <3>1. Return(w) /\ l.c \in Commands
        BY <2>7 DEF succeed, fail, l, Base, Results
      <3>2. \A c \in Commands : RowKept(c)
        BY <1>0, <2>7, <3>1 DEF succeed, fail, l, TypeOK, Command, RowKept
      <3>3. QED
        BY <1>0, <3>1, <3>2, ReturnKept DEF Kept
    <2>8. QED
      BY <1>7, <2>1, <2>2, <2>3, <2>4, <2>5, <2>6, <2>7 DEF Continue
  <1>8. QED
    BY <1>2, <1>3, <1>4, <1>5, <1>6, <1>7 DEF Next, Agent, beat, testRegistered

\* deal() takes the first row it read off its list; if the count it read is
\* below the limit, the row is counted up.
Dealt(w, c, k) ==
  /\ loc[w].due # <<>> /\ loc[w].due[1][1] = c /\ loc[w].due[1][2] = k
  /\ loc'[w].due = Tail(loc[w].due)
  /\ \A v \in Workers : v # w => loc'[v] = loc[v]
  /\ \A d \in Commands : d # c => cmd'[d] = cmd[d]
  /\ \/ /\ k < MaxDispatches /\ cmd'[c].status = "DISPATCHED"
        /\ cmd'[c].dispatches = cmd[c].dispatches + 1
     \/ /\ k >= MaxDispatches /\ cmd'[c].status = "FAILED" /\ cmd'[c].error = "limit"
        /\ cmd'[c].dispatches = cmd[c].dispatches

LEMMA DealStep ==
  ASSUME TypeOK, NEW w \in Workers, deal(w)
  PROVE  \E c \in Commands, k \in Nat : Dealt(w, c, k)
  <1> DEFINE l == loc[w]
             c == Head(l.due)[1]
             k == Head(l.due)[2]
  <1>0. l \in Locals /\ l.due # <<>> /\ l.due \in Seq(Commands \X Nat) /\ "deal" \in PCs
    BY DEF TypeOK, Locals, deal, PCs
  <1>1. c \in Commands /\ k \in Nat /\ l.due[1][1] = c /\ l.due[1][2] = k
    BY <1>0
  <1>2. MaxDispatches \in Nat /\ loc[w].due # <<>> /\ loc[w].due[1][1] = c /\ loc[w].due[1][2] = k
    BY <1>0, <1>1, CommandsAssumption
  <1>3. /\ [l EXCEPT !.due = Tail(@)].due = Tail(l.due)
        /\ [l EXCEPT !.due = Tail(@), !.out = @ \cup {c}].due = Tail(l.due)
    BY <1>0 DEF Locals
  <1>4. CASE k >= MaxDispatches
    <2>1. /\ cmd' = [cmd EXCEPT ![c].status = "FAILED", ![c].error = "limit"]
          /\ Goto(w, "deal", [l EXCEPT !.due = Tail(@)])
      BY <1>4 DEF deal, TooOften
    <2>2. [l EXCEPT !.due = Tail(@)] \in Locals
      BY <1>0, TailType
    <2>3. loc'[w].due = Tail(loc[w].due) /\ \A v \in Workers : v # w => loc'[v] = loc[v]
      <3> DEFINE rest == [l EXCEPT !.due = Tail(@)]
      <3>1. rest \in Locals /\ Goto(w, "deal", rest) /\ rest.due = Tail(loc[w].due)
        BY <1>3, <2>1, <2>2
      <3> HIDE DEF rest
      <3>2. QED
        BY <1>0, <3>1, Moved
    <2> HIDE DEF c, k
    <2>4. /\ \A d \in Commands : d # c => cmd'[d] = cmd[d]
          /\ cmd'[c].status = "FAILED" /\ cmd'[c].error = "limit"
          /\ cmd'[c].dispatches = cmd[c].dispatches
      BY <1>1, <2>1 DEF TypeOK, Command
    <2>5. Dealt(w, c, k)
      BY <1>1, <1>2, <1>4, <2>3, <2>4 DEF Dealt
    <2>6. QED
      BY <1>1, <2>5
  <1>5. CASE ~(k >= MaxDispatches)
    <2>1. /\ cmd' = [cmd EXCEPT ![c].status = "DISPATCHED", ![c].dispatches = @ + 1]
          /\ Goto(w, "deal", [l EXCEPT !.due = Tail(@), !.out = @ \cup {c}])
      BY <1>5 DEF deal, TooOften
    <2>2. [l EXCEPT !.due = Tail(@), !.out = @ \cup {c}] \in Locals
      BY <1>0, <1>1, TailType
    <2>3. loc'[w].due = Tail(loc[w].due) /\ \A v \in Workers : v # w => loc'[v] = loc[v]
      <3> DEFINE rest == [l EXCEPT !.due = Tail(@), !.out = @ \cup {c}]
      <3>1. rest \in Locals /\ Goto(w, "deal", rest) /\ rest.due = Tail(loc[w].due)
        BY <1>3, <2>1, <2>2
      <3> HIDE DEF rest
      <3>2. QED
        BY <1>0, <3>1, Moved
    <2> HIDE DEF c, k
    <2>4. /\ \A d \in Commands : d # c => cmd'[d] = cmd[d]
          /\ cmd'[c].status = "DISPATCHED" /\ cmd'[c].dispatches = cmd[c].dispatches + 1
      BY <1>1, <2>1 DEF TypeOK, Command
    <2>5. k < MaxDispatches
      BY <1>1, <1>2, <1>5
    <2>6. Dealt(w, c, k)
      BY <1>1, <1>2, <2>3, <2>4, <2>5 DEF Dealt
    <2>7. QED
      BY <1>1, <2>6
  <1>6. QED
    BY <1>4, <1>5

Limits == Unsent /\ Counts /\ Budget

\* There are finitely many handlers, and a command has at most all of them.
LEMMA HoldersFinite ==
  ASSUME NEW c
  PROVE  /\ IsFiniteSet(Holders(c)) /\ Cardinality(Holders(c)) \in Nat
         /\ Cardinality(Workers) \in Nat
         /\ Cardinality(Holders(c)) <= Cardinality(Workers)
  <1>1. Holders(c) \subseteq Workers /\ IsFiniteSet(Workers)
    BY CommandsAssumption DEF Holders
  <1>2. QED
    BY <1>1, FS_Subset, FS_CardinalityType

\* No handler more will hand it out: the budget holds.
LEMMA BudgetKept ==
  ASSUME NEW c \in Commands, TypeOK, Budget, Holders(c)' \subseteq Holders(c),
         cmd'[c].dispatches = cmd[c].dispatches
  PROVE  (cmd[c].dispatches + Cardinality(Holders(c)) <= MaxDispatches + Cardinality(Workers) - 1)'
  <1>1. Cardinality(Holders(c)') <= Cardinality(Holders(c)) /\ Cardinality(Holders(c)') \in Nat
    BY HoldersFinite, FS_Subset, FS_CardinalityType
  <1>2. cmd[c].dispatches \in Nat /\ MaxDispatches \in Nat
    BY CommandsAssumption DEF TypeOK, Command
  <1>3. QED
    BY <1>1, <1>2, HoldersFinite DEF Budget

LEMMA LimitsInit == Init => Limits
  <1> SUFFICES ASSUME Init PROVE Limits
    OBVIOUS
  <1>1. \A w \in Workers : loc[w].due = <<>> /\ Len(loc[w].due) = 0
    BY DEF Init, NoLoc
  <1>2. \A c \in Commands : cmd[c].dispatches = 0
    BY DEF Init, NoCommand
  <1>3. Unsent /\ Counts
    BY <1>1, <1>2 DEF Unsent, Counts
  <1>4. ASSUME NEW c \in Commands
        PROVE  cmd[c].dispatches + Cardinality(Holders(c)) <= MaxDispatches + Cardinality(Workers) - 1
    BY <1>2, HoldersFinite, CommandsAssumption
  <1>5. QED
    BY <1>3, <1>4 DEF Limits, Budget

LEMMA LimitsKept ==
  ASSUME Base, Limits, Kept
  PROVE  Limits'
  <1>0. TypeOK
    BY DEF Base
  <1>1. \A w \in Workers : loc'[w].due = loc[w].due \/ Len(loc'[w].due) = 0
    BY DEF Kept
  <1>2. Unsent'
    BY DEF Kept, RowKept, Limits, Unsent
  <1>3. \A w \in Workers : \A i \in 1..Len(loc[w].due) : loc[w].due[i][1] \in Commands
    BY <1>0 DEF TypeOK, Locals
  <1>4. Counts'
    BY <1>1, <1>3 DEF Kept, RowKept, Limits, Counts
  <1>5. ASSUME NEW c \in Commands PROVE Holders(c)' \subseteq Holders(c)
    BY <1>1 DEF Holders
  <1>6. Budget'
    BY <1>0, <1>5, BudgetKept DEF Kept, RowKept, Limits, Budget
  <1>7. QED
    BY <1>2, <1>4, <1>6 DEF Limits

\* Reading the rows: who finds a count below the limit gets a share of the
\* budget that is still there.
LEMMA LimitsFind ==
  ASSUME Base, Limits, NEW w \in Workers, find(w)
  PROVE  Limits'
  <1>0. TypeOK /\ UNCHANGED cmd /\ "deal" \in PCs
    BY DEF Base, find, PCs
  <1>1. PICK due \in Seq(Commands \X Nat) :
           /\ Goto(w, "deal", [loc[w] EXCEPT !.due = due])
           /\ [loc[w] EXCEPT !.due = due] \in Locals
           /\ \A i \in 1..Len(due) : due[i][2] = cmd[due[i][1]].dispatches
           /\ \A i, j \in 1..Len(due) : i # j => due[i][1] # due[j][1]
    BY <1>0, FindStep, Zenon
  <1> DEFINE l == [loc[w] EXCEPT !.due = due]
  <1>2. l.due = due
    BY <1>0 DEF TypeOK, Locals
  <1>3. Goto(w, "deal", l) /\ l \in Locals
    BY <1>1
  <1> HIDE DEF l
  <1>4. loc'[w].due = due /\ \A v \in Workers : v # w => loc'[v] = loc[v]
    BY <1>0, <1>2, <1>3, Moved
  <1>5. \A i \in 1..Len(due) : due[i][1] \in Commands /\ due[i][2] \in Nat
    OBVIOUS
  <1>6. Unsent'
    BY <1>0 DEF Limits, Unsent
  <1>7. Counts'
    <2> SUFFICES ASSUME NEW v \in Workers, NEW i \in 1..Len(loc'[v].due)
                 PROVE  /\ loc'[v].due[i][2] <= cmd'[loc'[v].due[i][1]].dispatches
                        /\ \A j \in 1..Len(loc'[v].due) :
                             i # j => loc'[v].due[i][1] # loc'[v].due[j][1]
      BY DEF Counts
    <2>1. CASE v = w
      <3>1. loc'[v].due = due /\ cmd' = cmd
        BY <1>0, <1>4, <2>1
      <3>2. due[i][2] = cmd[due[i][1]].dispatches /\ due[i][2] \in Nat
        BY <1>1, <1>5, <3>1
      <3>3. due[i][2] <= cmd[due[i][1]].dispatches
        BY <3>2
      <3>4. QED
        BY <1>1, <3>1, <3>3
    <2>2. CASE v # w
      <3>1. loc'[v] = loc[v] /\ cmd' = cmd
        BY <1>0, <1>4, <2>2
      <3>2. QED
        BY <3>1 DEF Limits, Counts
    <2>3. QED
      BY <2>1, <2>2
  <1>8. ASSUME NEW c \in Commands
        PROVE  (cmd[c].dispatches + Cardinality(Holders(c)) <= MaxDispatches + Cardinality(Workers) - 1)'
    <2>0. cmd[c].dispatches \in Nat /\ MaxDispatches \in Nat
      BY <1>0, CommandsAssumption DEF TypeOK, Command
    <2>1. CASE cmd[c].dispatches < MaxDispatches
      <3>1. Cardinality(Holders(c)') <= Cardinality(Workers) /\ Cardinality(Holders(c)') \in Nat
        <4>1. Holders(c)' \subseteq Workers /\ IsFiniteSet(Workers)
          BY CommandsAssumption DEF Holders
        <4>2. QED
          BY <4>1, FS_Subset, FS_CardinalityType
      <3>2. cmd'[c].dispatches = cmd[c].dispatches /\ Cardinality(Workers) \in Nat
        BY <1>0, HoldersFinite
      <3>3. cmd'[c].dispatches + Cardinality(Holders(c)') <= MaxDispatches + Cardinality(Workers) - 1
        BY <2>0, <2>1, <3>1, <3>2
      <3>4. QED
        BY <3>3
    <2>2. CASE ~(cmd[c].dispatches < MaxDispatches)
      <3>1. ~\E i \in 1..Len(due) : due[i][1] = c /\ due[i][2] < MaxDispatches
        BY <1>1, <1>5, <2>0, <2>2
      <3>2. Holders(c)' \subseteq Holders(c)
        BY <1>4, <3>1 DEF Holders
      <3>3. QED
        BY <1>0, <3>2, BudgetKept DEF Limits
    <2>3. QED
      BY <2>1, <2>2
  <1>9. QED
    BY <1>6, <1>7, <1>8 DEF Limits, Budget

\* Handing out: the handler gives up its share as the row is counted up.
LEMMA LimitsDeal ==
  ASSUME Base, Limits, NEW w \in Workers, deal(w)
  PROVE  Limits'
  <1>0. TypeOK
    BY DEF Base
  <1>1. PICK c \in Commands, k \in Nat : Dealt(w, c, k)
    BY <1>0, DealStep
  <1> DEFINE due == loc[w].due
  <1>2. due \in Seq(Commands \X Nat) /\ due # <<>> /\ loc'[w].due = Tail(due)
    BY <1>0, <1>1 DEF Dealt, TypeOK, Locals
  <1>3. Len(due) \in Nat /\ Len(due) # 0
    BY <1>2, EmptySeq
  <1>4. /\ Len(Tail(due)) = Len(due) - 1
        /\ \A i \in 1..Len(Tail(due)) : Tail(due)[i] = due[i + 1] /\ i + 1 \in 1..Len(due) /\ i + 1 # 1
    BY <1>2, <1>3, HeadTailProperties
  <1>5. \A i \in 1..Len(due) : due[i][1] \in Commands /\ due[i][2] \in Nat
    BY <1>2
  <1>6. \A v \in Workers : \A i \in 1..Len(loc[v].due) :
          loc[v].due[i][1] \in Commands /\ loc[v].due[i][2] \in Nat
    BY <1>0 DEF TypeOK, Locals
  <1>7. \A d \in Commands : /\ cmd[d].dispatches \in Nat /\ cmd'[d].dispatches \in Nat
                            /\ cmd'[d].dispatches >= cmd[d].dispatches
    BY <1>0, <1>1 DEF Dealt, TypeOK, Command
  <1>8. /\ due[1][1] = c /\ due[1][2] = k /\ 1 \in 1..Len(due)
        /\ \A v \in Workers : v # w => loc'[v] = loc[v]
        /\ \A d \in Commands : d # c => cmd'[d] = cmd[d]
    BY <1>1, <1>3 DEF Dealt
  <1>9. \A i, j \in 1..Len(due) : i # j => due[i][1] # due[j][1]
    BY DEF Limits, Counts
  <1> HIDE DEF due
  <1>10. Unsent'
    BY <1>1 DEF Dealt, Limits, Unsent
  <1>11. Counts'
    <2>1. ASSUME NEW v \in Workers, v # w, NEW i \in 1..Len(loc[v].due)
          PROVE  /\ loc[v].due[i][2] <= cmd'[loc[v].due[i][1]].dispatches
                 /\ \A j \in 1..Len(loc[v].due) : i # j => loc[v].due[i][1] # loc[v].due[j][1]
      <3>1. /\ loc[v].due[i][2] <= cmd[loc[v].due[i][1]].dispatches
            /\ \A j \in 1..Len(loc[v].due) : i # j => loc[v].due[i][1] # loc[v].due[j][1]
        BY <2>1 DEF Limits, Counts
      <3>2. loc[v].due[i][1] \in Commands /\ loc[v].due[i][2] \in Nat
        BY <1>6, <2>1
      <3>3. QED
        BY <1>7, <3>1, <3>2
    <2>2. ASSUME NEW i \in 1..Len(due)
          PROVE  due[i][2] <= cmd'[due[i][1]].dispatches
      <3>1. due[i][2] <= cmd[due[i][1]].dispatches
        BY DEF Limits, Counts, due
      <3>2. QED
        BY <1>5, <1>7, <3>1
    <2>3. ASSUME NEW i \in 1..Len(Tail(due))
          PROVE  /\ Tail(due)[i][2] <= cmd'[Tail(due)[i][1]].dispatches
                 /\ \A j \in 1..Len(Tail(due)) : i # j => Tail(due)[i][1] # Tail(due)[j][1]
      BY <1>3, <1>4, <1>9, <2>2
    <2>4. ASSUME NEW v \in Workers, NEW i \in 1..Len(loc'[v].due)
          PROVE  /\ loc'[v].due[i][2] <= cmd'[loc'[v].due[i][1]].dispatches
                 /\ \A j \in 1..Len(loc'[v].due) : i # j => loc'[v].due[i][1] # loc'[v].due[j][1]
      <3>1. CASE v = w
        BY <1>2, <2>3, <2>4, <3>1
      <3>2. CASE v # w
        BY <1>8, <2>1, <2>4, <3>2
      <3>3. QED
        BY <3>1, <3>2
    <2>5. QED
      BY <2>4 DEF Counts
  <1>12. ASSUME NEW d \in Commands PROVE Holders(d)' \subseteq Holders(d)
    <2>1. ASSUME NEW i \in 1..Len(Tail(due)), Tail(due)[i][1] = d, Tail(due)[i][2] < MaxDispatches
          PROVE  w \in Holders(d)
      <3>1. i + 1 \in 1..Len(due) /\ due[i + 1][1] = d /\ due[i + 1][2] < MaxDispatches
        BY <1>4, <2>1
      <3>2. QED
        BY <3>1 DEF Holders, due
    <2>2. QED
      BY <1>2, <1>8, <2>1 DEF Holders
  <1>13. ASSUME NEW d \in Commands
         PROVE  (cmd[d].dispatches + Cardinality(Holders(d)) <= MaxDispatches + Cardinality(Workers) - 1)'
    <2>1. CASE cmd'[d].dispatches = cmd[d].dispatches
      BY <1>0, <1>12, <2>1, BudgetKept DEF Limits
    <2>2. CASE cmd'[d].dispatches # cmd[d].dispatches
      <3>1. d = c /\ k < MaxDispatches /\ cmd'[c].dispatches = cmd[c].dispatches + 1
        BY <1>1, <1>8, <2>2 DEF Dealt
      <3>2. w \in Holders(c)
        BY <1>8, <3>1 DEF Holders, due
      <3>3. w \notin Holders(c)'
        <4>1. \A i \in 1..Len(Tail(due)) : Tail(due)[i][1] # c
          BY <1>4, <1>8, <1>9
        <4>2. QED
          BY <1>2, <4>1 DEF Holders
      <3>4. Holders(c)' \subseteq Holders(c) \ {w}
        BY <1>12, <3>3
      <3>5. /\ Cardinality(Holders(c) \ {w}) = Cardinality(Holders(c)) - 1
            /\ IsFiniteSet(Holders(c) \ {w})
        BY <3>2, HoldersFinite, FS_RemoveElement
      <3>6. Cardinality(Holders(c)') <= Cardinality(Holders(c)) - 1 /\ Cardinality(Holders(c)') \in Nat
        BY <3>4, <3>5, FS_Subset, FS_CardinalityType
      <3>7. QED
        BY <1>7, <3>1, <3>6, HoldersFinite, CommandsAssumption DEF Limits, Budget
    <2>3. QED
      BY <2>1, <2>2
  <1>14. QED
    BY <1>10, <1>11, <1>13 DEF Limits, Budget

LEMMA LimitsNext == Base /\ Limits /\ [Next]_vars => Limits'
  <1> SUFFICES ASSUME Base, Limits, [Next]_vars PROVE Limits'
    OBVIOUS
  <1>1. ASSUME NEW w \in Workers, find(w) PROVE Limits'
    BY <1>1, LimitsFind
  <1>2. ASSUME NEW w \in Workers, deal(w) PROVE Limits'
    BY <1>2, LimitsDeal
  <1>3. CASE \A w \in Workers : ~find(w) /\ ~deal(w)
    BY <1>3, MostlyKept, LimitsKept DEF Limits
  <1>4. QED
    BY <1>1, <1>2, <1>3

\* Types, where results come from, and the budget of dispatches hold always.
THEOREM Inductive == Spec => [](Base /\ Limits)
  BY BaseInit, BaseNext, LimitsInit, LimitsNext, PTL DEF Spec

\* However many heartbeats overlap, a command is handed out at most once more
\* than MAX_DISPATCHES for each handler but one.
THEOREM DispatchLimit == Spec => []DispatchesBounded
  <1>1. Base /\ Limits => DispatchesBounded
    <2> SUFFICES ASSUME Base, Limits, NEW c \in Commands
                 PROVE  cmd[c].dispatches <= MaxDispatches + Cardinality(Workers) - 1
      BY DEF DispatchesBounded
    <2>1. cmd[c].dispatches \in Nat /\ MaxDispatches \in Nat
      BY CommandsAssumption DEF Base, TypeOK, Command
    <2>2. QED
      BY <2>1, HoldersFinite DEF Limits, Budget
  <1>2. QED
    BY <1>1, Inductive, PTL

-----------------------------------------------------------------------------
(* Outcomes.                                                               *)

\* What happens to a row in a step, and on which grounds.
Grounds(c) ==
  \/ cmd'[c] = cmd[c]
  \/ cmd'[c].status \in OUTSTANDING
  \/ cmd'[c].status = "EXPIRED" /\ c \in overdue
  \/ cmd'[c].status = "SUCCEEDED" /\ <<c, TRUE>> \in ran
  \/ cmd'[c].status = "FAILED" /\ cmd'[c].error = "agent" /\ <<c, FALSE>> \in ran
  \/ /\ cmd'[c].status = "FAILED" /\ cmd'[c].error = "limit"
     /\ cmd'[c].dispatches >= MaxDispatches

LEMMA RowStep ==
  ASSUME Base, Limits, Next, NEW c \in Commands
  PROVE  Grounds(c)
  <1>0. TypeOK
    BY DEF Base
  <1>1. CASE UNCHANGED cmd
    BY <1>1 DEF Grounds
  <1>2. CASE Expire
    BY <1>0, <1>2, ExpireStep DEF Grounds
  <1>3. ASSUME NEW w \in Workers, create(w) \/ autoCreate(w) PROVE Grounds(c)
    <2>1. loc[w].todo # <<>> /\ \E asked \in BOOLEAN : Create(Head(loc[w].todo), asked)
      BY <1>3 DEF create, autoCreate, Base, Staging
    <2>2. loc[w] \in Locals
      BY <1>0 DEF TypeOK
    <2>3. QED
      BY <1>0, <2>1, <2>2, TailType, Created DEF Grounds, OUTSTANDING
  <1>4. ASSUME NEW w \in Workers, deal(w) PROVE Grounds(c)
    <2>1. PICK d \in Commands, k \in Nat : Dealt(w, d, k)
      BY <1>0, <1>4, DealStep
    <2>2. CASE c # d
      BY <2>1, <2>2 DEF Dealt, Grounds
    <2>3. CASE c = d /\ k < MaxDispatches
      BY <2>1, <2>3, CommandsAssumption DEF Dealt, Grounds, OUTSTANDING
    <2>4. CASE c = d /\ ~(k < MaxDispatches)
      <3>1. /\ cmd'[c].status = "FAILED" /\ cmd'[c].error = "limit" /\ k >= MaxDispatches
            /\ cmd'[c].dispatches = cmd[c].dispatches
        BY <2>1, <2>4 DEF Dealt
      <3>2. k <= cmd[c].dispatches
        <4>1. loc[w].due \in Seq(Commands \X Nat) /\ loc[w].due # <<>>
          BY <1>0, <2>1 DEF TypeOK, Locals, Dealt
        <4>2. 1 \in 1..Len(loc[w].due)
          BY <4>1, EmptySeq
        <4>3. loc[w].due[1][1] = c /\ loc[w].due[1][2] = k
          BY <2>1, <2>4 DEF Dealt
        <4>4. QED
          BY <4>2, <4>3 DEF Limits, Counts
      <3>3. cmd[c].dispatches \in Nat /\ MaxDispatches \in Nat
        BY <1>0, CommandsAssumption DEF TypeOK, Command
      <3>4. QED
        BY <3>1, <3>2, <3>3 DEF Grounds
    <2>5. QED
      BY <2>2, <2>3, <2>4
  <1>5. ASSUME NEW w \in Workers, succeed(w) PROVE Grounds(c)
    <2>1. loc[w].c \in Commands /\ <<loc[w].c, TRUE>> \in ran
      <3>1. pc[w] = "succeed" /\ loc[w].ok \in BOOLEAN
        BY <1>0, <1>5 DEF succeed, TypeOK, Locals
      <3>2. loc[w].c \in Commands /\ <<loc[w].c, loc[w].ok>> \in ran /\ loc[w].ok
        BY <3>1 DEF Base, Results
      <3>3. loc[w].ok = TRUE
        BY <3>1, <3>2
      <3>4. QED
        BY <3>2, <3>3
    <2>2. cmd' = [cmd EXCEPT ![loc[w].c].status = "SUCCEEDED", ![loc[w].c].error = "none"]
      BY <1>5 DEF succeed
    <2>3. /\ c # loc[w].c => cmd'[c] = cmd[c]
          /\ c = loc[w].c => cmd'[c].status = "SUCCEEDED" /\ cmd'[c].error = "none"
      BY <1>0, <2>1, <2>2 DEF TypeOK, Command
    <2>4. QED
      BY <2>1, <2>3 DEF Grounds
  <1>6. ASSUME NEW w \in Workers, fail(w) PROVE Grounds(c)
    <2>1. loc[w].c \in Commands /\ <<loc[w].c, FALSE>> \in ran
      <3>1. pc[w] = "fail" /\ loc[w].ok \in BOOLEAN
        BY <1>0, <1>6 DEF fail, TypeOK, Locals
      <3>2. loc[w].c \in Commands /\ <<loc[w].c, loc[w].ok>> \in ran /\ ~loc[w].ok
        BY <3>1 DEF Base, Results
      <3>3. loc[w].ok = FALSE
        BY <3>1, <3>2
      <3>4. QED
        BY <3>2, <3>3
    <2>2. cmd' = [cmd EXCEPT ![loc[w].c].status = "FAILED", ![loc[w].c].error = "agent"]
      BY <1>6 DEF fail
    <2>3. /\ c # loc[w].c => cmd'[c] = cmd[c]
          /\ c = loc[w].c => cmd'[c].status = "FAILED" /\ cmd'[c].error = "agent"
      BY <1>0, <2>1, <2>2 DEF TypeOK, Command
    <2>4. QED
      BY <2>1, <2>3 DEF Grounds
  <1>7. ASSUME NEW w \in Workers, Continue(w) PROVE Grounds(c)
    <2>1. CASE auto(w) \/ find(w) \/ respond(w) \/ result(w) \/ record(w)
      BY <1>1, <2>1 DEF auto, find, respond, result, record
    <2>2. CASE expire(w)
      BY <1>2, <2>2 DEF expire
    <2>3. QED
      BY <1>3, <1>4, <1>5, <1>6, <1>7, <2>1, <2>2 DEF Continue
  <1>8. CASE view
    BY <1>2, <1>8 DEF view
  <1>9. CASE Agent \/ (\E d \in Commands : passTTL(d)) \/ (\E type \in fresh : age(type))
    BY <1>1, <1>9 DEF Agent, giveUp, endRun, sendResult, passTTL, age
  <1>10. CASE \E w \in Workers : beat(w) \/ testRegistered(w) \/ \E types \in Requests : request(w, types)
    BY <1>1, <1>10 DEF beat, testRegistered, request, collectForHeartbeat
  <1>11. QED
    BY <1>7, <1>8, <1>9, <1>10 DEF Next

\* Evidence is never taken back.
LEMMA EvidenceStays ==
  ASSUME Next
  PROVE  ran \subseteq ran' /\ overdue \subseteq overdue'
  BY DEF Next, Agent, giveUp, endRun, sendResult, view, passTTL, age, beat, testRegistered,
         request, collectForHeartbeat, Continue, create, auto, autoCreate, expire, find, deal,
         respond, result, record, succeed, fail, machine

LEMMA ExplainedNext ==
  Base /\ Limits /\ OutcomeExplained /\ [Next]_vars => OutcomeExplained'
  <1> SUFFICES ASSUME Base, Limits, OutcomeExplained, [Next]_vars PROVE OutcomeExplained'
    OBVIOUS
  <1>1. CASE UNCHANGED vars
    BY <1>1 DEF vars, machine, OutcomeExplained
  <1>2. CASE Next
    <2>1. ran \subseteq ran' /\ overdue \subseteq overdue' /\ \A c \in Commands : Grounds(c)
      BY <1>2, EvidenceStays, RowStep
    <2>2. ASSUME NEW c \in Commands
          PROVE  /\ cmd'[c].status = "SUCCEEDED" => <<c, TRUE>> \in ran'
                 /\ cmd'[c].status = "FAILED" =>
                      \/ cmd'[c].error = "agent" /\ <<c, FALSE>> \in ran'
                      \/ cmd'[c].error = "limit" /\ cmd'[c].dispatches >= MaxDispatches
                 /\ cmd'[c].status = "EXPIRED" => c \in overdue'
      <3>1. CASE cmd'[c] = cmd[c]
        BY <2>1, <3>1 DEF OutcomeExplained
      <3>2. CASE cmd'[c] # cmd[c]
        BY <2>1, <3>2 DEF Grounds, OUTSTANDING
      <3>3. QED
        BY <3>1, <3>2
    <2>3. QED
      BY <2>2 DEF OutcomeExplained
  <1>3. QED
    BY <1>1, <1>2

\* Every outcome the console shows happened, for any number of overlapping
\* heartbeats, results and device pages.
THEOREM OutcomesAreExplained == Spec => []OutcomeExplained
  <1>1. Init => OutcomeExplained
    BY DEF Init, NoCommand, OutcomeExplained
  <1>2. QED
    BY <1>1, BaseInit, BaseNext, LimitsInit, LimitsNext, ExplainedNext, PTL DEF Spec
=============================================================================
