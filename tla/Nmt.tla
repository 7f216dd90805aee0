-------------------------------- MODULE Nmt --------------------------------
(***************************************************************************)
(* The CANopen network management (NMT) service of co_nmt.c on a CAN bus.  *)
(*                                                                         *)
(* Every node runs one NMT service; bit 0 of its object 1F80 makes it the  *)
(* NMT master or a slave.  A handler of the service runs to completion     *)
(* under the lock of the component's protected interfaces, so a handler is *)
(* one action: it maps the record of its node to a new record, whose       *)
(* field tx holds the frames it handed to can_net_send, in order.  The bus *)
(* broadcasts these frames to the receive queue of every other node that   *)
(* is switched on.                                                         *)
(*                                                                         *)
(* Modelled as the component is built: no LSS, node guarding, TIME or boot *)
(* slave process, and a device without the redundancy object.              *)
(***************************************************************************)
EXTENDS Naturals, Sequences, Functions

CONSTANTS
  Node,          \* the node-IDs on the bus
  Unconfigured,  \* the nodes whose device has node-ID 0xFF
  StoredStartup, \* 1F80 in the concise DCF saved by co_nmt_init, per node
  StoredProducer,\* is 1017 nonzero in that DCF, per node
  Inhibit,       \* the NMT inhibit time 102A of a node, in network ticks
  BufSize,       \* the frames the command buffer of a master can hold
  LocalCs,       \* the command specifiers the application of a node issues to it
  ClientProducer,\* the values SDO clients write to 1017: is it nonzero
  ClientStartup, \* the values SDO clients write to 1F80
  MaxRx          \* bound: receive-queue length beyond which nobody starts more

Bit     == {"master", "stay"}   \* bits 0 and 2 of the NMT startup value
Cs      == {"START", "STOP", "ENTER_PREOP", "RESET_NODE", "RESET_COMM"}
Service == {"PDO", "SDO", "SYNC", "EMCY"}
Fsm     == {"off", "init", "bootup", "preop", "start", "stop"}
St      == {"BOOTUP", "STOP", "START", "PREOP", "RESET_NODE", "RESET_COMM"}
Est     == {"none", "PREOP", "START", "STOP"}

ASSUME NodeAssumption ==
  /\ 0 \notin Node
  /\ Unconfigured \subseteq Node
ASSUME StoredAssumption ==
  /\ StoredStartup \in [Node -> SUBSET Bit]
  /\ StoredProducer \in [Node -> BOOLEAN]
ASSUME BoundAssumption ==
  /\ Inhibit \in [Node -> Nat]
  /\ BufSize \in Nat \ {0}
  /\ LocalCs \in [Node -> SUBSET Cs]
  /\ ClientProducer \subseteq BOOLEAN
  /\ ClientStartup \subseteq SUBSET Bit
  /\ MaxRx \in Nat

Target  == Node \cup {0}                        \* 0 addresses every node
Command == [cs : Cs, id : Target]
NmtFrame == [kind : {"nmt"}, cs : Cs, id : Target]
EcFrame  == [kind : {"ec"}, id : Node, st : St]
Frame    == NmtFrame \cup EcFrame

VARIABLES
  nmt,  \* the record of each node's NMT service
  rx    \* the frames on their way to each node, in bus order

vars == <<nmt, rx>>

NodeState ==
  [fsm     : Fsm,              \* nmt->state; "off": no service exists
   st      : St,               \* nmt->st, the state heartbeats report
   srv     : SUBSET Service,   \* nmt->srv.set
   od1F80  : SUBSET Bit,       \* object 1F80 as it is now
   startup : SUBSET Bit,       \* nmt->startup, and with bit 0 nmt->master
   recv000 : BOOLEAN,          \* is recv_000 registered
   od1017  : BOOLEAN,          \* is object 1017 nonzero now
   hb      : BOOLEAN,          \* nmt->ms # 0 and ec_timer running
   listen  : BOOLEAN,          \* are the slaves' receivers registered
   est     : [Node -> Est],    \* slaves[].est; "none" is 0
   boot    : SUBSET Node,      \* slaves[].bootup
   buf     : Seq(Command),     \* nmt->buf
   csTimer : BOOLEAN,          \* is cs_timer running
   wait    : Nat,              \* ticks until nmt->inhibit, 0 if it has passed
   tx      : Seq(Frame)]       \* frames sent so far by the running handler

-----------------------------------------------------------------------------
(* Services and slave management                                           *)

StopSrv  == {}
PreopSrv == {"SDO", "SYNC", "EMCY"}
StartSrv == PreopSrv \cup {"PDO"}

IsMaster(r) == "master" \in r.startup

SrvSet(r, set) == [r EXCEPT !.srv = set]

EcSet(r, on) == [r EXCEPT !.hb = on]

SlavesFini(r) ==
  [r EXCEPT !.listen = FALSE, !.est = [s \in Node |-> "none"], !.boot = {}]

SlavesInit(r) == [SlavesFini(r) EXCEPT !.listen = TRUE]

-----------------------------------------------------------------------------
(* The command queue of the master                                         *)

ExpectedAfter(cs) ==
  CASE cs = "START" -> "START"
    [] cs = "STOP" -> "STOP"
    [] cs = "ENTER_PREOP" -> "PREOP"
    [] OTHER -> "none"

NmtFrameOf(c) == [kind |-> "nmt", cs |-> c.cs, id |-> c.id]

EstAfter(est, c) ==
  [s \in Node |-> IF c.id \in {0, s} /\ est[s] # "none"
                  THEN ExpectedAfter(c.cs) ELSE est[s]]

\* Mutant: the timer is stopped and not armed again for the rest of the buffer.
CsTimerOnce(n, r) ==
  IF r.buf = <<>> \/ r.wait > 0 THEN [r EXCEPT !.csTimer = r.buf # <<>>]
  ELSE LET c == Head(r.buf) IN
    [r EXCEPT !.buf = Tail(@), !.tx = Append(@, NmtFrameOf(c)),
              !.est = EstAfter(@, c), !.wait = Inhibit[n], !.csTimer = FALSE]

\* Sends the first buffered command unless the inhibit time forbids it.  The
\* loop of co_nmt_cs_timer sends one frame: after it either the inhibit time
\* runs, or there is none and the buffer held this frame only.
CsTimer(n, r) ==
  IF r.buf = <<>> THEN [r EXCEPT !.csTimer = FALSE]
  ELSE IF r.wait > 0 THEN [r EXCEPT !.csTimer = TRUE]
  ELSE LET c == Head(r.buf) IN
    [r EXCEPT !.buf = Tail(@),
              !.tx = Append(@, NmtFrameOf(c)),
              !.est = EstAfter(@, c),
              !.wait = Inhibit[n],
              !.csTimer = Tail(r.buf) # <<>>]

QueueCommand(n, r, cs, id) ==
  IF Len(r.buf) = BufSize THEN r
  ELSE CsTimer(n, [r EXCEPT !.buf = Append(@, [cs |-> cs, id |-> id])])

-----------------------------------------------------------------------------
(* The state machine: entering a state runs on into the next ones          *)

\* Mutant: the boot-up receivers are closed with the pre-operational state.
EnterStartDeaf(r) ==
  [SrvSet(SlavesFini(r), StartSrv) EXCEPT !.fsm = "start", !.st = "START"]

EnterStart(r) == [SrvSet(r, StartSrv) EXCEPT !.fsm = "start", !.st = "START"]

\* Mutant: the services keep running.
EnterStopServing(r) == [r EXCEPT !.fsm = "stop", !.st = "STOP"]

EnterStop(r) == [SrvSet(r, StopSrv) EXCEPT !.fsm = "stop", !.st = "STOP"]

StartupSlave(r) == IF "stay" \in r.startup THEN r ELSE EnterStart(r)

\* Mutant: the slaves are not reset.
StartupMasterOnly(n, r) == StartupSlave(SlavesInit(r))

StartupMaster(n, r) ==
  StartupSlave(QueueCommand(n, SlavesInit(r), "RESET_COMM", 0))

EnterPreop(n, r) ==
  LET p == [SrvSet(SlavesFini(r), PreopSrv) EXCEPT !.fsm = "preop",
                                                  !.st = "PREOP"]
  IN IF IsMaster(p) THEN StartupMaster(n, p) ELSE StartupSlave(p)

\* Mutant: heartbeat production is not resumed from the restored object.
EnterBootupSilent(n, r) ==
  IF n \in Unconfigured THEN [r EXCEPT !.fsm = "bootup"]
  ELSE EnterPreop(n, [r EXCEPT
         !.tx = Append(@, [kind |-> "ec", id |-> n, st |-> "BOOTUP"])])

EnterBootup(n, r) ==
  IF n \in Unconfigured THEN [r EXCEPT !.fsm = "bootup"]
  ELSE EnterPreop(n, [EcSet(r, r.od1017) EXCEPT
         !.tx = Append(@, [kind |-> "ec", id |-> n, st |-> "BOOTUP"])])

\* Mutant: 1F80 keeps what an SDO client wrote to it.
EnterResetCommUnrestored(n, r) ==
  EnterBootup(n, [EcSet(SrvSet(SlavesFini(r), {}), FALSE) EXCEPT
    !.od1017 = StoredProducer[n], !.startup = r.od1F80, !.st = "RESET_COMM",
    !.recv000 = "master" \notin r.od1F80])

\* Communication parameters return to the saved DCF before 1F80 is read.
EnterResetComm(n, r) ==
  EnterBootup(n, [EcSet(SrvSet(SlavesFini(r), {}), FALSE) EXCEPT
    !.od1F80 = StoredStartup[n], !.od1017 = StoredProducer[n],
    !.startup = StoredStartup[n],
    !.st = "RESET_COMM",
    !.recv000 = "master" \notin StoredStartup[n]])

EnterResetNode(n, r) ==
  EnterResetComm(n, [EcSet(SrvSet(SlavesFini(r), {}), FALSE) EXCEPT
    !.recv000 = FALSE, !.st = "RESET_NODE"])

\* The on_cs table: what each state does with a command specifier.
OnCs(n, r, cs) ==
  CASE cs = "RESET_NODE" -> EnterResetNode(n, r)
    [] cs = "RESET_COMM" /\ r.fsm # "init" -> EnterResetComm(n, r)
    [] cs = "START" /\ r.fsm \in {"preop", "stop"} -> EnterStart(r)
    [] cs = "STOP" /\ r.fsm \in {"preop", "start"} -> EnterStop(r)
    [] cs = "ENTER_PREOP" /\ r.fsm \in {"start", "stop"} -> EnterPreop(n, r)
    [] OTHER -> r

CsReq(n, r, cs, id) ==
  IF ~IsMaster(r) THEN r
  ELSE IF id = n /\ n \notin Unconfigured THEN OnCs(n, r, cs)
  ELSE QueueCommand(n, r, cs, id)

-----------------------------------------------------------------------------
(* Received frames                                                         *)

Recv000(n, r, f) ==
  IF f.id = 0 \/ (f.id = n /\ n \notin Unconfigured)
  THEN OnCs(n, r, f.cs) ELSE r

\* Mutants: the received state is taken over as it is; a known slave keeps its
\* expected state.
Recv700Raw(r, f) ==
  IF f.st = "BOOTUP"
  THEN [r EXCEPT !.est[f.id] = f.st, !.boot = @ \cup {f.id}] ELSE r

Recv700Keep(r, f) ==
  IF f.st = "BOOTUP"
  THEN [r EXCEPT !.est[f.id] = IF @ = "none" THEN "PREOP" ELSE @,
                 !.boot = @ \cup {f.id}]
  ELSE r

Recv700(r, f) ==
  IF f.st = "BOOTUP"
  THEN [r EXCEPT !.est[f.id] = "PREOP", !.boot = @ \cup {f.id}]
  ELSE r

Dispatch(n, r, f) ==
  CASE f.kind = "nmt" /\ r.recv000 -> Recv000(n, r, f)
    [] f.kind = "ec" /\ r.listen -> Recv700(r, f)
    [] OTHER -> r

-----------------------------------------------------------------------------
(* The bus and the actions                                                 *)

Created ==
  [fsm |-> "init", st |-> "BOOTUP", srv |-> {}, od1F80 |-> {}, startup |-> {},
   recv000 |-> FALSE, od1017 |-> FALSE, hb |-> FALSE, listen |-> FALSE,
   est |-> [s \in Node |-> "none"], boot |-> {}, buf |-> <<>>,
   csTimer |-> FALSE, wait |-> 0, tx |-> <<>>]

Off == [Created EXCEPT !.fsm = "off"]

On(n) == nmt[n].fsm # "off"

\* Bound: an application, a producer or an SDO client waits for the bus to drain.
Room == \A m \in Node : Len(rx[m]) < MaxRx

\* The handler of node n has ended in r: its frames reach the other nodes.
Apply(n, r, queues) ==
  /\ nmt' = [nmt EXCEPT ![n] = [r EXCEPT !.tx = <<>>]]
  /\ rx' = [m \in Node |-> IF m # n /\ On(m) THEN queues[m] \o r.tx
                           ELSE queues[m]]

Create(n) ==
  /\ ~On(n)
  /\ nmt' = [nmt EXCEPT ![n] = [Created EXCEPT !.od1F80 = StoredStartup[n],
                                               !.od1017 = StoredProducer[n]]]
  /\ UNCHANGED rx

\* External: the controller of a node loses power.
Crash(n) ==
  /\ On(n)
  /\ nmt' = [nmt EXCEPT ![n] = Off]
  /\ rx' = [rx EXCEPT ![n] = <<>>]

LocalCommand(n, cs) ==
  /\ On(n) /\ Room
  /\ cs \in LocalCs[n]
  /\ Apply(n, OnCs(n, nmt[n], cs), rx)

Request(n, cs, id) ==
  /\ On(n) /\ Room
  /\ Apply(n, CsReq(n, nmt[n], cs, id), rx)

Receive(n) ==
  /\ On(n)
  /\ rx[n] # <<>>
  /\ Apply(n, Dispatch(n, nmt[n], Head(rx[n])), [rx EXCEPT ![n] = Tail(@)])

Heartbeat(n) ==
  /\ nmt[n].hb /\ Room
  /\ Apply(n, [nmt[n] EXCEPT !.tx = <<[kind |-> "ec", id |-> n,
                                       st |-> nmt[n].st]>>], rx)

\* One tick of node n's network time: the command timer may expire.
Tick(n) ==
  /\ nmt[n].wait > 0
  /\ LET r == [nmt[n] EXCEPT !.wait = @ - 1]
     IN Apply(n, IF r.csTimer /\ r.wait = 0 THEN CsTimer(n, r) ELSE r, rx)

\* An SDO client writes 1017; on says whether the new time is nonzero.
WriteProducer(n, on) ==
  /\ "SDO" \in nmt[n].srv
  /\ on # nmt[n].od1017
  /\ Apply(n, EcSet([nmt[n] EXCEPT !.od1017 = on], on), rx)

\* An SDO client writes 1F80: read again at the next communication reset only.
WriteStartup(n, bits) ==
  /\ "SDO" \in nmt[n].srv
  /\ Apply(n, [nmt[n] EXCEPT !.od1F80 = bits], rx)

\* External: the bus loses a frame on its way to node n.
Lose(n) ==
  /\ rx[n] # <<>>
  /\ rx' = [rx EXCEPT ![n] = Tail(@)]
  /\ UNCHANGED nmt

-----------------------------------------------------------------------------
(* Specifications                                                          *)

Init ==
  /\ nmt = [n \in Node |-> Off]
  /\ rx = [n \in Node |-> <<>>]

NodeStep(n) ==
  \/ Create(n)
  \/ Crash(n)
  \/ \E cs \in Cs : LocalCommand(n, cs)
  \/ \E cs \in Cs, id \in Target : Request(n, cs, id)
  \/ Receive(n)
  \/ Heartbeat(n)
  \/ Tick(n)
  \/ \E on \in ClientProducer : WriteProducer(n, on)
  \/ \E bits \in ClientStartup : WriteStartup(n, bits)

Next == \E n \in Node : NodeStep(n) \/ Lose(n)

Spec == Init /\ [][Next]_vars

\* The driver thread hands over every frame and the scheduler calls tick
\* cyclically; nothing obliges a node to be switched on or commanded.
NextLossless == \E n \in Node : NodeStep(n)

FairSpec ==
  /\ Init /\ [][NextLossless]_vars
  /\ \A n \in Node : WF_vars(Receive(n)) /\ WF_vars(Tick(n))

-----------------------------------------------------------------------------
(* Properties                                                              *)

Operating == {"preop", "start", "stop"}
Running   == Operating \cup {"bootup"}

TypeOK ==
  /\ nmt \in [Node -> NodeState]
  /\ rx \in [Node -> Seq(Frame)]

InRole(r) ==
  /\ r.recv000 => ~IsMaster(r)
  /\ r.listen \/ r.csTimer => IsMaster(r)
  /\ r.fsm \in Running => (r.recv000 <=> ~IsMaster(r))
  /\ r.fsm \in Operating => (r.listen <=> IsMaster(r))

\* The receivers and the timer that a role needs are never left over from the
\* other role: co_nmt_recv_000 asserts that the node is no master (co_nmt.c:2689),
\* co_nmt_recv_700 and co_nmt_cs_timer that it is one (:2742, :2906), and
\* neither a reset nor a write to 1F80 may let one of them run in the wrong role.
RolesRespected == \A n \in Node : InRole(nmt[n])

Serving(r) ==
  /\ r.srv = (CASE r.fsm = "start" -> StartSrv
                [] r.fsm = "preop" -> PreopSrv
                [] OTHER -> StopSrv)
  /\ r.fsm = "start" => r.st = "START"
  /\ r.fsm = "preop" => r.st = "PREOP"
  /\ r.fsm = "stop" => r.st = "STOP"

\* The services that run and the state a heartbeat would report are those of
\* the state machine, along every path of states one command runs through.
ServicesMatchState == \A n \in Node : Serving(nmt[n])

Unstuck(r) == r.buf # <<>> => r.csTimer /\ r.wait > 0

\* A buffered NMT command has a running timer that will send it: no reset,
\* state change or full buffer strands a command of the master.
NoStuckCommand == \A n \in Node : Unstuck(nmt[n])

Producing(r) == IF r.fsm \in Operating THEN r.hb = r.od1017 ELSE ~r.hb

\* A node that has sent its boot-up message produces heartbeats exactly while
\* its object 1017 is nonzero, over resets and SDO writes.
ProducerFollowsObject == \A n \in Node : Producing(nmt[n])

\* Inductive: after the first reset a node has the role its saved DCF gives it,
\* whatever was written to 1F80 since, and no inhibit time exceeds 102A.
Coherent(n, r) ==
  /\ r.fsm \in Running => r.startup = StoredStartup[n]
  /\ r.fsm \notin Running => r.startup = {}
  /\ r.wait <= Inhibit[n]

NodeInv(n, r) ==
  InRole(r) /\ Serving(r) /\ Unstuck(r) /\ Producing(r) /\ Coherent(n, r)

IInv == TypeOK /\ \A n \in Node : NodeInv(n, nmt[n])

ResetAll == [cs |-> "RESET_COMM", id |-> 0]
NmtPending(s) == \E f \in Range(rx[s]) : f.kind = "nmt"
BootPending(m, s) ==
  [kind |-> "ec", id |-> s, st |-> "BOOTUP"] \in Range(rx[m])

\* On a lossless bus with one master, the state the master expects of a slave
\* it started or stopped is the state the slave is in, once the commands to
\* the slave and its boot-up messages have arrived.
EstAgrees ==
  \A m, s \in Node :
    /\ nmt[m].est[s] \in {"START", "STOP"}
    /\ nmt[s].fsm \in Operating
    /\ ~NmtPending(s) /\ ~BootPending(m, s)
    => nmt[s].st = nmt[m].est[s]

\* "Send the NMT 'reset communication' command to all slaves." (co_nmt.c:3512):
\* a master in operation hears of each of them.  Every slave in operation is
\* recorded as booted, or the reset or its boot-up message is under way.
NoSlaveMissed ==
  \A m, s \in Node :
    /\ m # s
    /\ nmt[m].fsm \in Operating /\ IsMaster(nmt[m])
    /\ nmt[s].fsm \in Operating
    => \/ s \in nmt[m].boot
       \/ BootPending(m, s)
       \/ ResetAll \in Range(nmt[m].buf)
       \/ NmtFrameOf(ResetAll) \in Range(rx[s])

\* The master eventually records the boot-up of every slave that operates,
\* unless one of the two is switched off or the slave leaves operation.
BootSeen ==
  \A m, s \in Node :
    (/\ m # s /\ IsMaster(nmt[m]) /\ nmt[m].fsm \in Operating
     /\ nmt[s].fsm \in Operating)
    ~> (s \in nmt[m].boot \/ ~On(m) \/ ~On(s))
=============================================================================
