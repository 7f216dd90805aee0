# A verification development for the TASTE CANopen component

The repository packages a CANopen stack (a C library derived from Lely CANopen, below
`src/component/CANopen/work/canopen/C/src`) as a TASTE function. This directory holds TLA+ models
of the stack as the component builds and uses it, TLC configurations that check them on small
instances, and proofs that TLAPS checks for every value of the constants.

    tlc -config NmtSafety.cfg MCNmt.tla        # a model-checking run
    tlapm NmtProofs.tla                        # the proofs of a module

Paths below are relative to the C source directory unless they start with `src/`.

## 1. The system

### Execution model

A TASTE function has one lock. Its provided interfaces (`canopen_PI_*` in `canopen.c`) are
*protected*, one runs at a time and to completion, and one cyclic interface,
`canopen_network_tick`, is called every 10 ms. There are no threads inside the stack: everything
happens in one of four ways, and each is one action of a model.

| entry | what it does |
|---|---|
| `canopen_PI_receive_data` | `can_net_recv`: the receiver callbacks of one frame |
| `canopen_PI_canopen_network_tick` | `can_net_set_time`: stores the time, fires the timers that are due |
| `canopen_PI_change_node_state`, `_reset_node`, `_issue_slave_command` | `co_nmt_cs_ind`, `co_nmt_cs_req` |
| `canopen_PI_set_` / `get_object_dictionary_data` | reads and writes the dictionary directly |

The concurrency is between *nodes*: each has its own clock and tick, and the CAN bus broadcasts
frames, in one order for all, into the receive queue of each node. Frames may be lost and nodes
may lose power. A handler that sends calls the wrapper's `send_callback`, which hands the frame to
the driver and always reports success, so a handler never fails in the middle for want of the bus.

### Components, their state and what makes them correct

| component | files | state | operations | correct when |
|---|---|---|---|---|
| NMT service | `co_nmt.c` | state machine, role, slave table, command buffer and inhibit time, heartbeat producer | commands (local, received, to slaves), boot-up of slaves, timers, SDO writes of 1016, 1017, 1F80, 1F82 | roles, services, timers and receivers agree with the state; commands are sent; the master's picture of its slaves is right |
| service manager | `co_nmt_srv.c` | the set of running services | `co_nmt_srv_set` and the start/stop of each service | the services of a state run in it, and no others |
| heartbeat consumer | `co_nmt_hb.c` | remote state, timeout flag, timer | frame, timeout, reconfiguration | losses are reported in time, never without cause, once, and resolved |
| SYNC | `co_sync.c` | copies of 1005, 1006, 1019, counter, timer, receiver | start, stop, SDO writes, timer, frame | copies follow the objects; SYNC is aligned, counted without gaps and arrives |
| CAN network interface | `can_net.c`, `can_buf.c`, `can_msg.c` | network time, timer heap, receiver tree | set_time, recv, send, start/stop of timers and receivers | timers fire once per interval and in order; a frame reaches all its receivers |
| TASTE wrapper | `canopen.c`, `canopen_utils.c` | the four handles, startup time | init, tick, receive, commands, dictionary access, indicators | results tell what happened; a failed init is recoverable |
| redundancy | `co_nmt_rdn.c` | active bus, toggle counters, timer | heartbeat lost, heartbeat seen, toggle | a slave ends on the bus its master uses |
| EMCY | `co_emcy.c` | error stack, 1001, 1003, inhibit time, frame buffer | push, pop, clear, frame, writes of 1003, 1014, 1015, 1028 | stack, 1003 and frames agree; none is stranded |
| SDO | `co_ssdo.c`, `co_csdo.c`, `co_sdo.c` | transfer state, toggle, buffers, timeout | expedited, segmented and block transfers, aborts | what arrives is what was sent, or both sides abort |
| PDO | `co_rpdo.c`, `co_tpdo.c`, `co_pdo.c` | mapping, transmission type, inhibit and event timers | events, SYNC, frames, SDO writes | a PDO is sent when its type asks for it and its inhibit time allows it |
| object dictionary | `co_dev.c`, `co_obj.c`, `co_val.c`, `co_type.c`, `co_sdev.c`, `co_dcf.c` | values | find, get, set, concise DCF | (data library) |
| containers, memory | `util_*.c` | | | (sequential) |

The rest of the source tree is not part of the component as it is built (`config.h`: no LSS, no
gateway, no WTM, no boot or configuration processes, no sockets), or uses it
(`src/test-project/CANopen-demo`), or packages it.

### How the parts interact

The wrapper creates a `can_net`, the NMT service on it, and takes the SYNC service that the
service manager created. NMT owns everything: entering an NMT state calls `co_nmt_srv_set`, which
stops and starts SDO, SYNC, EMCY and PDO. Services know each other through the object dictionary:
an SDO download to 1005 calls `co_1005_dn_ind` of the SYNC service, and so on, as long as the
service is started. The application's `set_object_dictionary_data` stores a value *without* that
call. Indications (state, heartbeat, SYNC, command) run back through the wrapper to the
application. `hazards` in `PROJECT.json` lists what is hard about this, each at its line, with the
properties that watch it or the reason why none does.

### Behaviour that shapes the models

* A communication reset restores 0x1000–0x1fff from the concise DCF saved at creation, *including*
  1F80 and 1017, and then reads the role from 1F80. A role written by SDO therefore never takes
  effect. The command buffer, its timer and the inhibit time survive the reset.
* Entering a state returns the next one; a reset of a configured node runs on to the
  pre-operational state and, unless bit 2 of 1F80 is set, to the operational state. The master
  resets all slaves whenever it enters the pre-operational state.
* The network time is that of the last tick. A frame handled later starts its timers from that
  time, so a timeout may expire up to one tick early. A timer with an interval that is several
  intervals late fires once for each of them in the same tick.

## 2. The modules

| module | what it is |
|---|---|
| `Nmt` | NMT services of the nodes of a bus, untimed but for the inhibit time |
| `MCNmt` | the values of its constants for TLC |
| `NmtProofs` | inductive invariant and safety theorems of `Nmt` |
| `HeartbeatMonitor` | abstract specification: what a heartbeat consumer promises |
| `Heartbeat` | producer, bus and consumer in discrete time; implements `HeartbeatMonitor` |
| `HeartbeatProofs` | timing theorems and the refinement |
| `HeartbeatAlarmProofs` | no false alarms, the state told, and the types of `Heartbeat` |
| `Sync` | SYNC services of the nodes of a bus in discrete time |
| `MCSync` | the values of its constants for TLC |
| `SyncProofs` | inductive invariant and safety theorems of `Sync` |
| `Emcy` | EMCY producer of one node: error stack, 1001, 1003, inhibit time, held-back frames |
| `MCEmcy` | the values of its constants for TLC |
| `EmcyProofs` | inductive invariant and safety theorems of `Emcy` |
| `Sdo` | an SDO client, an SDO server and the frames between them: every kind of transfer, faults |
| `MCSdo` | the values of its constants for TLC |
| `SdoProofs` | buffers, positions and types of `Sdo`; what a success means |
| `NmtRdn` | bus selection of a slave against the heartbeats of a master, in ticks |
| `MCNmtRdn` | the values of its constants for TLC |
| `NmtRdnProofs` | inductive invariant and safety theorems of `NmtRdn` |
| `Pdo` | a Transmit-PDO and a Receive-PDO that map one object, with NMT, SYNC and time |
| `MCPdo` | the values of its constants for TLC |
| `PdoProofs` | inductive invariants and safety theorems of `Pdo` |

`"map"` in `PROJECT.json` gives the source lines of every definition.

### Nmt

`nmt[n]` is the `struct co_nmt` of node *n* together with the two objects that steer it (1F80 and
1017), `rx[n]` the frames on their way to it. Handlers are operators on the record
(`EnterPreop`, `CsTimer`, `Recv700`, ...), one per C function and composed as the C functions call
each other; the frames they send are collected in `tx`. An action applies one handler and hands
`tx` to the bus (`Apply`). Abstracted: 1F80 to its bits 0 (master) and 2 (stay pre-operational);
1017 to zero or nonzero; 102A to a constant per node, in ticks; the slave table to the expected
state and the boot-up flag. The wait for the inhibit time counts ticks; the heartbeat timer
may expire at any time (its timing is the subject of `Heartbeat`). `Unconfigured` nodes have
node-ID 0xFF and stay in the boot-up state. `Crash` and `Lose` are the environment.

`LocalCs` restricts which commands an application issues *to its own node*. The runs about
the master's picture of its slaves let slaves reset themselves only: a slave that starts itself
against its master's orders makes the picture wrong in any CANopen system.

### Heartbeat

All times are relative to the present: `left` is the time until the consumer's timer is due,
`age` the time since a node's last tick. `Advance` lets one unit pass, when no tick and no frame is
overdue (`TickMax`, `Delay`). `Heard` is `co_nmt_hb_set_st`: the timeout starts at the time of
the *last tick*. `Owed` is the loop of `can_net_set_time`. `silence` and `gap` are history
variables. A `health` computed from the state refines `HeartbeatMonitor`.

### Sync

`sync[n]` is the `struct co_sync` of node *n* with the objects 1005, 1006 and 1019 (`od`), the
network time modulo a common multiple of the periods (`phase`), and two history fields: `stale`,
the objects the application wrote past the service, and `seen`, the last counter the application
was told. `Update` is `co_sync_update` with its alignment to the next multiple of the period.
`Tick(n, d)` advances a node's clock by `d` and sends every SYNC that is owed. SDO writes reject
what the code rejects. Identifiers are abstract members of `CanId`; `BaseId` are those of 11 bits.
That a frame of wrong length raises an error is in `Emcy`.

### Emcy

`emcy` is the `struct co_emcy` of one node with the objects 1001, 1003, 1014 and 1015, under the NMT
state that starts and stops it; `bus` is the history of the frames sent. Errors are numbered as
they occur, so that order and loss can be stated; codes and data are left out. `wait` and
`due` are the ticks until the inhibit time ends and the timer expires. `Push`, `Send` and `Flush`
call each other as in the C code. Only what the component really uses is an action: receive errors
of RPDOs and SYNC raise errors, nothing calls `co_emcy_pop` or `co_emcy_clear`, so the stack only
grows until an SDO client writes 0 to 1003. A communication reset restores 1001 and 1003 but keeps
the stack (`restored`); a stop cancels the timer of the frames in the buffer (`cut`).

### Sdo

`srv` is the `struct co_ssdo` of a server, `cli` the `struct co_csdo` of a client on another node;
`c2s` and `s2c` are the frames between them. A state of the C state machines is a value of `st`, an
`on_recv` function an operator of the same name (`ServerBlkDnSub` is `co_ssdo_blk_dn_sub_on_recv`).
A value is a sequence of segments of seven bytes; a CRC is the data it is computed from. `Capacity` is
the longest value, in segments, that fits the buffer of an SDO request in the server. Built without malloc, as
the component is, that buffer has `CO_SDO_REQ_MEMBUF_SIZE` bytes (`sdo.h:186`), 8 unless the build says
otherwise, and does not grow: a longer value is refused with NO_MEM, in an upload before the first
answer (`co_ssdo.c:1094`, `:1429`; `co_sdo.c:273`: `ServerUpIni`, `ServerBlkUpIni`), in a download at its first segment
(`co_sdo.c:370`: `ServerDnSeg`, `ServerBlkDnSub`; an expedited download needs no buffer). With the 8 bytes
everything from 9 bytes on is refused, which is `Capacity = 1` but for values of exactly 8 bytes; larger values of
`Capacity` stand for builds that give the request more room, and the proofs are for all of them. What the byte 0 of a frame means depends on the state it is received in: a segment of a block
carries its number there, and a stale one is read as a command of a segmented transfer or an abort,
and the other way round (`Toggle`, `LastOf`, `SeqnoOf`, `LastInBlock`). The client's timer may fire
when nothing more can come (`Timeout`) or, as a fault, earlier. `LocalWrite` is the application,
which stores a value while a transfer reads or writes the object. In the component the server's
timeout is never set, so a server waits for its client for ever; that it gets free again is
`Recovers`. The history variables tell what the object was since the request, and whether frames of
an earlier transfer were still under way (`stale`, `mixed`): CANopen cannot tell those from new ones.
`spilled` tells whether they ever were after a download without room: the server aborts a block at its
first segment, but all segments of the block have left, and each of the others is answered with one more abort
(but for the last of the value, which the wait state reads as an abort and ignores).

### NmtRdn

`rdn` is the `struct co_nmt_rdn` with the two flags of `struct co_nmt` it works with and the active bus
of the `can_net`; `obj` is the object 2000, `cons` the consumer of the master's heartbeats. Handlers are
operators on manager and object. Assertions of the code are guards of `Handled`: where one fails the
slave is `down`. `forward` distinguishes the library, in which a heartbeat event reaches
`co_nmt_on_hb`, from the component, whose indication takes its place (`canopen.c:244`): there a
selection is started at the boot-up and always runs out. The master starts, fails, changes its bus
and loses heartbeats as it likes; `steady` counts the ticks since the last such change.

### Pdo

`tpdo` and `rpdo` are the `struct co_tpdo` and `struct co_rpdo` of a node, with the copy `comm` of the
parameters `odT` (1800) and `odR` (1400). A value is the number of the frame that brought it, so that
"newer" can be stated. `EventOf` is `co_tpdo_event`, `SyncedT` and `SyncedR` are the two handlers of
SYNC, and `Sync` is `co_nmt_on_sync`, which runs all Transmit-PDOs before all Receive-PDOs.
`Fault` says what fails in this step: reading the mapped object, or sending. The build keeps the
services when they stop, and the SYNC handlers do not ask whether they are started: this is modelled,
and synchronous PDOs are indeed handled in PREOP with the copy of the last start. The component
never passes SYNC to the NMT service (`canopen.c:245`), so this part is about the library as it is
meant to be used.

## 3. What the runs check

| run | instance | question |
|---|---|---|
| `NmtSafety` | master, self-starting slave, node without node-ID; lossy bus, power failures, every local and remote command, SDO writes | do roles, services, queue and producer stay consistent |
| `NmtLossless` | master (buffer of 2, no inhibit time) and slave, nothing is lost | does the master hear of every slave |
| `NmtTrio` | master and two slaves, nothing is lost | does the master expect the state its slaves are in |
| `NmtResetLost` | as `NmtLossless` with an inhibit time | *violation*: the reset of all slaves is dropped |
| `Heartbeat` | period 2, timeout 7, ticks up to 2 apart, delay up to 1 | timing, reports, refinement, liveness |
| `Sync` | node 1 may produce, node 2 consumes; periods 1 and 2, overflow 0, 3 and the illegal 1 and 4; late ticks | do service and objects agree, is SYNC aligned, counted, received |
| `SyncStopped` | the same without application writes | *violation*: a stopped producer keeps sending |
| `Emcy` | stack, buffer and 1003 too small for the errors; inhibit times 0 and more | do stack and objects agree, are frames timed, ordered, sent |
| `EmcyStranded` | the same | *violation*: frames in the buffer survive a stop without a timer |
| `Sdo` | values of one segment (the object refuses it), of three, and of four for which there is no room; blocks of 2 and 127; two faults, two stale frames | is what arrives what was sent, is a confirmation true, what is refused without a fault, does every failure end |
| `NmtRdn` | two buses, heartbeat time 2, toggle times 0 to 2, up to 2 switches, five changes; library and component | is a selection on when it is thought to be, does it end, is a lost master really gone |
| `Pdo` | inhibit time 2 longer than the event time 1; types 0, 2, 252 to 254; window 1; three changes, two frames | are inhibit time and event timer kept, does SYNC separate |

**Bounds.** `MaxRx` and `MaxWire` make applications, timers and clients wait while queues are
longer than the bound; received frames are always handled, and a handler may overfill the bound
by the frames it sends. With `MaxRx = 1` a command is already in flight while another
handler runs, and the frames of one handler add to the queue, so crossings of commands and
boot-ups occur; the runs about crossings use 2. A command buffer of 2 (15 in the code) is full after
two commands during an inhibit time of one tick; the inhibit time only has to be nonzero.
In `Emcy` the stack, the buffer and 1003 are each shorter than the number of errors
(`MaxErr`), so that all three overflow.
Timeout 7 = period 2 + delay 1 + 2 · tick 2 is the least for which `NoFalseAlarm` speaks, so that
it is checked at its boundary. Overflow 3 wraps within a few
SYNCs; `TickMax = 2` with period 1 makes a tick owe two. History
variables are capped by named bounds (`SilenceCap`, `SteadyCap`, `QuietCap`).
In `Sdo` `Capacity` is 3, so that the values with room still need several segments and several blocks: three segments in blocks of two make a last block that is not full, and a build with 127 makes
one block hold everything; with two faults a segment and the confirmation of its repetition are lost,
or a transfer is given up and a frame of the next is lost; faults are not renewed, requests are: any
number of transfers follows. In `NmtRdn` five changes are a boot, a start of the master, a change of its bus and two
writes or resets; `SteadyCap` lies beyond the longest selection. In `Pdo` `QuietCap` is more than the
longest inhibit time, two frames are needed to have one that is older than the other, and starts, stops
and writes share three changes, enough to stop and start over, or to make invalid, change and make valid.

**Fairness.** `WF(Receive)`: the driver hands over every frame. `WF(Tick)`, `WF(Ticks)`,
`WF(ConsumerTick)`, `WF(ProducerTick)`: TASTE calls the cyclic interface. `WF(Advance)`:
time passes. `Sdo`: frames are handed over, the client's timer fires when nothing is under way, and
a user goes on requesting (`WF(Request)`), which `Recovers` needs, because a server without a
timeout is freed by the next request only. `NmtRdn`: `WF(Timeout)`, `WF(ToggleBus)` and `WF(Tick)`
are the cyclic interface, `WF(Beat)` that a master that is up sends. Nothing obliges an application to command, a node to be switched on, or a client to
write. The liveness properties are conditional where one of the nodes may be switched off or
reconfigured, and `BootSeen` is checked on a lossless bus only: no code repeats a boot-up message.

**The three violations.** `NmtResetLost`: `co_nmt_startup_master` ("Send the NMT 'reset
communication' command to all slaves.") ignores that `co_nmt_cs_req` fails when the buffer is full;
`NoSlaveMissed` holds without an inhibit time (`NmtLossless`). `SyncStopped`: the stop state claims
to disable all services, but `co_sync_stop` leaves the timer and the receiver as they are. `EmcyStranded`: the buffer's
messages "will be send once the inhibit time has elapsed", but `co_emcy_stop` cancels their timer and
`co_emcy_start` does not set it again; they wait for the next error. `PendingIsTimed` and `Delivered`
hold for every message not cut off this way.

**What else the models show.** These are not stated as properties the code promises, but a reader should
know them. *Sdo*: frames of an earlier transfer and one more fault can make a server store a part of a value
(the exception in `WholeValues`); after a block download that is refused for want of room, the aborts that answer the
rest of the block make a client that asks again before they have arrived take one for its answer, so that the next
transfer fails, and more may follow from it, without any fault (`spilled`, the exception in `FaultlessSucceeds` and
`WholeValues`); one early timeout can make the assertion on `dn_ind`
(`co_ssdo.c:1351`) fail, when a stale segment is read as an abort right after a block of which
nothing was taken (`st = "down"`). *NmtRdn*: a manager that is enabled by SDO while the slave hears its
master leaves the master's bus, because heartbeats that bring no new state do not end the selection
(the condition `cons.left = -1` of `NoMasterMeansGone`); a write to 2000 of a slave whose toggle time is 0 fails
the assertion in `co_nmt_rdn_update` (`co_nmt.c:3700`), and so does the first timeout after a reset
that restored a toggle time of 0; a boot-up message of the master during a selection starts the consumer's
timer, which may expire before the selection ends (`co_nmt.c:3738`); `co_nmt_set_alternate_bus_id` called during
a selection does not restart it, so that with a third bus a slave that is on the old alternate bus is told that there is no
master before it has listened to the new one (`NoMasterMeansGone` fails on an instance of three buses). *Pdo*: a change of the transmission
type neither starts nor stops the event timer (`idle`), and leaves a frame that waits for SYNC, which may then replace
a newer value (`retyped`); an event within the inhibit time is dropped, not deferred, unless there is
an event timer.

Each property has a mutant: a plausible slip in one mapped definition (named with the comment
`Mutant:` in the modules) under which TLC finds it violated.

## 4. What is proved

The proofs hold for all values of the constants that satisfy the named assumptions:
any number of nodes, any stored configuration, buffer, inhibit time, period, tick and delay.

*NmtProofs.* `IInv` is `TypeOK` and, for each node, `NodeInv`: the four checked safety invariants
plus `Coherent`, which makes them inductive: once a node runs, its role is the *stored* one, and no
wait exceeds 102A. A reset loads the stored role while the command timer of the old one may be
running; only because the two are the same does `RolesRespected` survive the step. The proof follows the calls: one
lemma per handler, from `CsTimer` up through `EnterPreop` and `EnterBootup` to `OnCs`, each with
what it needs to know of the record before and gives after; then one step per action.

Two more theorems relate the *master and its slaves* over the bus. They are about `Lossless` (the
specification whose bus loses nothing) and configurations with one master (`OneMaster`). `LinkInv` says
what the frames in the queues and the record of the master may hold at all: nobody has frames of its
own, only the master sends commands. On it `HeardInv` (for `NoSlaveMissed`) adds that the slave is recorded,
or its boot-up message or the reset that causes one is in a queue; it needs `NoInhibit`, since a
command that waits in the buffer of the master is in no queue. `MatchedInv` (for `EstAgrees`) says
what the commands still under way will make of the slave (`Tracks`: the last of them that
addresses it leads to the state expected); it holds for any inhibit time, but needs `SlavesOnlyReset`:
a slave that starts itself is not what the master expects. What a whole queue of commands leads to is
stated by its *last* one, as induction over a queue is out of reach.

*HeartbeatProofs.* The invariant relates the timer to the history: after a heartbeat
`left + silence` lies between `Ms - TickMax` and `Ms`, and a timer not yet fired is overdue by at
most the age of the tick. From it follow `NeverEarly`, `NeverLate` and the step simulation of
`HeartbeatMonitor` (`ConsumerImplementsMonitor`).

*HeartbeatAlarmProofs.* `HeartbeatProofs` is about the consumer alone; here the producer and the bus
join. `AlarmInv` says of a producer of which nothing was lost (`NextBeat`) that its next heartbeat is
due or on its way: with an empty bus the silence heard and the time left to the producer's
timer add up to at most a period, and a frame on its way left at most `Period + TickMax - 1`
after the last one was heard. With a delay and the consumer's own tick this makes
`Period + Delay + 2 * TickMax`, so `Margin` is what the argument needs and no more.

*SyncProofs.* `SInv` is `TypeOK`, `ServiceFollowsObjects` strengthened to the other modes (a
service that is not running keeps copies, timer and receiver that fit *each other*), `Aligned`
and `CounterInRange`. The arithmetic (a clock advanced by `d` past `k` owed frames, the wrap of
the counter, the divisibility of the phase) is in lemmas of its own. `NoSkippedCounter` is an action
property of frames in flight: `CntInv` says of each consumer that the frames on their way to it, with the
one the producer would send next at their end, are `Unbroken`: the counter goes up by one, or starts
again at the latest when the identifier changes, and the first of them follows what the consumer has seen.
A handler either restarts (`co_sync_update`) or keeps the counter and what was seen (`Restarted`);
the ticks and the receiver are the only others. The hypothesis `OneProducer` says that no other node has
the producer bit set or written.

*EmcyProofs.* `EInv` is `TypeOK`, `Mirrors` (1003 *equals* what `co_emcy_set_1003` last made of the
stack, from which `HistoryMirrorsStack` follows), `Timed`, `InOrder`, and `UpTo`: no message tells
of an error that has not occurred, without which a new error would not keep the order. `FlushResult`,
`SendResult` and `PushResult` say of each operator that the frames it sends followed by those it
keeps are the old buffer, with the new error at the end or not at all; order over the whole
history follows by associativity of concatenation.

*NmtRdnProofs.* `SInv` is `TypeOK` and `On`, that is `SelectionIsOn`: it is inductive because every
operator that ends a selection also stops the toggle timer (`SetActiveBusDefault`), and because a
reset makes the consumer forget the timeout before the manager starts anew. There is one lemma for each
handler (what it leaves of timer and flags), so the assertions are treated in one place, `Handled`.
`NoMasterMeansGone` rests on `NInv`, about a master that is up and a slave that waits for it. `Waiting`: before a
selection the age of the master's last heartbeat and the time left to the consumer make up the consumer time, unless
something changed since. `Listening`: in a selection, on the master's bus, that age and the toggle timer make up the
whole toggle time. So a slave that leaves the master's bus in vain does so within a period of the last change (a
heartbeat is never older than `Period`, a toggle time never shorter than `Ms`), and `Elsewhere`: the rest of its
selection is at most one toggle time on the other bus. A change establishes all three, whatever it changes
(`FreshHeard`). `Fit` says that the timer was set for some toggle time of the object, and that the
manager counts on a consumer only if it is on. `MissingMasterIsGone` has two hypotheses on the configuration that the code cannot
enforce: the consumer time is longer than the time between two heartbeats (as 1016 must be set for 1017), and
there are two buses (with a third, see section 3, it is false).

*SdoProofs.* The types of `Sdo` are not inductive alone: that a segment taken from a buffer exists is a matter of
several frames. `FInv` (`BuffersFit`) adds what a transfer may rely on: the sizes announced by frames under
way are those of values; a sequence number counts segments that are in the buffer, and the buffer
is not longer than the size; the window of a block upload lies within what was sent, that within the
value. Because a frame of an earlier transfer may be read as a segment of a block (`SeqnoOf`), it needs
that no such number is within reach (`Counted`: at most 15 segments, and 32 or more is read from
a frame without data). One lemma for each handler, all on `Answer` and `Reply`. The properties of completed transfers
(`ConfirmedMeansStored` and `UploadIsAValue`: `SessionInv`; `WholeValues` for transfers that do not mix:
`UnmixedInv`) rest on further invariants on top of it, that say which data a buffer is a prefix of. `FaultlessSucceeds`
rests on `TurnInv`: without a fault exactly one side has the frames that the other waits for, and for each state of
the client `Turn` says what is under way, and what state, toggle bit, sequence number and data the server has. The one
exception is `Spill`, while the server, back in its wait state, refuses the rest of a block without room: only segments
and aborts are under way, and when they are gone it is the client's turn again. So the
timer of the client cannot expire, nothing is answered with an abort but a value that the object refuses or for which there is
no room (`Unserved`; for an upload, one that the object had since the request), and the server's assertion
holds. `WholeValues` with one fault rests on `OneFaultInv`: the frames from the client follow each other (`Ordered`: each
segment comes after the one before it or its request, over the borders of transfers), the server expects the
first of them and the client goes on from the last (`InStep`). A lost request could put a segment
behind a wrong one; but before the only fault `Turn` holds, so that a server which collects segments has no
other frame under way than the lost one, and nothing moves until the client's timer aborts (`Stuck`).

*PdoProofs.* Two invariants, because the two services share no variable that matters to the other's property:
`TInv` adds to `TypeOK` `Spaced` (time left of the inhibit time and `quiet` add up to the inhibit
time, so that a frame sent when nothing is left cannot be early) and `Timed` (the event timer);
`RInv` adds `Ordered` (the waiting frame is not older than the object's value, and `before` not newer than
the frames received). `SyncSeparates` is an action property: it follows from `RInv` and the step.

Only model-checked: the liveness properties (`BootSeen`, `CrashReported`, `SyncArrives`, `Delivered`, `Recovers`, `SelectionEnds`: liveness
and ENABLED are out of the prover's reach). What recursive definitions compute for every input
would also stay with TLC (induction over data is out of reach); the modules use none.

## 5. What is not modelled

See `components` for each part. Of the modelled services: objects 1F81
and 1F25, the error behaviour 1029, failures of memory allocation, frames that are not well-formed;
the identifiers of SDO (1200, 1280) and the concise DCF download of a client.
That uploads and downloads past the fixed buffer of a request are *refused* is modelled (`Capacity`, `NoRoom` in `Sdo`): as shipped,
with 8 bytes, the server serves no longer value unless the application's own indication brings a buffer, which is
then a larger `Capacity`. The client's own limit (`co_csdo.c:1698`, `:2039`: the buffer of the user, or
the 8 bytes of `co_csdo.c:46`) is not: the client is taken to have room for what the server sends. In `Sdo` the object exists and may be
read and written, and the sizes that are announced are those of values. Not modelled in `Pdo` are the mapping of PDOs, its writes
(1A00, 1600), asynchronous sampling and the event lock.
The wrapper's heartbeat and SYNC indications replace those of the NMT service, so that the
library's own reactions to them (`co_nmt_on_hb`, `co_nmt_on_sync`) never run in the component; `NmtRdn`
(`forward`) and `Pdo` model them for the library.

The wrapper's initialization and the results of dictionary access (hazards at `canopen.c:237`, `:309`,
`:477`) are sequences of early returns in one function with one caller: a test shows
what they do. The timer heap and the receiver tree of `can_net.c` with changes during a dispatch
(`can_net.c:299`), the object dictionary and the containers are sequential data structures with pointers; the
models have what their users see of them. The rest of the tree is not compiled into the component.

## 6. The order of the modules

`Nmt` is the core on which every other service depends: NMT states start and stop them. `Heartbeat`,
`Sync`, `Emcy` and `Pdo` each take from it the starts, stops and resets as actions of their own
environment; `NmtRdn` continues what `Heartbeat` reports. `Sdo` stands below all of them: what
the others take as one write is a transfer there. `HeartbeatMonitor` is the abstract specification of
`Heartbeat`. A composition of `Sync` and `Pdo` would be the next module, then `can_net.c` as a module of its own.
