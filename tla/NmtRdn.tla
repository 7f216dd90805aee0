------------------------------- MODULE NmtRdn -------------------------------
(* The redundancy manager of an NMT slave (co_nmt_rdn.c and its callers in    *)
(* co_nmt.c): which of two buses the slave listens to, chosen by the          *)
(* heartbeats of the master.                                                  *)
(*                                                                            *)
(* Time passes in ticks; a timer that is due fires before the next tick, in   *)
(* any order with the frames received.  A missed heartbeat also makes the     *)
(* slave enter PREOP, which changes nothing here.  The consumer of the        *)
(* master's heartbeats is that of Heartbeat.                                  *)
EXTENDS Integers

CONSTANTS
  Bus,       \* the CAN buses of the network
  Ms,        \* the consumer heartbeat time of the master (1016:01), in ticks
  Period,    \* the longest time between two heartbeats of the master
  Storeds,   \* the values of 2000 in the concise DCF of the nodes to check
  Ttoggles,  \* the values written to 2000:02, in heartbeat times
  Ntoggles,  \* the values written to 2000:03
  MaxChange, \* bound: resets, writes, and changes or losses of the master
  SteadyCap  \* bound: steady counts up to a value past the longest selection

Redundancy == \* 2000
  [bdefault : Bus, ttoggle : Nat, ntoggle : Nat, ctoggle : Nat]

ASSUME TimeAssumption ==
  /\ Ms \in Nat \ {0} /\ Period \in Nat \ {0}
  /\ MaxChange \in Nat /\ SteadyCap \in Nat
ASSUME ObjectAssumption ==
  /\ Ttoggles \subseteq Nat /\ Ntoggles \subseteq Nat
  /\ Storeds \subseteq Redundancy
  /\ \A o \in Storeds : o.ttoggle \in Ttoggles

VARIABLES
  stored,  \* 2000 in the concise DCF of this slave
  forward, \* does nmt->hb_ind reach co_nmt_on_hb: in the library, not in the
           \* component, whose indication takes its place
  st,      \* is the slave created, up, or stopped by a failed assertion
  rdn,     \* its redundancy manager
  obj,     \* its object 2000
  cons,    \* its consumer of the master's heartbeats
  told,    \* what co_nmt_ecss_rdn_ind told last
  master,  \* the NMT master
  steady,  \* history: ticks since the last change
  changes  \* the changes so far

build == <<stored, forward>>
vars == <<build, st, rdn, obj, cons, told, master, steady, changes>>

Manager ==
  [enabled   : BOOLEAN, \* nmt->rdn_enabled
   selecting : BOOLEAN, \* nmt->bus_selection
   active    : Bus,     \* the bus can_net_recv accepts frames from
   busA      : Bus,
   busB      : Bus,
   ms        : {0, Ms}, \* master_ms
   timer     : {-1} \union Nat] \* ticks until the toggle timer is due, or -1

Consumer ==
  [st    : {"BOOTUP", "PREOP"},
   on    : BOOLEAN, \* is 1016:01 active
   state : {"RESOLVED", "OCCURRED"},
   left  : -1 .. Ms] \* ticks until the timeout, or -1

Master ==
  [up : BOOLEAN, bus : Bus, age : 0 .. Period] \* age of the last heartbeat

-----------------------------------------------------------------------------
(* The handlers map the manager r and the object o                            *)

\* co_nmt_hb_set_1016
Unheard(on) == [st |-> "BOOTUP", on |-> on, state |-> "RESOLVED", left |-> -1]

\* Mutant: the timer goes on when the bus is found.
SetActiveBusDefaultOnly(r, o) ==
  [r |-> r, o |-> [o EXCEPT !.bdefault = r.active]]

SetActiveBusDefault(r, o) ==
  [r |-> [r EXCEPT !.timer = -1], o |-> [o EXCEPT !.bdefault = r.active]]

\* co_nmt_rdn_slave_finish_bus_selection
Finish(r, o) == SetActiveBusDefault([r EXCEPT !.selecting = FALSE], o)

\* co_nmt_rdn_fini
Fini(r, o) ==
  SetActiveBusDefault([r EXCEPT !.enabled = FALSE, !.selecting = FALSE], o)

\* co_nmt_rdn_init_slave: the bus of the default object, then a selection.  The
\* manager stays as it was if 2000:02 is 0.
InitSlave(r, o, ms) ==
  IF o.ttoggle = 0 THEN [r |-> r, o |-> o]
  ELSE [r |-> [r EXCEPT !.enabled = TRUE, !.selecting = TRUE, !.ms = ms,
                        !.busA = o.bdefault, !.active = o.bdefault,
                        !.timer = ms * o.ttoggle],
        o |-> [o EXCEPT !.ctoggle = 0]]

\* The handler of the slave leaves res.r and res.o, or an assertion fails.
Handled(ok, res) ==
  IF ok THEN st' = "up" /\ rdn' = res.r /\ obj' = res.o
  ELSE st' = "down" /\ UNCHANGED <<rdn, obj>>

-----------------------------------------------------------------------------
(* The slave                                                               *)

Up == st = "up"

\* The hook of the redundancy manager in co_nmt_on_hb.
Hooked == forward /\ rdn.enabled

\* co_nmt_hb_recv: a resolved timeout, then a new state, are indicated.
Hear(s) ==
  /\ cons' = [cons EXCEPT !.st = s, !.state = "RESOLVED", !.left = Ms]
  /\ LET resolved == cons.state = "OCCURRED" IN
     IF Hooked /\ (resolved \/ (s # cons.st /\ rdn.selecting))
     THEN Handled(resolved => rdn.selecting, Finish(rdn, obj))
     ELSE UNCHANGED <<st, rdn, obj>>

\* A heartbeat of the master with state s: heard on the active bus unless lost.
Received(s, b, lost) ==
  IF Up /\ cons.on /\ rdn.active = b /\ ~lost THEN Hear(s)
  ELSE UNCHANGED <<st, rdn, obj, cons>>

\* Mutant: nothing is asserted of the toggle time.
TimeoutUnchecked ==
  /\ Up /\ cons.left = 0
  /\ cons' = [cons EXCEPT !.state = "OCCURRED", !.left = -1]
  /\ IF Hooked
     THEN Handled(~rdn.selecting,
                  [r |-> [rdn EXCEPT !.selecting = TRUE,
                                     !.timer = rdn.ms * (obj.ttoggle - 1)],
                   o |-> [obj EXCEPT !.ctoggle = 0]])
     ELSE UNCHANGED <<st, rdn, obj>>
  /\ UNCHANGED <<build, told, master, steady, changes>>

\* co_nmt_hb_timer: the selection begins, and the time on this bus so far counts.
Timeout ==
  /\ Up /\ cons.left = 0
  /\ cons' = [cons EXCEPT !.state = "OCCURRED", !.left = -1]
  /\ IF Hooked
     THEN Handled(~rdn.selecting /\ obj.ttoggle # 0,
                  [r |-> [rdn EXCEPT !.selecting = TRUE,
                                     !.timer = rdn.ms * (obj.ttoggle - 1)],
                   o |-> [obj EXCEPT !.ctoggle = 0]])
     ELSE UNCHANGED <<st, rdn, obj>>
  /\ UNCHANGED <<build, told, master, steady, changes>>

\* Mutant: the switch always goes to the first bus.
FirstBus == rdn.busA

OtherBus == IF rdn.active = rdn.busA THEN rdn.busB ELSE rdn.busA

\* Mutant: the switches are not counted.
ToggleBusUncounted ==
  /\ Up /\ rdn.timer = 0
  /\ Handled(obj.ttoggle # 0,
             [r |-> [rdn EXCEPT !.active = OtherBus,
                                !.timer = rdn.ms * obj.ttoggle],
              o |-> obj])
  /\ told' = "switch"
  /\ UNCHANGED <<build, cons, master, steady, changes>>

\* co_nmt_rdn_toogle_bus; the selection goes on without a master.
ToggleBus ==
  /\ Up /\ rdn.timer = 0
  /\ IF obj.ctoggle < obj.ntoggle
     THEN /\ Handled(obj.ttoggle # 0,
                     [r |-> [rdn EXCEPT !.active = OtherBus,
                                        !.timer = rdn.ms * obj.ttoggle],
                      o |-> [obj EXCEPT !.ctoggle = @ + 1]])
          /\ told' = "switch"
     ELSE /\ Handled(TRUE, SetActiveBusDefault(rdn, obj))
          /\ told' = "no_master"
  /\ UNCHANGED <<build, cons, master, steady, changes>>

\* A change of the slave's surroundings, of which there are at most MaxChange.
Change ==
  /\ changes < MaxChange
  /\ changes' = changes + 1
  /\ steady' = 0
  /\ UNCHANGED build

\* Power-on and the resets up to PREOP: 2000 is restored by a reset of the node,
\* 1016 by both; the timer and the flags of the manager are not touched before.
Boot(node) ==
  /\ Change
  /\ \/ st = "created"
     \/ Up
  /\ cons' = Unheard(TRUE)
  /\ Handled(TRUE, InitSlave(rdn, IF node THEN stored ELSE obj, Ms))
  /\ UNCHANGED <<told, master>>

\* co_nmt_set_alternate_bus_id
SetAlternate(b) ==
  /\ Change
  /\ st # "down" /\ rdn.busB # b
  /\ rdn' = [rdn EXCEPT !.busB = b]
  /\ UNCHANGED <<st, obj, cons, told, master>>

\* co_rdn_dn_ind writes o to 2000, then co_nmt_rdn_update.
Write(o) ==
  /\ Change
  /\ Up /\ o # obj
  /\ IF rdn.enabled
     THEN Handled(TRUE, IF o.ttoggle = 0 THEN Fini(rdn, o)
                        ELSE [r |-> rdn, o |-> o])
     ELSE Handled(o.ttoggle # 0, InitSlave(rdn, o, IF cons.on THEN Ms ELSE 0))
  /\ UNCHANGED <<cons, told, master>>

WriteObject ==
  \/ \E b \in Bus : Write([obj EXCEPT !.bdefault = b])
  \/ \E t \in Ttoggles : Write([obj EXCEPT !.ttoggle = t])
  \/ \E n \in Ntoggles : Write([obj EXCEPT !.ntoggle = n])
  \/ \E n \in Ntoggles : Write([obj EXCEPT !.ctoggle = n])

\* co_1016_dn_ind: the time is set to 0 or back.
WriteConsumer ==
  /\ Change
  /\ Up
  /\ cons' = Unheard(~cons.on)
  /\ rdn' = IF rdn.enabled THEN [rdn EXCEPT !.ms = IF cons.on THEN 0 ELSE Ms]
            ELSE rdn
  /\ UNCHANGED <<st, obj, told, master>>

-----------------------------------------------------------------------------
(* The master                                                              *)

\* External: the master starts with its boot-up message, or is gone.
MasterStart(b) ==
  /\ Change
  /\ ~master.up
  /\ master' = [up |-> TRUE, bus |-> b, age |-> 0]
  /\ Received("BOOTUP", b, FALSE)
  /\ UNCHANGED told

MasterFail ==
  /\ Change
  /\ master.up
  /\ master' = [master EXCEPT !.up = FALSE]
  /\ UNCHANGED <<st, rdn, obj, cons, told>>

\* co_nmt_set_active_bus
MasterSwitch(b) ==
  /\ Change
  /\ master.up /\ master.bus # b
  /\ master' = [master EXCEPT !.bus = b]
  /\ UNCHANGED <<st, rdn, obj, cons, told>>

Beat ==
  /\ master.up
  /\ master' = [master EXCEPT !.age = 0]
  /\ Received("PREOP", master.bus, FALSE)
  /\ UNCHANGED <<build, told, steady, changes>>

LostBeat ==
  /\ Change
  /\ master.up
  /\ master' = [master EXCEPT !.age = 0]
  /\ Received("PREOP", master.bus, TRUE)
  /\ UNCHANGED told

Tick ==
  /\ Up => rdn.timer # 0 /\ cons.left # 0
  /\ master.up => master.age < Period
  /\ rdn' = [rdn EXCEPT !.timer = IF @ > 0 THEN @ - 1 ELSE @]
  /\ cons' = [cons EXCEPT !.left = IF @ > 0 THEN @ - 1 ELSE @]
  /\ master' = [master EXCEPT !.age = IF master.up THEN @ + 1 ELSE @]
  /\ steady' = IF steady < SteadyCap THEN steady + 1 ELSE steady
  /\ UNCHANGED <<build, st, obj, told, changes>>

-----------------------------------------------------------------------------
(* Specification                                                           *)

Init ==
  /\ stored \in Storeds
  /\ forward \in BOOLEAN
  /\ st = "created"
  /\ rdn = [enabled |-> FALSE, selecting |-> FALSE, active |-> stored.bdefault,
            busA |-> stored.bdefault, busB |-> stored.bdefault,
            ms |-> 0, timer |-> -1]
  /\ obj = stored
  /\ cons = Unheard(FALSE)
  /\ told = "none"
  /\ master \in [up : {FALSE}, bus : Bus, age : {0}]
  /\ steady = 0 /\ changes = 0

Next ==
  \/ \E node \in BOOLEAN : Boot(node)
  \/ Timeout
  \/ ToggleBus
  \/ \E b \in Bus : SetAlternate(b) \/ MasterStart(b) \/ MasterSwitch(b)
  \/ WriteObject
  \/ WriteConsumer
  \/ MasterFail
  \/ Beat
  \/ LostBeat
  \/ Tick

\* The node's cyclic tick fires its timers.
Spec ==
  /\ Init /\ [][Next]_vars
  /\ WF_vars(Timeout) /\ WF_vars(ToggleBus) /\ WF_vars(Beat) /\ WF_vars(Tick)

-----------------------------------------------------------------------------
(* Properties                                                              *)

\* The states of the slave, its manager and objects, and of the master.
TypeOK ==
  /\ stored \in Storeds
  /\ forward \in BOOLEAN
  /\ st \in {"created", "up", "down"}
  /\ rdn \in Manager
  /\ obj \in Redundancy
  /\ cons \in Consumer
  /\ told \in {"none", "switch", "no_master"}
  /\ master \in Master
  /\ steady \in 0 .. SteadyCap
  /\ changes \in 0 .. MaxChange

\* The toggle timer runs only during a selection, and a slave whose master was
\* missed is in one: so the assertion on bus_selection when the timeout is
\* resolved (co_nmt.c:3745) holds, whatever is reset or written in between.
SelectionIsOn ==
  st # "down" =>
    /\ rdn.timer >= 0 => rdn.selecting /\ rdn.enabled
    /\ Hooked /\ cons.state = "OCCURRED" => rdn.selecting

\* A slave that waits for a heartbeat is told that there is no master only if the
\* master has not been there, sending on one of the slave's two buses, for the
\* time that the slave listens to both (co_nmt_rdn_toogle_bus).  A slave whose
\* manager is enabled while it hears the master has no such promise: heartbeats
\* that bring no new state do not end the selection, and it leaves the bus.
NoMasterMeansGone ==
  [][/\ ToggleBus /\ told' = "no_master"
     /\ forward /\ rdn.ms = Ms /\ cons.left = -1 /\ obj.ntoggle > 0
     /\ rdn.busA # rdn.busB /\ master.bus \in {rdn.busA, rdn.busB}
     => ~(master.up /\ \A t \in Ttoggles : steady >= 2 * t * Ms)]_vars

\* Every selection ends: the slave does not go on switching for ever.
SelectionEnds == rdn.timer >= 0 ~> rdn.timer = -1 \/ st = "down"
=============================================================================
