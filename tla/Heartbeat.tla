----------------------------- MODULE Heartbeat -----------------------------
(* Heartbeats from a producer (ec_timer of co_nmt.c) to a consumer            *)
(* (co_nmt_hb.c) on another node, in discrete time.                           *)
(*                                                                            *)
(* A node learns the time only from its cyclic tick: can_net_set_time stores  *)
(* it and fires the timers that are due, while a received frame is handled    *)
(* against the time of the last tick.  All times below are relative to now.   *)
EXTENDS Integers, Sequences

CONSTANTS
  Period,   \* the producer heartbeat time (1017)
  Ms,       \* the consumer heartbeat time (1016)
  TickMax,  \* the longest time between two ticks of a node
  Delay,    \* the longest time a frame spends on the bus
  MaxWire   \* bound: frames on the bus beyond which no reset is requested

ASSUME TimeAssumption ==
  /\ Period \in Nat \ {0}
  /\ Ms \in Nat \ {0}
  /\ TickMax \in Nat \ {0}
  /\ Delay \in Nat
  /\ MaxWire \in Nat

St == {"BOOTUP", "PREOP", "START", "STOP"}  \* BOOTUP is 0, hb->st at first

VARIABLES
  prod,     \* the producer
  wire,     \* the heartbeat frames on the bus, oldest first
  cons,     \* the heartbeat consumer of another node
  app,      \* what the application of the consumer was told last
  silence,  \* history: time since the consumer, as it is configured now, last
            \* heard a heartbeat, -1 if it has not
  gap       \* history: has a frame been lost or the producer failed since

vars == <<prod, wire, cons, app, silence, gap>>

\* Bound: silence counts up to a value past the latest detection.
SilenceCap == Ms + TickMax + 1

Producer ==
  [on  : BOOLEAN,
   st  : St \ {"BOOTUP"},         \* nmt->st
   age : 0 .. TickMax,            \* time since the last tick
   due : (1 - TickMax) .. Period] \* time until ec_timer is due

Frame == [st : St, age : 0 .. Delay]

Consumer ==
  [active : BOOLEAN,               \* is hb->recv registered
   st     : St,                    \* hb->st
   state  : {"RESOLVED", "OCCURRED"},
   timer  : BOOLEAN,               \* is hb->timer running
   left   : (1 - TickMax) .. Ms,   \* time until it is due
   age    : 0 .. TickMax]

App == [view : St, told : {"none", "occurred", "resolved"}]

-----------------------------------------------------------------------------
(* The handlers                                                            *)

\* Mutant: a timer that is due now waits for the next tick.
ExpiredLater(left) == left < 0

\* can_net_set_time fires a timer whose start is not after the new time.
Expired(left) == left <= 0

\* The timer is queued again before its callback and compared once more, so a
\* producer that was late sends every heartbeat it owes.
Owed(due) == IF Expired(due) THEN (-due) \div Period + 1 ELSE 0

\* Mutant: the timer of the old configuration keeps running.
SetConsumerRunning(c, on) ==
  [c EXCEPT !.active = on, !.st = "BOOTUP", !.state = "RESOLVED"]

\* co_nmt_hb_set_1016
SetConsumer(c, on) ==
  [c EXCEPT !.active = on, !.st = "BOOTUP", !.state = "RESOLVED",
            !.timer = FALSE, !.left = 0]

\* Mutants: a running timer is not started again; it is extended; it is not
\* started once a timeout has occurred.
HeardOnce(c, st) ==
  [c EXCEPT !.st = st, !.state = "RESOLVED", !.timer = TRUE,
            !.left = IF c.timer THEN @ ELSE Ms - c.age]
HeardExtended(c, st) ==
  [c EXCEPT !.st = st, !.state = "RESOLVED", !.timer = TRUE,
            !.left = IF c.timer THEN @ + Ms ELSE Ms - c.age]
HeardFirst(c, st) ==
  [c EXCEPT !.st = st, !.state = "RESOLVED", !.timer = (c.state = "RESOLVED"),
            !.left = IF c.state = "RESOLVED" THEN Ms - c.age ELSE 0]

\* co_nmt_hb_set_st: the timeout is measured from the last tick.
Heard(c, st) ==
  [c EXCEPT !.st = st, !.state = "RESOLVED", !.timer = TRUE,
            !.left = Ms - c.age]

\* Mutant: the report of a resolved timeout hides a new state.
ToldOne(a, c, st) ==
  IF c.state = "OCCURRED" THEN [a EXCEPT !.told = "resolved"]
  ELSE [a EXCEPT !.view = IF st # c.st THEN st ELSE @]

\* What co_nmt_hb_recv tells the application: a resolved timeout, a new state.
Told(a, c, st) ==
  [view |-> IF st # c.st THEN st ELSE a.view,
   told |-> IF c.state = "OCCURRED" THEN "resolved" ELSE a.told]

-----------------------------------------------------------------------------
(* The actions                                                             *)

Init ==
  /\ prod = [on |-> FALSE, st |-> "PREOP", age |-> 0, due |-> Period]
  /\ wire = <<>>
  /\ cons = [active |-> FALSE, st |-> "BOOTUP", state |-> "RESOLVED",
             timer |-> FALSE, left |-> 0, age |-> 0]
  /\ app = [view |-> "BOOTUP", told |-> "none"]
  /\ silence = -1
  /\ gap = FALSE

\* Power-on or a reset: the boot-up message, and ec_timer counts from the tick.
Boot(age) ==
  /\ Len(wire) < MaxWire
  /\ IF prod.on THEN age = prod.age ELSE age \in 0 .. TickMax
  /\ prod' = [on |-> TRUE, st |-> "PREOP", age |-> age, due |-> Period - age]
  /\ wire' = Append(wire, [st |-> "BOOTUP", age |-> 0])
  /\ UNCHANGED <<cons, app, silence, gap>>

\* Mutant: every change of state starts ec_timer again.
EnterStateRestarting(st) ==
  /\ prod.on
  /\ st # prod.st
  /\ prod' = [prod EXCEPT !.st = st, !.due = Period - prod.age]
  /\ UNCHANGED <<wire, cons, app, silence, gap>>

EnterState(st) ==
  /\ prod.on
  /\ st # prod.st
  /\ prod' = [prod EXCEPT !.st = st]
  /\ UNCHANGED <<wire, cons, app, silence, gap>>

ProducerTick ==
  /\ prod.on
  /\ prod' = [prod EXCEPT !.age = 0, !.due = @ + Owed(@) * Period]
  /\ wire' = wire \o [i \in 1 .. Owed(prod.due) |-> [st |-> prod.st, age |-> 0]]
  /\ UNCHANGED <<cons, app, silence, gap>>

\* External: the producer loses power.
Crash ==
  /\ prod.on
  /\ prod' = [prod EXCEPT !.on = FALSE, !.age = 0, !.due = Period]
  /\ gap' = TRUE
  /\ UNCHANGED <<wire, cons, app, silence>>

\* External: the bus loses a frame.
Lose ==
  /\ wire # <<>>
  /\ wire' = Tail(wire)
  /\ gap' = TRUE
  /\ UNCHANGED <<prod, cons, app, silence>>

Receive ==
  /\ wire # <<>>
  /\ wire' = Tail(wire)
  /\ IF cons.active
     THEN /\ cons' = Heard(cons, Head(wire).st)
          /\ app' = Told(app, cons, Head(wire).st)
          /\ silence' = 0
          /\ gap' = ~prod.on
     ELSE UNCHANGED <<cons, app, silence, gap>>
  /\ UNCHANGED prod

\* The consumer's tick; co_nmt_hb_timer reports the timeout.
ConsumerTick ==
  /\ IF cons.timer /\ Expired(cons.left)
     THEN /\ cons' = [cons EXCEPT !.age = 0, !.timer = FALSE, !.left = 0,
                                  !.state = "OCCURRED"]
          /\ app' = [app EXCEPT !.told = "occurred"]
     ELSE cons' = [cons EXCEPT !.age = 0] /\ UNCHANGED app
  /\ UNCHANGED <<prod, wire, silence, gap>>

\* An SDO write of 1016, or a reset, which restores 1016 and starts afresh.
Configure(on) ==
  /\ cons' = SetConsumer(cons, on)
  /\ silence' = -1
  /\ UNCHANGED <<prod, wire, app, gap>>

\* A unit of time passes: no tick and no frame may be overdue.
Advance ==
  /\ prod.on => prod.age < TickMax
  /\ cons.age < TickMax
  /\ \A i \in DOMAIN wire : wire[i].age < Delay
  /\ prod' = IF prod.on THEN [prod EXCEPT !.age = @ + 1, !.due = @ - 1] ELSE prod
  /\ wire' = [i \in DOMAIN wire |-> [wire[i] EXCEPT !.age = @ + 1]]
  /\ cons' = [cons EXCEPT !.age = @ + 1, !.left = IF cons.timer THEN @ - 1 ELSE @]
  /\ silence' = IF silence \in 0 .. SilenceCap - 1 THEN silence + 1 ELSE silence
  /\ UNCHANGED <<app, gap>>
-----------------------------------------------------------------------------
(* Specifications                                                          *)

Next ==
  \/ \E age \in 0 .. TickMax : Boot(age)
  \/ \E st \in St \ {"BOOTUP"} : EnterState(st)
  \/ ProducerTick
  \/ Crash
  \/ Lose
  \/ Receive
  \/ ConsumerTick
  \/ \E on \in BOOLEAN : Configure(on)
  \/ Advance

Spec == Init /\ [][Next]_vars

\* Time passes, the bus delivers, and the scheduler calls the consumer's tick.
FairSpec ==
  /\ Spec
  /\ WF_vars(Advance) /\ WF_vars(Receive) /\ WF_vars(ConsumerTick)
  /\ WF_vars(ProducerTick)

-----------------------------------------------------------------------------
(* Properties                                                              *)

TypeOK ==
  /\ prod \in Producer
  /\ wire \in Seq(Frame)
  /\ cons \in Consumer
  /\ app \in App
  /\ silence \in -1 .. SilenceCap
  /\ gap \in BOOLEAN

\* A timeout is never reported more than one tick early: the age of the network
\* time at the last heartbeat is all that the consumer time can lose.
NeverEarly == cons.state = "OCCURRED" => silence >= 0 /\ silence >= Ms - TickMax

\* A timeout is never late by a full tick.
NeverLate == silence >= Ms + TickMax => cons.state = "OCCURRED"

\* A producer that is on, of which no frame was lost, is never reported as lost
\* when the consumer time leaves room for the period, the delay of a frame and
\* a tick of each of the two nodes.
Margin == Ms >= Period + Delay + 2 * TickMax
NoFalseAlarm == Margin /\ cons.state = "OCCURRED" => gap

\* The application was told the state that the consumer believes the node to be
\* in, over every sequence of boot-ups, state changes and reconfigurations.
StateTold == cons.st # "BOOTUP" => app.view = cons.st

Health ==
  CASE cons.state = "OCCURRED" -> "lost"
    [] cons.state # "OCCURRED" /\ silence >= 0 -> "alive"
    [] OTHER -> IF cons.active THEN "unheard" ELSE "off"

Monitor == INSTANCE HeartbeatMonitor WITH health <- Health, told <- app.told

\* The consumer implements the abstract monitor: losses are reported of heard
\* nodes only, once, and resolved by the next heartbeat.
MonitorSpec == Monitor!Spec

\* A monitored producer that was heard and stays off is reported as lost.
CrashReported ==
  ~prod.on /\ silence >= 0 ~> (cons.state = "OCCURRED" \/ silence < 0 \/ prod.on)
=============================================================================
