---------------------------- MODULE NmtRdnProofs ----------------------------
(* Type correctness and the state of the bus selection of NmtRdn, for every   *)
(* set of buses, heartbeat times, toggle times and numbers of switches; and,  *)
(* for two buses, what a slave may conclude from the silence of its master.   *)
EXTENDS NmtRdn, TLAPS

-----------------------------------------------------------------------------
(* What the handlers return                                                *)

\* A manager and an object.
Pair(p) == p.r \in Manager /\ p.o \in Redundancy

LEMMA Product ==
  ASSUME NEW ms \in {0, Ms}, NEW n \in Nat
  PROVE  ms * n \in Nat
<1>1. CASE ms = 0
  BY <1>1
<1>2. CASE ms = Ms
  <2>1. Ms \in Nat
    BY TimeAssumption
  <2> QED BY <1>2, <2>1
<1> QED BY <1>1, <1>2

LEMMA SetActiveBusDefaultType ==
  ASSUME NEW r \in Manager, NEW o \in Redundancy
  PROVE  Pair(SetActiveBusDefault(r, o))
<1>1. [r EXCEPT !.timer = -1] \in Manager
  BY DEF Manager
<1>2. [o EXCEPT !.bdefault = r.active] \in Redundancy
  BY DEF Manager, Redundancy
<1> QED BY <1>1, <1>2 DEF SetActiveBusDefault, Pair

LEMMA FinishType ==
  ASSUME NEW r \in Manager, NEW o \in Redundancy
  PROVE  Pair(Finish(r, o)) /\ Pair(Fini(r, o))
<1>1. /\ [r EXCEPT !.selecting = FALSE] \in Manager
      /\ [r EXCEPT !.enabled = FALSE, !.selecting = FALSE] \in Manager
  BY DEF Manager
<1> QED BY <1>1, SetActiveBusDefaultType DEF Finish, Fini

LEMMA InitSlaveType ==
  ASSUME NEW r \in Manager, NEW o \in Redundancy, NEW ms \in {0, Ms}
  PROVE  Pair(InitSlave(r, o, ms))
<1>1. o.ttoggle \in Nat /\ o.bdefault \in Bus /\ 0 \in Nat
  BY DEF Redundancy
<1>2. ms * o.ttoggle \in {-1} \union Nat
  BY <1>1, Product
<1>3. ASSUME NEW t \in {-1} \union Nat
      PROVE  [r EXCEPT !.enabled = TRUE, !.selecting = TRUE, !.ms = ms,
                       !.busA = o.bdefault, !.active = o.bdefault,
                       !.timer = t] \in Manager
  BY <1>1, Zenon DEF Manager
<1>4. [o EXCEPT !.ctoggle = 0] \in Redundancy
  BY <1>1, Zenon DEF Redundancy
<1>5. [r EXCEPT !.enabled = TRUE, !.selecting = TRUE, !.ms = ms,
                !.busA = o.bdefault, !.active = o.bdefault,
                !.timer = ms * o.ttoggle] \in Manager
  BY <1>2, <1>3
<1> QED BY <1>4, <1>5 DEF InitSlave, Pair

LEMMA UnheardType ==
  ASSUME NEW on \in BOOLEAN
  PROVE  Unheard(on) \in Consumer
BY TimeAssumption DEF Unheard, Consumer

\* The slave after a handler.
LEMMA HandledType ==
  ASSUME TypeOK, NEW ok, NEW p, Pair(p), Handled(ok, p)
  PROVE  st' \in {"up", "down"} /\ rdn' \in Manager /\ obj' \in Redundancy
BY DEF TypeOK, Pair, Handled

LEMMA HearType ==
  ASSUME TypeOK, NEW s \in {"BOOTUP", "PREOP"}, NEW b, NEW lost \in BOOLEAN,
         Received(s, b, lost)
  PROVE  /\ st' \in {"created", "up", "down"} /\ rdn' \in Manager
         /\ obj' \in Redundancy /\ cons' \in Consumer
<1>1. /\ cons \in Consumer /\ rdn \in Manager /\ obj \in Redundancy
      /\ st \in {"created", "up", "down"}
  BY DEF TypeOK
<1>2. CASE Hear(s)
  <2>1. Ms \in -1 .. Ms
    BY TimeAssumption
  <2>2. cons' \in Consumer
    BY <1>1, <1>2, <2>1, Zenon DEF Hear, Consumer
  <2>3. Pair(Finish(rdn, obj))
    BY <1>1, FinishType
  <2> QED BY <1>1, <1>2, <2>2, <2>3, HandledType DEF Hear
<1>3. CASE UNCHANGED <<st, rdn, obj, cons>>
  BY <1>1, <1>3
<1> QED BY <1>2, <1>3 DEF Received

-----------------------------------------------------------------------------
(* Types                                                                   *)

LEMMA InitType == Init => TypeOK
<1> SUFFICES ASSUME Init PROVE TypeOK
  OBVIOUS
<1>1. stored \in Redundancy /\ stored.bdefault \in Bus
  BY ObjectAssumption DEF Init, Redundancy
<1>2. -1 \in {-1} \union Nat /\ 0 \in {0, Ms} /\ 0 \in 0 .. Period
  BY TimeAssumption
<1>3. rdn \in Manager
  BY <1>1, <1>2, Zenon DEF Init, Manager
<1>4. master \in Master
  BY <1>2 DEF Init, Master
<1>5. cons \in Consumer
  BY UnheardType DEF Init
<1>6. steady \in 0 .. SteadyCap /\ changes \in 0 .. MaxChange
  BY TimeAssumption DEF Init
<1> QED BY <1>1, <1>3, <1>4, <1>5, <1>6 DEF Init, TypeOK

LEMMA ChangeType ==
  ASSUME TypeOK, Change
  PROVE  /\ changes' \in 0 .. MaxChange /\ steady' \in 0 .. SteadyCap
         /\ stored' \in Storeds /\ forward' \in BOOLEAN
BY TimeAssumption DEF Change, TypeOK, build

\* A write of a value of the object.
LEMMA WriteType ==
  ASSUME TypeOK, NEW o \in Redundancy, Write(o)
  PROVE  TypeOK'
<1>1. cons.on \in BOOLEAN /\ rdn \in Manager
  BY DEF TypeOK, Consumer
<1>2. (IF cons.on THEN Ms ELSE 0) \in {0, Ms}
  OBVIOUS
<1>3. /\ Pair(InitSlave(rdn, o, IF cons.on THEN Ms ELSE 0))
      /\ Pair(Fini(rdn, o))
      /\ Pair([r |-> rdn, o |-> o])
  BY <1>1, <1>2, InitSlaveType, FinishType DEF Pair
<1>4. st' \in {"up", "down"} /\ rdn' \in Manager /\ obj' \in Redundancy
  <2>1. CASE rdn.enabled /\ o.ttoggle = 0
    <3>1. Handled(TRUE, Fini(rdn, o))
      BY <2>1 DEF Write
    <3> QED BY <1>3, <3>1, HandledType
  <2>2. CASE rdn.enabled /\ o.ttoggle # 0
    <3>1. Handled(TRUE, [r |-> rdn, o |-> o])
      BY <2>2 DEF Write
    <3> QED BY <1>3, <3>1, HandledType
  <2>3. CASE ~rdn.enabled
    <3>1. Handled(o.ttoggle # 0, InitSlave(rdn, o, IF cons.on THEN Ms ELSE 0))
      BY <2>3 DEF Write
    <3> QED BY <1>3, <3>1, HandledType
  <2> QED BY <2>1, <2>2, <2>3
<1> QED BY <1>4, ChangeType DEF Write, TypeOK

LEMMA WriteObjectType ==
  ASSUME TypeOK, WriteObject
  PROVE  TypeOK'
<1>1. obj \in Redundancy
  BY DEF TypeOK
<1>2. /\ \A b \in Bus : [obj EXCEPT !.bdefault = b] \in Redundancy
      /\ \A t \in Ttoggles : [obj EXCEPT !.ttoggle = t] \in Redundancy
      /\ \A n \in Ntoggles : [obj EXCEPT !.ntoggle = n] \in Redundancy
      /\ \A n \in Ntoggles : [obj EXCEPT !.ctoggle = n] \in Redundancy
  BY <1>1, ObjectAssumption DEF Redundancy
<1> QED BY <1>2, WriteType DEF WriteObject

\* The slave after one of its timers was due.
LEMMA TimersType ==
  ASSUME TypeOK, Timeout \/ ToggleBus
  PROVE  TypeOK'
<1>1. /\ rdn \in Manager /\ obj \in Redundancy /\ cons \in Consumer
      /\ rdn.ms \in {0, Ms} /\ obj.ttoggle \in Nat /\ obj.ctoggle \in Nat
  BY DEF TypeOK, Manager, Redundancy
<1>2. CASE Timeout
  <2> DEFINE p == [r |-> [rdn EXCEPT !.selecting = TRUE,
                                     !.timer = rdn.ms * (obj.ttoggle - 1)],
                   o |-> [obj EXCEPT !.ctoggle = 0]]
             ok == ~rdn.selecting /\ obj.ttoggle # 0
  <2>1. -1 \in -1 .. Ms
    BY TimeAssumption
  <2>2. cons' \in Consumer
    BY <1>1, <1>2, <2>1, Zenon DEF Timeout, Consumer
  <2>3. ASSUME obj.ttoggle # 0 PROVE Pair(p)
    <3>1. rdn.ms * (obj.ttoggle - 1) \in {-1} \union Nat
      BY <1>1, <2>3, Product
    <3>2. ASSUME NEW t \in {-1} \union Nat
          PROVE  [rdn EXCEPT !.selecting = TRUE, !.timer = t] \in Manager
      BY <1>1, Zenon DEF Manager
    <3>3. [obj EXCEPT !.ctoggle = 0] \in Redundancy
      BY <1>1 DEF Redundancy
    <3>4. [rdn EXCEPT !.selecting = TRUE,
                      !.timer = rdn.ms * (obj.ttoggle - 1)] \in Manager
      BY <3>1, <3>2
    <3> QED BY <3>3, <3>4 DEF Pair
  <2>4. /\ UNCHANGED <<st, rdn, obj>> \/ Handled(ok, p)
        /\ UNCHANGED <<build, told, master, steady, changes>>
    BY <1>2 DEF Timeout
  <2>5. st' \in {"up", "down"} /\ rdn' \in Manager /\ obj' \in Redundancy
    <3>1. st = "up"
      BY <1>2 DEF Timeout, Up
    <3>2. CASE UNCHANGED <<st, rdn, obj>>
      BY <1>1, <3>1, <3>2
    <3>3. CASE Handled(ok, p) /\ obj.ttoggle # 0
      <4> HIDE DEF p, ok
      <4> QED BY <2>3, <3>3, HandledType
    <3>4. CASE Handled(ok, p) /\ obj.ttoggle = 0
      <4>1. ~ok
        BY <3>4
      <4> HIDE DEF p, ok
      <4> QED BY <1>1, <3>4, <4>1 DEF Handled
    <3> QED BY <2>4, <3>2, <3>3, <3>4
  <2> QED BY <2>2, <2>4, <2>5 DEF TypeOK, build
<1>3. CASE ToggleBus
  <2> DEFINE p == [r |-> [rdn EXCEPT !.active = OtherBus,
                                     !.timer = rdn.ms * obj.ttoggle],
                   o |-> [obj EXCEPT !.ctoggle = @ + 1]]
  <2>1. Pair(p)
    <3>1. rdn.ms * obj.ttoggle \in {-1} \union Nat /\ OtherBus \in Bus
      BY <1>1, Product DEF OtherBus, Manager
    <3>2. ASSUME NEW t \in {-1} \union Nat
          PROVE  [rdn EXCEPT !.active = OtherBus, !.timer = t] \in Manager
      BY <1>1, <3>1, Zenon DEF Manager
    <3>3. [obj EXCEPT !.ctoggle = @ + 1] \in Redundancy
      BY <1>1 DEF Redundancy
    <3>4. [rdn EXCEPT !.active = OtherBus, !.timer = rdn.ms * obj.ttoggle]
            \in Manager
      BY <3>1, <3>2
    <3> QED BY <3>3, <3>4 DEF Pair
  <2>2. Pair(SetActiveBusDefault(rdn, obj))
    BY <1>1, SetActiveBusDefaultType
  <2>3. /\ \/ Handled(obj.ttoggle # 0, p)
           \/ Handled(TRUE, SetActiveBusDefault(rdn, obj))
        /\ told' \in {"switch", "no_master"}
        /\ UNCHANGED <<build, cons, master, steady, changes>>
    BY <1>3 DEF ToggleBus
  <2>4. st' \in {"up", "down"} /\ rdn' \in Manager /\ obj' \in Redundancy
    <3> HIDE DEF p
    <3> QED BY <2>1, <2>2, <2>3, HandledType
  <2> QED BY <2>3, <2>4 DEF TypeOK, build
<1> QED BY <1>2, <1>3

LEMMA TypeStep ==
  ASSUME TypeOK, [Next]_vars
  PROVE  TypeOK'
<1>1. /\ rdn \in Manager /\ obj \in Redundancy /\ cons \in Consumer
      /\ master \in Master /\ stored \in Redundancy
      /\ st \in {"created", "up", "down"}
  BY ObjectAssumption DEF TypeOK
<1>2. 0 \in 0 .. Period
  BY TimeAssumption
<1>3. ASSUME NEW node \in BOOLEAN, Boot(node) PROVE TypeOK'
  <2> DEFINE o == IF node THEN stored ELSE obj
  <2>1. o \in Redundancy /\ Ms \in {0, Ms}
    BY <1>1
  <2>2. Pair(InitSlave(rdn, o, Ms)) /\ cons' \in Consumer
    BY <1>1, <1>3, <2>1, InitSlaveType, UnheardType DEF Boot
  <2>3. st' \in {"up", "down"} /\ rdn' \in Manager /\ obj' \in Redundancy
    BY <1>3, <2>2, HandledType DEF Boot
  <2> QED BY <1>3, <2>2, <2>3, ChangeType DEF Boot, TypeOK
<1>4. CASE Timeout \/ ToggleBus
  BY <1>4, TimersType
<1>5. ASSUME NEW b \in Bus, SetAlternate(b) PROVE TypeOK'
  <2>1. rdn' \in Manager
    BY <1>1, <1>5 DEF SetAlternate, Manager
  <2> QED BY <1>5, <2>1, ChangeType DEF SetAlternate, TypeOK
<1>6. ASSUME NEW b \in Bus, MasterStart(b) PROVE TypeOK'
  <2>1. master' \in Master
    BY <1>2, <1>6 DEF MasterStart, Master
  <2> QED BY <1>6, <2>1, ChangeType, HearType DEF MasterStart, TypeOK
<1>7. ASSUME NEW b \in Bus, MasterSwitch(b) PROVE TypeOK'
  <2>1. master' \in Master
    BY <1>1, <1>7 DEF MasterSwitch, Master
  <2> QED BY <1>7, <2>1, ChangeType DEF MasterSwitch, TypeOK
<1>8. CASE WriteObject
  BY <1>8, WriteObjectType
<1>9. CASE WriteConsumer
  <2>1. cons.on \in BOOLEAN
    BY <1>1 DEF Consumer
  <2>2. cons' \in Consumer
    BY <1>9, <2>1, UnheardType DEF WriteConsumer
  <2>3. rdn' \in Manager
    BY <1>1, <1>9 DEF WriteConsumer, Manager
  <2> QED BY <1>9, <2>2, <2>3, ChangeType DEF WriteConsumer, TypeOK
<1>10. CASE MasterFail
  <2>1. master' \in Master
    BY <1>1, <1>10 DEF MasterFail, Master
  <2> QED BY <1>10, <2>1, ChangeType DEF MasterFail, TypeOK
<1>11. CASE Beat
  <2>1. master' \in Master
    BY <1>1, <1>2, <1>11 DEF Beat, Master
  <2> QED BY <1>11, <2>1, HearType DEF Beat, TypeOK, build
<1>12. CASE LostBeat
  <2>1. master' \in Master
    BY <1>1, <1>2, <1>12 DEF LostBeat, Master
  <2> QED BY <1>12, <2>1, ChangeType, HearType DEF LostBeat, TypeOK
<1>13. CASE Tick
  <2>1. rdn' \in Manager
    BY <1>1, <1>13 DEF Tick, Manager
  <2>2. cons' \in Consumer
    BY <1>1, <1>13, TimeAssumption DEF Tick, Consumer
  <2>3. master' \in Master
    <3>1. master.age \in 0 .. Period /\ master.up \in BOOLEAN
      BY <1>1 DEF Master
    <3>2. (IF master.up THEN master.age + 1 ELSE master.age) \in 0 .. Period
      BY <1>13, <3>1, TimeAssumption DEF Tick
    <3>3. ASSUME NEW a \in 0 .. Period
          PROVE  [master EXCEPT !.age = a] \in Master
      BY <1>1 DEF Master
    <3>4. master' = [master EXCEPT !.age = IF master.up THEN master.age + 1
                                           ELSE master.age]
      BY <1>13 DEF Tick
    <3> QED BY <3>2, <3>3, <3>4
  <2>4. steady' \in 0 .. SteadyCap
    <3>1. /\ steady \in 0 .. SteadyCap /\ SteadyCap \in Nat
          /\ steady' = IF steady < SteadyCap THEN steady + 1 ELSE steady
      BY <1>13, TimeAssumption DEF Tick, TypeOK
    <3> QED BY <3>1
  <2> QED BY <1>13, <2>1, <2>2, <2>3, <2>4 DEF Tick, TypeOK, build
<1>14. CASE UNCHANGED vars
  BY <1>14 DEF vars, build, TypeOK
<1> QED BY <1>3, <1>4, <1>5, <1>6, <1>7, <1>8, <1>9, <1>10, <1>11, <1>12, <1>13,
           <1>14 DEF Next

\* The type invariant of the run NmtRdn, for every heartbeat and toggle time.
THEOREM TypeCorrect == Spec => []TypeOK
<1>1. Init => TypeOK
  BY InitType
<1>2. TypeOK /\ [Next]_vars => TypeOK'
  BY TypeStep
<1> QED BY <1>1, <1>2, PTL DEF Spec

-----------------------------------------------------------------------------
(* The state of the selection                                              *)

\* SelectionIsOn of a manager r and the state c of the consumer.
On(r, c) ==
  /\ r.timer >= 0 => r.selecting /\ r.enabled
  /\ forward /\ r.enabled /\ c = "OCCURRED" => r.selecting

\* A finished selection is On if the timeout is resolved, a new one in any case.
LEMMA FinishOn ==
  ASSUME NEW r \in Manager, NEW o
  PROVE  On(Finish(r, o).r, "RESOLVED")
<1>1. Finish(r, o).r.timer = -1
  BY DEF Finish, SetActiveBusDefault, Manager
<1> QED BY <1>1 DEF On

LEMMA FiniOn ==
  ASSUME NEW r \in Manager, NEW o, NEW c
  PROVE  On(Fini(r, o).r, c)
<1>1. Fini(r, o).r.timer = -1 /\ Fini(r, o).r.enabled = FALSE
  BY DEF Fini, SetActiveBusDefault, Manager
<1> QED BY <1>1 DEF On

LEMMA StoppedOn ==
  ASSUME NEW r \in Manager, NEW o, NEW c, On(r, c)
  PROVE  On(SetActiveBusDefault(r, o).r, c)
<1>1. /\ SetActiveBusDefault(r, o).r.timer = -1
      /\ SetActiveBusDefault(r, o).r.enabled = r.enabled
      /\ SetActiveBusDefault(r, o).r.selecting = r.selecting
  BY DEF SetActiveBusDefault, Manager
<1> QED BY <1>1 DEF On

LEMMA InitSlaveOn ==
  ASSUME NEW r \in Manager, NEW o, NEW ms, NEW c,
         On(r, c) \/ o.ttoggle # 0
  PROVE  On(InitSlave(r, o, ms).r, c)
<1>1. CASE o.ttoggle = 0
  BY <1>1 DEF InitSlave
<1>2. CASE o.ttoggle # 0
  <2>1. InitSlave(r, o, ms).r.enabled = TRUE /\ InitSlave(r, o, ms).r.selecting = TRUE
    BY <1>2 DEF InitSlave, Manager
  <2> QED BY <2>1 DEF On
<1> QED BY <1>1, <1>2

SInv == TypeOK /\ (st # "down" => On(rdn, cons.state))

LEMMA InvMeans == SInv => SelectionIsOn
BY DEF SInv, On, SelectionIsOn, Hooked

LEMMA HandledOn ==
  ASSUME NEW ok, NEW p, Handled(ok, p), ok => On(p.r, cons'.state),
         forward' = forward
  PROVE  (st # "down" => On(rdn, cons.state))'
BY DEF Handled, On

\* What leaves the manager alone.
LEMMA SameOn ==
  ASSUME SInv, st' = st, forward' = forward,
         rdn'.enabled = rdn.enabled, rdn'.selecting = rdn.selecting,
         rdn'.timer >= 0 => rdn.timer >= 0,
         cons'.state \in {cons.state, "RESOLVED"}
  PROVE  (st # "down" => On(rdn, cons.state))'
BY DEF SInv, On

LEMMA HearOn ==
  ASSUME SInv, NEW s, NEW b, NEW lost, Received(s, b, lost), forward' = forward
  PROVE  (st # "down" => On(rdn, cons.state))'
<1>1. cons \in Consumer /\ rdn \in Manager
  BY DEF SInv, TypeOK
<1>2. CASE Hear(s)
  <2>1. cons'.state = "RESOLVED"
    BY <1>1, <1>2 DEF Hear, Consumer
  <2>2. CASE UNCHANGED <<st, rdn, obj>>
    BY <2>1, <2>2, SameOn
  <2>3. ASSUME NEW ok, Handled(ok, Finish(rdn, obj))
        PROVE  (st # "down" => On(rdn, cons.state))'
    <3>1. On(Finish(rdn, obj).r, cons'.state)
      BY <1>1, <2>1, FinishOn
    <3> QED BY <2>3, <3>1, HandledOn
  <2> QED BY <1>2, <2>2, <2>3 DEF Hear
<1>3. CASE UNCHANGED <<st, rdn, obj, cons>>
  BY <1>3, SameOn
<1> QED BY <1>2, <1>3 DEF Received

LEMMA SStep ==
  ASSUME SInv, [Next]_vars
  PROVE  SInv'
<1>1. TypeOK /\ TypeOK'
  BY TypeStep DEF SInv
<1>2. /\ rdn \in Manager /\ obj \in Redundancy /\ cons \in Consumer
      /\ rdn.ms \in {0, Ms} /\ rdn.timer \in {-1} \union Nat
  BY <1>1 DEF TypeOK, Manager
<1> SUFFICES (st # "down" => On(rdn, cons.state))'
  BY <1>1 DEF SInv
<1>3. ASSUME NEW node \in BOOLEAN, Boot(node)
      PROVE  (st # "down" => On(rdn, cons.state))'
  <2> DEFINE o == IF node THEN stored ELSE obj
  <2>1. cons'.state = "RESOLVED" /\ forward' = forward /\ st # "down"
    BY <1>3 DEF Boot, Change, build, Unheard, Up
  <2>2. On(rdn, cons'.state)
    BY <2>1 DEF SInv, On
  <2>3. On(InitSlave(rdn, o, Ms).r, cons'.state)
    BY <1>2, <2>2, InitSlaveOn
  <2>4. Handled(TRUE, InitSlave(rdn, o, Ms))
    BY <1>3 DEF Boot
  <2> HIDE DEF o
  <2> QED BY <2>1, <2>3, <2>4, HandledOn
<1>4. CASE Timeout
  <2> DEFINE p == [r |-> [rdn EXCEPT !.selecting = TRUE,
                                     !.timer = rdn.ms * (obj.ttoggle - 1)],
                   o |-> [obj EXCEPT !.ctoggle = 0]]
             ok == ~rdn.selecting /\ obj.ttoggle # 0
  <2>1. cons'.state = "OCCURRED" /\ forward' = forward /\ st = "up"
    BY <1>2, <1>4 DEF Timeout, build, Consumer, Up
  <2>2. CASE Hooked
    <3>1. p.r.enabled = rdn.enabled /\ p.r.selecting = TRUE
      BY <1>2 DEF Manager
    <3>2. Handled(ok, p)
      BY <1>4, <2>2 DEF Timeout
    <3> HIDE DEF p, ok
    <3>3. On(p.r, cons'.state)
      BY <2>2, <3>1 DEF On, Hooked
    <3> QED BY <2>1, <3>2, <3>3, HandledOn
  <2>3. CASE ~Hooked
    <3>1. UNCHANGED <<st, rdn, obj>>
      BY <1>4, <2>3 DEF Timeout
    <3>2. On(rdn, cons.state)
      BY <2>1 DEF SInv
    <3> QED BY <2>1, <2>3, <3>1, <3>2 DEF Hooked, On
  <2> QED BY <2>2, <2>3
<1>5. CASE ToggleBus
  <2> DEFINE p == [r |-> [rdn EXCEPT !.active = OtherBus,
                                     !.timer = rdn.ms * obj.ttoggle],
                   o |-> [obj EXCEPT !.ctoggle = @ + 1]]
  <2>1. /\ forward' = forward /\ cons' = cons /\ On(rdn, cons.state)
        /\ rdn.timer = 0
    BY <1>5 DEF ToggleBus, build, SInv, Up
  <2>2. p.r.enabled = rdn.enabled /\ p.r.selecting = rdn.selecting
    BY <1>2 DEF Manager
  <2>3. \/ Handled(obj.ttoggle # 0, p)
        \/ Handled(TRUE, SetActiveBusDefault(rdn, obj))
    BY <1>5 DEF ToggleBus
  <2> HIDE DEF p
  <2>4. On(p.r, cons'.state) /\ On(SetActiveBusDefault(rdn, obj).r, cons'.state)
    BY <1>2, <2>1, <2>2, StoppedOn DEF On
  <2> QED BY <2>1, <2>3, <2>4, HandledOn
<1>6. ASSUME NEW b \in Bus, SetAlternate(b)
      PROVE  (st # "down" => On(rdn, cons.state))'
  <2>1. /\ rdn'.enabled = rdn.enabled /\ rdn'.selecting = rdn.selecting
        /\ rdn'.timer = rdn.timer
    BY <1>2, <1>6 DEF SetAlternate, Manager
  <2> QED BY <1>6, <2>1, SameOn DEF SetAlternate, Change, build
<1>7. ASSUME NEW b \in Bus, MasterStart(b)
      PROVE  (st # "down" => On(rdn, cons.state))'
  BY <1>7, HearOn DEF MasterStart, Change, build
<1>8. ASSUME NEW o \in Redundancy, Write(o)
      PROVE  (st # "down" => On(rdn, cons.state))'
  <2>1. cons' = cons /\ forward' = forward /\ On(rdn, cons.state)
    BY <1>8 DEF Write, Change, build, SInv, Up
  <2>2. CASE rdn.enabled /\ o.ttoggle = 0
    <3>1. Handled(TRUE, Fini(rdn, o))
      BY <1>8, <2>2 DEF Write
    <3> QED BY <1>2, <2>1, <3>1, FiniOn, HandledOn
  <2>3. CASE rdn.enabled /\ o.ttoggle # 0
    <3>1. Handled(TRUE, [r |-> rdn, o |-> o])
      BY <1>8, <2>3 DEF Write
    <3>2. On([r |-> rdn, o |-> o].r, cons'.state)
      BY <2>1
    <3> QED BY <2>1, <3>1, <3>2, HandledOn
  <2>4. CASE ~rdn.enabled
    <3> DEFINE ms == IF cons.on THEN Ms ELSE 0
    <3>1. Handled(o.ttoggle # 0, InitSlave(rdn, o, ms))
      BY <1>8, <2>4 DEF Write
    <3> HIDE DEF ms
    <3>2. On(InitSlave(rdn, o, ms).r, cons'.state)
      BY <1>2, <2>1, InitSlaveOn
    <3> QED BY <2>1, <3>1, <3>2, HandledOn
  <2> QED BY <2>2, <2>3, <2>4
<1>9. CASE WriteObject
  <2>1. /\ \A b \in Bus : [obj EXCEPT !.bdefault = b] \in Redundancy
        /\ \A t \in Ttoggles : [obj EXCEPT !.ttoggle = t] \in Redundancy
        /\ \A n \in Ntoggles : [obj EXCEPT !.ntoggle = n] \in Redundancy
        /\ \A n \in Ntoggles : [obj EXCEPT !.ctoggle = n] \in Redundancy
    BY <1>2, ObjectAssumption DEF Redundancy
  <2> QED BY <1>8, <1>9, <2>1 DEF WriteObject
<1>10. CASE WriteConsumer
  <2>1. /\ rdn'.enabled = rdn.enabled /\ rdn'.selecting = rdn.selecting
        /\ rdn'.timer = rdn.timer
    BY <1>2, <1>10 DEF WriteConsumer, Manager
  <2>2. cons'.state = "RESOLVED" /\ st' = st /\ forward' = forward
    BY <1>10 DEF WriteConsumer, Unheard, Change, build
  <2> QED BY <2>1, <2>2, SameOn
<1>11. CASE Beat \/ LostBeat
  <2>1. forward' = forward
    BY <1>11 DEF Beat, LostBeat, Change, build
  <2>2. \E lost \in BOOLEAN : Received("PREOP", master.bus, lost)
    BY <1>11 DEF Beat, LostBeat
  <2> QED BY <2>1, <2>2, HearOn
<1>12. CASE Tick
  <2>1. /\ rdn'.enabled = rdn.enabled /\ rdn'.selecting = rdn.selecting
        /\ rdn'.timer >= 0 => rdn.timer >= 0
    BY <1>2, <1>12 DEF Tick, Manager
  <2>2. cons'.state = cons.state /\ st' = st /\ forward' = forward
    BY <1>2, <1>12 DEF Tick, Consumer, build
  <2> QED BY <2>1, <2>2, SameOn
<1>13. CASE UNCHANGED <<forward, st, rdn, cons>>
  BY <1>13, SameOn
<1>14. /\ MasterFail \/ UNCHANGED vars => UNCHANGED <<forward, st, rdn, cons>>
       /\ \A b \in Bus : MasterSwitch(b) => UNCHANGED <<forward, st, rdn, cons>>
  BY DEF MasterFail, MasterSwitch, Change, build, vars
<1> QED BY <1>3, <1>4, <1>5, <1>6, <1>7, <1>9, <1>10, <1>11, <1>12, <1>13, <1>14
        DEF Next

\* The toggle timer runs only in a selection, and a slave whose master was missed
\* is in one, whatever is reset, written, lost or late.
THEOREM SelectionIsAlwaysOn == Spec => []SelectionIsOn
<1>1. Init => SInv
  <2> SUFFICES ASSUME Init PROVE SInv
    OBVIOUS
  <2>1. rdn.timer = -1 /\ rdn.enabled = FALSE
    BY DEF Init
  <2> QED BY <2>1, InitType DEF SInv, On
<1>2. SInv /\ [Next]_vars => SInv'
  BY SStep
<1> QED BY <1>1, <1>2, InvMeans, PTL DEF Spec

-----------------------------------------------------------------------------
(* What the slave may conclude from what it has not heard                  *)

\* A product with the number of heartbeat times t on a bus.
LEMMA Times ==
  ASSUME NEW t \in Nat \ {0}
  PROVE  /\ Ms * t \in Nat /\ Ms * t >= Ms
         /\ Ms * (t - 1) = Ms * t - Ms
         /\ 2 * t * Ms = Ms * t + Ms * t
<1> Ms \in Nat \ {0}
  BY TimeAssumption
<1>1. Ms * t \in Nat /\ Ms * (t - 1) \in Nat /\ Ms * t = Ms * (t - 1) + Ms
  OBVIOUS
<1> QED BY <1>1

\* The toggle timer was set for a toggle time of the object.
Bounded(timer) ==
  timer >= 0 => \E t \in Ttoggles \ {0} : timer <= Ms * t

\* The timer of the manager r is bounded and will be, by the object o; the
\* consumer c is on if the manager counts on it.
Fit(r, o, c) ==
  /\ o.ttoggle \in Ttoggles
  /\ Bounded(r.timer)
  /\ ~c.on => c.left = -1
  /\ r.enabled /\ r.ms = Ms => c.on

\* The slave waits for the next heartbeat on the master's bus: what is missing
\* of the consumer time has passed since the last one, or since the last change.
Waiting ==
  ~rdn.selecting /\ cons.left >= 0 /\ rdn.active = master.bus =>
    master.age >= steady \/ master.age + cons.left >= Ms

\* A selection in which nothing was heard.
Silent == rdn.timer >= 0 /\ cons.left = -1 /\ rdn.ms = Ms

\* While the slave listens to the master's bus the heartbeat becomes due.
Listening ==
  Silent /\ rdn.active = master.bus =>
    \/ master.age >= steady
    \/ obj.ttoggle # 0 /\ master.age + rdn.timer >= Ms * obj.ttoggle

\* A slave that listens to the other bus has begun there, or came there soon after
\* the last change.
Elsewhere ==
  Silent /\ rdn.active # master.bus /\ rdn.busA # rdn.busB
         /\ master.bus \in {rdn.busA, rdn.busB} =>
    \/ obj.ctoggle = 0
    \/ \E t \in Ttoggles \ {0} : steady + rdn.timer <= Period + Ms * t

Heard == Waiting /\ Listening /\ Elsewhere

NInv ==
  /\ SInv
  /\ Fit(rdn, obj, cons)
  /\ forward /\ st = "up" /\ master.up => Heard

-----------------------------------------------------------------------------
(* Fit                                                                     *)

LEMMA HandledFit ==
  ASSUME NEW ok, NEW p, Handled(ok, p),
         ok => Fit(p.r, p.o, cons'), Fit(rdn, obj, cons')
  PROVE  Fit(rdn, obj, cons)'
BY DEF Handled, Fit

\* A stopped selection.
LEMMA StoppedFit ==
  ASSUME NEW r \in Manager, NEW o \in Redundancy, NEW c, Fit(r, o, c)
  PROVE  LET p == SetActiveBusDefault(r, o) IN Fit(p.r, p.o, c)
<1>1. LET p == SetActiveBusDefault(r, o) IN
      /\ p.r.timer = -1 /\ p.r.enabled = r.enabled /\ p.r.ms = r.ms
      /\ p.o.ttoggle = o.ttoggle
  BY DEF SetActiveBusDefault, Manager, Redundancy
<1>2. Bounded(-1)
  BY DEF Bounded
<1> QED BY <1>1, <1>2 DEF Fit

LEMMA FinishFit ==
  ASSUME NEW r \in Manager, NEW o \in Redundancy, NEW c, Fit(r, o, c)
  PROVE  LET p == Finish(r, o) IN Fit(p.r, p.o, c)
<1> DEFINE q == [r EXCEPT !.selecting = FALSE]
<1>1. q \in Manager /\ q.timer = r.timer /\ q.enabled = r.enabled /\ q.ms = r.ms
  BY DEF Manager
<1>2. Finish(r, o) = SetActiveBusDefault(q, o)
  BY DEF Finish
<1> HIDE DEF q
<1>3. Fit(q, o, c)
  BY <1>1 DEF Fit
<1> QED BY <1>1, <1>2, <1>3, StoppedFit

LEMMA FiniFit ==
  ASSUME NEW r \in Manager, NEW o \in Redundancy, NEW c,
         o.ttoggle \in Ttoggles, ~c.on => c.left = -1
  PROVE  LET p == Fini(r, o) IN Fit(p.r, p.o, c)
<1>1. LET p == Fini(r, o) IN
      /\ p.r.timer = -1 /\ p.r.enabled = FALSE /\ p.o.ttoggle = o.ttoggle
  BY DEF Fini, SetActiveBusDefault, Manager, Redundancy
<1>2. Bounded(-1)
  BY DEF Bounded
<1> QED BY <1>1, <1>2 DEF Fit

LEMMA ProductBounded ==
  ASSUME NEW ms \in {0, Ms}, NEW t \in Ttoggles \ {0}
  PROVE  Bounded(ms * t)
<1>1. t \in Nat \ {0}
  BY ObjectAssumption
<1>2. ms * t <= Ms * t
  <2>1. CASE ms = 0
    BY <1>1, <2>1, Times
  <2>2. CASE ms = Ms
    <3>1. Ms * t \in Nat
      BY <1>1, Times
    <3> QED BY <2>2, <3>1
  <2> QED BY <2>1, <2>2
<1> QED BY <1>2 DEF Bounded

\* A new selection, of a manager that counts on the consumer only if it is on.
LEMMA InitSlaveFit ==
  ASSUME NEW r \in Manager, NEW o \in Redundancy, NEW ms \in {0, Ms}, NEW c,
         o.ttoggle \in Ttoggles, o.ttoggle = 0 => Fit(r, o, c),
         ~c.on => c.left = -1, ms = Ms => c.on
  PROVE  LET p == InitSlave(r, o, ms) IN Fit(p.r, p.o, c)
<1>1. CASE o.ttoggle = 0
  BY <1>1 DEF InitSlave
<1>2. CASE o.ttoggle # 0
  <2>1. LET p == InitSlave(r, o, ms) IN
        /\ p.r.ms = ms /\ p.r.timer = ms * o.ttoggle /\ p.o.ttoggle = o.ttoggle
    BY <1>2 DEF InitSlave, Manager, Redundancy
  <2>2. Bounded(ms * o.ttoggle)
    BY <1>2, ProductBounded
  <2> QED BY <2>1, <2>2 DEF Fit
<1> QED BY <1>1, <1>2

LEMMA HearFit ==
  ASSUME TypeOK, Fit(rdn, obj, cons), NEW s, NEW b, NEW lost, Received(s, b, lost)
  PROVE  Fit(rdn, obj, cons)'
<1>1. cons \in Consumer /\ rdn \in Manager /\ obj \in Redundancy
  BY DEF TypeOK
<1>2. CASE cons.on /\ Hear(s)
  <2>1. cons'.on = cons.on
    BY <1>1, <1>2 DEF Hear, Consumer
  <2>2. Fit(rdn, obj, cons')
    BY <1>2, <2>1 DEF Fit
  <2>3. LET p == Finish(rdn, obj) IN Fit(p.r, p.o, cons')
    BY <1>1, <2>2, FinishFit
  <2>4. CASE UNCHANGED <<st, rdn, obj>>
    BY <2>2, <2>4 DEF Fit
  <2>5. ASSUME NEW ok, Handled(ok, Finish(rdn, obj))
        PROVE  Fit(rdn, obj, cons)'
    BY <2>2, <2>3, <2>5, HandledFit
  <2> QED BY <1>2, <2>4, <2>5 DEF Hear
<1>3. CASE UNCHANGED <<st, rdn, obj, cons>>
  BY <1>3 DEF Fit
<1> QED BY <1>2, <1>3 DEF Received

LEMMA WriteFit ==
  ASSUME TypeOK, Fit(rdn, obj, cons), NEW o \in Redundancy, o.ttoggle \in Ttoggles,
         Write(o)
  PROVE  Fit(rdn, obj, cons)'
<1>1. /\ rdn \in Manager /\ cons' = cons
      /\ Fit(rdn, obj, cons') /\ Fit(rdn, o, cons')
      /\ ~cons'.on => cons'.left = -1
  BY DEF TypeOK, Write, Fit
<1>2. CASE rdn.enabled /\ o.ttoggle = 0
  <2>1. Handled(TRUE, Fini(rdn, o))
    BY <1>2 DEF Write
  <2>2. LET p == Fini(rdn, o) IN Fit(p.r, p.o, cons')
    BY <1>1, FiniFit
  <2> QED BY <1>1, <2>1, <2>2, HandledFit
<1>3. CASE rdn.enabled /\ o.ttoggle # 0
  <2>1. Handled(TRUE, [r |-> rdn, o |-> o])
    BY <1>3 DEF Write
  <2> QED BY <1>1, <2>1, HandledFit
<1>4. CASE ~rdn.enabled
  <2> DEFINE ms == IF cons.on THEN Ms ELSE 0
  <2>1. Handled(o.ttoggle # 0, InitSlave(rdn, o, ms))
    BY <1>4 DEF Write
  <2>2. ms \in {0, Ms} /\ (ms = Ms => cons'.on)
    BY <1>1, TimeAssumption
  <2> HIDE DEF ms
  <2>3. LET p == InitSlave(rdn, o, ms) IN Fit(p.r, p.o, cons')
    BY <1>1, <2>2, InitSlaveFit
  <2> QED BY <1>1, <2>1, <2>3, HandledFit
<1> QED BY <1>2, <1>3, <1>4

\* What changes neither the manager's time nor the consumer's.
LEMMA SameFit ==
  ASSUME TypeOK, TypeOK', Fit(rdn, obj, cons), obj' = obj,
         rdn'.enabled = rdn.enabled, rdn'.ms = rdn.ms,
         rdn'.timer <= rdn.timer, cons'.on = cons.on,
         cons.left = -1 => cons'.left = -1
  PROVE  Fit(rdn, obj, cons)'
<1>1. rdn.timer \in Int /\ rdn'.timer \in Int
  BY DEF TypeOK, Manager
<1>2. ASSUME NEW t \in Ttoggles \ {0}, rdn.timer <= Ms * t
      PROVE  rdn'.timer <= Ms * t
  <2>1. Ms * t \in Nat
    BY ObjectAssumption, Times
  <2> QED BY <1>1, <1>2, <2>1
<1>3. Bounded(rdn'.timer)
  BY <1>1, <1>2 DEF Fit, Bounded
<1> QED BY <1>3 DEF Fit

LEMMA FitStep ==
  ASSUME TypeOK, TypeOK', Fit(rdn, obj, cons), SInv, [Next]_vars
  PROVE  Fit(rdn, obj, cons)'
<1>1. /\ rdn \in Manager /\ obj \in Redundancy /\ cons \in Consumer
      /\ rdn.ms \in {0, Ms} /\ rdn.timer \in {-1} \union Nat
      /\ stored \in Redundancy /\ stored.ttoggle \in Ttoggles
  BY ObjectAssumption DEF TypeOK, Manager
<1>2. ASSUME NEW node \in BOOLEAN, Boot(node)
      PROVE  Fit(rdn, obj, cons)'
  <2> DEFINE o == IF node THEN stored ELSE obj
  <2>1. cons'.on = TRUE /\ cons'.left = -1
    BY <1>2 DEF Boot, Unheard
  <2>2. o \in Redundancy /\ o.ttoggle \in Ttoggles
    BY <1>1 DEF Fit
  <2>3. Fit(rdn, obj, cons') /\ Fit(rdn, o, cons')
    BY <2>1, <2>2 DEF Fit
  <2>4. Handled(TRUE, InitSlave(rdn, o, Ms))
    BY <1>2 DEF Boot
  <2> HIDE DEF o
  <2>5. LET p == InitSlave(rdn, o, Ms) IN Fit(p.r, p.o, cons')
    BY <1>1, <2>1, <2>2, <2>3, InitSlaveFit
  <2> QED BY <2>3, <2>4, <2>5, HandledFit
<1>3. CASE Timeout
  <2> DEFINE p == [r |-> [rdn EXCEPT !.selecting = TRUE,
                                     !.timer = rdn.ms * (obj.ttoggle - 1)],
                   o |-> [obj EXCEPT !.ctoggle = 0]]
             ok == ~rdn.selecting /\ obj.ttoggle # 0
  <2>1. cons'.on = cons.on /\ cons'.left = -1
    BY <1>1, <1>3 DEF Timeout, Consumer
  <2>2. Fit(rdn, obj, cons')
    BY <2>1 DEF Fit
  <2>3. CASE UNCHANGED <<st, rdn, obj>>
    BY <2>2, <2>3 DEF Fit
  <2>4. CASE Handled(ok, p)
    <3>1. /\ p.r.enabled = rdn.enabled /\ p.r.ms = rdn.ms
          /\ p.r.timer = rdn.ms * (obj.ttoggle - 1) /\ p.o.ttoggle = obj.ttoggle
      BY <1>1 DEF Manager, Redundancy
    <3>2. ASSUME ok
          PROVE  Bounded(rdn.ms * (obj.ttoggle - 1))
      <4> DEFINE t == obj.ttoggle
      <4>1. t \in Ttoggles \ {0} /\ t \in Nat \ {0} /\ Ms \in Nat
        BY <3>2, ObjectAssumption, TimeAssumption DEF Fit
      <4> HIDE DEF t
      <4>2. Ms * t \in Nat /\ Ms * (t - 1) = Ms * t - Ms
        BY <4>1, Times
      <4>3. rdn.ms * (t - 1) <= Ms * t
        <5>1. CASE rdn.ms = 0
          BY <4>1, <4>2, <5>1
        <5>2. CASE rdn.ms = Ms
          BY <4>1, <4>2, <5>2
        <5> QED BY <1>1, <5>1, <5>2
      <4>4. Bounded(rdn.ms * (t - 1))
        BY <4>1, <4>3 DEF Bounded
      <4> QED BY <4>4 DEF t
    <3> HIDE DEF p
    <3>3. ok => Fit(p.r, p.o, cons')
      BY <2>2, <3>1, <3>2 DEF Fit
    <3> HIDE DEF ok
    <3> QED BY <2>2, <2>4, <3>3, HandledFit
  <2> QED BY <1>3, <2>3, <2>4 DEF Timeout
<1>4. CASE ToggleBus
  <2> DEFINE p == [r |-> [rdn EXCEPT !.active = OtherBus,
                                     !.timer = rdn.ms * obj.ttoggle],
                   o |-> [obj EXCEPT !.ctoggle = @ + 1]]
  <2>1. Fit(rdn, obj, cons')
    BY <1>4 DEF ToggleBus
  <2>2. CASE Handled(obj.ttoggle # 0, p)
    <3>1. /\ p.r.enabled = rdn.enabled /\ p.r.ms = rdn.ms
          /\ p.r.timer = rdn.ms * obj.ttoggle /\ p.o.ttoggle = obj.ttoggle
      BY <1>1 DEF Manager, Redundancy
    <3>2. obj.ttoggle # 0 => Bounded(rdn.ms * obj.ttoggle)
      BY <1>1, ProductBounded DEF Fit
    <3> HIDE DEF p
    <3>3. obj.ttoggle # 0 => Fit(p.r, p.o, cons')
      BY <2>1, <3>1, <3>2 DEF Fit
    <3> QED BY <2>1, <2>2, <3>3, HandledFit
  <2>3. CASE Handled(TRUE, SetActiveBusDefault(rdn, obj))
    <3>1. LET q == SetActiveBusDefault(rdn, obj) IN Fit(q.r, q.o, cons')
      BY <1>1, <2>1, StoppedFit
    <3> QED BY <2>1, <2>3, <3>1, HandledFit
  <2> QED BY <1>4, <2>2, <2>3 DEF ToggleBus
<1>5. CASE WriteObject
  <2>1. /\ \A b \in Bus : LET o == [obj EXCEPT !.bdefault = b] IN
             o \in Redundancy /\ o.ttoggle \in Ttoggles
        /\ \A t \in Ttoggles : LET o == [obj EXCEPT !.ttoggle = t] IN
             o \in Redundancy /\ o.ttoggle \in Ttoggles
        /\ \A n \in Ntoggles : LET o == [obj EXCEPT !.ntoggle = n] IN
             o \in Redundancy /\ o.ttoggle \in Ttoggles
        /\ \A n \in Ntoggles : LET o == [obj EXCEPT !.ctoggle = n] IN
             o \in Redundancy /\ o.ttoggle \in Ttoggles
    BY <1>1, ObjectAssumption DEF Redundancy, Fit
  <2> QED BY <1>5, <2>1, WriteFit DEF WriteObject
<1>6. CASE WriteConsumer
  <2>1. /\ cons'.on = ~cons.on /\ cons'.left = -1 /\ obj' = obj
        /\ rdn'.enabled = rdn.enabled /\ rdn'.timer = rdn.timer
        /\ rdn.enabled => rdn'.ms = IF cons.on THEN 0 ELSE Ms
    BY <1>1, <1>6 DEF WriteConsumer, Unheard, Manager
  <2> QED BY <2>1, TimeAssumption DEF Fit
<1>7. CASE Beat \/ LostBeat \/ \E b \in Bus : MasterStart(b)
  <2>1. \E s \in {"BOOTUP", "PREOP"}, b \in Bus, lost \in BOOLEAN : Received(s, b, lost)
    BY <1>7 DEF Beat, LostBeat, MasterStart, TypeOK, Master
  <2> QED BY <2>1, HearFit
<1>8. CASE Tick
  <2>1. /\ rdn'.enabled = rdn.enabled /\ rdn'.ms = rdn.ms
        /\ rdn'.timer <= rdn.timer /\ obj' = obj
    BY <1>1, <1>8 DEF Tick, Manager
  <2>2. cons'.on = cons.on /\ (cons.left = -1 => cons'.left = -1)
    BY <1>1, <1>8 DEF Tick, Consumer
  <2> QED BY <2>1, <2>2, SameFit
<1>9. CASE \E b \in Bus : SetAlternate(b)
  <2>1. /\ rdn'.enabled = rdn.enabled /\ rdn'.ms = rdn.ms
        /\ rdn'.timer = rdn.timer /\ obj' = obj /\ cons' = cons
    BY <1>1, <1>9 DEF SetAlternate, Manager
  <2> QED BY <1>1, <2>1, SameFit
<1>10. CASE UNCHANGED <<rdn, obj, cons>>
  BY <1>10 DEF Fit
<1>11. /\ MasterFail \/ UNCHANGED vars => UNCHANGED <<rdn, obj, cons>>
       /\ \A b \in Bus : MasterSwitch(b) => UNCHANGED <<rdn, obj, cons>>
  BY DEF MasterFail, MasterSwitch, vars
<1> QED BY <1>2, <1>3, <1>4, <1>5, <1>6, <1>7, <1>8, <1>9, <1>10, <1>11 DEF Next

-----------------------------------------------------------------------------
(* Heard                                                                   *)

\* Nothing can have been missed when everything has just changed.
LEMMA FreshHeard ==
  ASSUME TypeOK', Fit(rdn, obj, cons)', steady' = 0
  PROVE  Heard'
<1>1. master'.age \in Nat /\ Period \in Nat /\ rdn'.timer \in Int
  BY TimeAssumption DEF TypeOK, Master, Manager
<1>2. ASSUME Silent'
      PROVE  \E t \in Ttoggles \ {0} : (steady + rdn.timer)' <= Period + Ms * t
  <2>1. PICK t \in Ttoggles \ {0} : rdn'.timer <= Ms * t
    BY <1>2 DEF Silent, Fit, Bounded
  <2>2. Ms * t \in Nat
    BY ObjectAssumption, Times
  <2>3. (steady + rdn.timer)' <= Period + Ms * t
    BY <1>1, <2>1, <2>2
  <2> QED BY <2>3
<1> QED BY <1>1, <1>2 DEF Heard, Waiting, Listening, Elsewhere

\* What a step that is no change finds in the slave and in the master.
Now ==
  /\ TypeOK /\ Fit(rdn, obj, cons) /\ Heard
  /\ forward /\ st = "up" /\ master.up
  /\ rdn.timer >= 0 => rdn.selecting /\ rdn.enabled

LEMMA NowType ==
  ASSUME TypeOK
  PROVE  /\ rdn \in Manager /\ obj \in Redundancy
         /\ cons \in Consumer /\ master \in Master
         /\ rdn.timer \in Int /\ rdn.timer >= -1
         /\ cons.left \in Int /\ cons.left >= -1
         /\ master.age \in Nat /\ master.age <= Period
         /\ steady \in Nat /\ Period \in Nat /\ Ms \in Nat \ {0}
BY TimeAssumption DEF TypeOK, Manager, Consumer, Master

LEMMA BeatHeard ==
  ASSUME Now, Beat
  PROVE  Heard'
<1> USE DEF Now
<1>1. master'.age = 0 /\ master'.bus = master.bus /\ steady' = steady
  BY NowType DEF Beat, Master
<1>2. CASE Hear("PREOP")
  <2>1. cons'.left = Ms
    BY <1>2, NowType DEF Hear, Consumer
  <2> QED BY <1>1, <2>1, NowType DEF Heard, Waiting, Listening, Elsewhere, Silent
<1>3. CASE ~(cons.on /\ rdn.active = master.bus) /\ UNCHANGED <<st, rdn, obj, cons>>
  <2>1. Waiting'
    BY <1>1, <1>3, NowType DEF Waiting, Fit
  <2>2. Listening'
    BY <1>1, <1>3 DEF Listening, Silent, Fit
  <2>3. Elsewhere'
    BY <1>1, <1>3 DEF Heard, Elsewhere, Silent
  <2> QED BY <2>1, <2>2, <2>3 DEF Heard
<1> QED BY <1>2, <1>3 DEF Beat, Received, Up

LEMMA TimeoutHeard ==
  ASSUME Now, Timeout, st' = "up"
  PROVE  Heard'
<1> USE DEF Now
<1>1. master' = master /\ steady' = steady /\ cons.left = 0 /\ cons'.left = -1
  BY NowType DEF Timeout, Consumer
<1>2. Waiting'
  BY <1>1 DEF Waiting
<1>3. CASE rdn.enabled
  <2> DEFINE t == obj.ttoggle
  <2>1. /\ ~rdn.selecting /\ t # 0
        /\ rdn' = [rdn EXCEPT !.selecting = TRUE, !.timer = rdn.ms * (t - 1)]
        /\ obj' = [obj EXCEPT !.ctoggle = 0]
    BY <1>3 DEF Timeout, Hooked, Handled
  <2>2. /\ rdn'.active = rdn.active /\ rdn'.ms = rdn.ms
        /\ rdn'.timer = rdn.ms * (t - 1)
        /\ obj'.ctoggle = 0 /\ obj'.ttoggle = t
    BY <2>1, NowType DEF Manager, Redundancy
  <2>3. t \in Nat \ {0}
    BY <2>1, NowType DEF Redundancy
  <2> HIDE DEF t
  <2>4. Ms * t \in Nat /\ Ms * (t - 1) = Ms * t - Ms
    BY <2>3, Times
  <2>5. Listening'
    <3>1. SUFFICES ASSUME rdn.ms = Ms, rdn.active = master.bus
                   PROVE  \/ master.age >= steady
                          \/ master.age + Ms * (t - 1) >= Ms * t
      BY <1>1, <2>2, <2>3 DEF Listening, Silent
    <3>2. master.age >= steady \/ master.age + cons.left >= Ms
      BY <1>1, <2>1, <3>1 DEF Heard, Waiting
    <3> QED BY <1>1, <2>4, <3>2, NowType
  <2>6. Elsewhere'
    BY <2>2 DEF Elsewhere
  <2> QED BY <1>2, <2>5, <2>6 DEF Heard
<1>4. CASE ~rdn.enabled
  <2>1. rdn' = rdn
    BY <1>4 DEF Timeout, Hooked
  <2>2. ~(rdn'.timer >= 0)
    BY <1>4, <2>1
  <2> QED BY <1>2, <2>2 DEF Heard, Listening, Elsewhere, Silent
<1> QED BY <1>3, <1>4

\* Two buses: a slave that leaves the master's bus has listened long enough.
LEMMA ToggleBusHeard ==
  ASSUME Period < Ms, NEW a, NEW b, Bus = {a, b}, Now, ToggleBus, st' = "up"
  PROVE  Heard'
<1> USE DEF Now
<1>1. /\ master' = master /\ steady' = steady /\ cons' = cons
      /\ rdn.timer = 0 /\ rdn.selecting
  BY NowType DEF ToggleBus
<1>2. CASE Handled(TRUE, SetActiveBusDefault(rdn, obj))
  <2>1. rdn'.timer = -1 /\ rdn'.selecting = rdn.selecting
    BY <1>2, NowType DEF Handled, SetActiveBusDefault, Manager
  <2> QED BY <1>1, <2>1 DEF Heard, Waiting, Listening, Elsewhere, Silent
<1>3. CASE Handled(obj.ttoggle # 0,
                   [r |-> [rdn EXCEPT !.active = OtherBus,
                                      !.timer = rdn.ms * obj.ttoggle],
                    o |-> [obj EXCEPT !.ctoggle = @ + 1]])
  <2> DEFINE t == obj.ttoggle
  <2>1. /\ t # 0
        /\ rdn' = [rdn EXCEPT !.active = OtherBus, !.timer = rdn.ms * t]
        /\ obj' = [obj EXCEPT !.ctoggle = @ + 1]
    BY <1>3 DEF Handled
  <2>2. /\ rdn'.active = OtherBus /\ rdn'.timer = rdn.ms * t
        /\ rdn'.ms = rdn.ms /\ rdn'.selecting = rdn.selecting
        /\ rdn'.busA = rdn.busA /\ rdn'.busB = rdn.busB
        /\ obj'.ttoggle = t
    BY <2>1, NowType DEF Manager, Redundancy
  <2>3. t \in Ttoggles \ {0} /\ t \in Nat \ {0}
    BY <2>1, ObjectAssumption DEF Fit
  <2> HIDE DEF t
  <2>4. Ms * t \in Nat /\ Ms * t >= Ms
    BY <2>3, Times
  <2>5. Waiting'
    BY <1>1, <2>2 DEF Waiting
  <2>6. Listening'
    BY <1>1, <2>2, <2>3, <2>4, NowType DEF Listening, Silent
  <2>7. Elsewhere'
    <3>1. SUFFICES ASSUME Silent', rdn'.active # master'.bus,
                          rdn'.busA # rdn'.busB,
                          master'.bus \in {rdn'.busA, rdn'.busB}
                   PROVE  (steady + rdn.timer)' <= Period + Ms * t
      BY <2>3 DEF Elsewhere
    <3>2. rdn.ms = Ms /\ cons.left = -1 /\ Silent
      BY <1>1, <2>2, <3>1 DEF Silent
    <3>3. rdn.active = master.bus
      BY <1>1, <2>2, <3>1, NowType DEF OtherBus, Manager, Master
    <3>4. steady <= Period
      <4>1. \/ master.age >= steady
            \/ t # 0 /\ master.age >= Ms * t
        BY <1>1, <3>2, <3>3, NowType DEF Heard, Listening, t
      <4> QED BY <2>4, <4>1, NowType
    <3>5. (steady + rdn.timer)' = steady + Ms * t
      BY <1>1, <2>2, <3>2
    <3> QED BY <2>4, <3>4, <3>5, NowType
  <2> QED BY <2>5, <2>6, <2>7 DEF Heard
<1> QED BY <1>2, <1>3 DEF ToggleBus

LEMMA TickHeard ==
  ASSUME Now, TypeOK', Tick
  PROVE  Heard'
<1> USE DEF Now
<1>1. /\ master'.age = master.age + 1 /\ master'.bus = master.bus
      /\ steady' <= steady + 1 /\ obj' = obj
  BY NowType DEF Tick, Master
<1>2. /\ rdn' = [rdn EXCEPT !.timer = rdn'.timer]
      /\ rdn'.timer = IF rdn.timer > 0 THEN rdn.timer - 1 ELSE rdn.timer
      /\ cons'.left = IF cons.left > 0 THEN cons.left - 1 ELSE cons.left
      /\ rdn.timer # 0 /\ cons.left # 0
  BY NowType DEF Tick, Up, Manager, Consumer
<1>3. /\ rdn'.selecting = rdn.selecting /\ rdn'.ms = rdn.ms
      /\ rdn'.active = rdn.active /\ rdn'.busA = rdn.busA /\ rdn'.busB = rdn.busB
  BY <1>2, NowType DEF Manager
<1>4. steady' \in Nat
  BY TimeAssumption DEF TypeOK
<1>5. /\ rdn'.timer >= 0 => rdn.timer >= 0 /\ rdn'.timer = rdn.timer - 1
      /\ cons'.left >= 0 => cons.left >= 0 /\ cons'.left = cons.left - 1
      /\ cons'.left = -1 => cons.left = -1
  BY <1>2, NowType
<1>6. Silent' => Silent
  BY <1>3, <1>5 DEF Silent
<1>7. Waiting'
  BY <1>1, <1>3, <1>4, <1>5, NowType DEF Heard, Waiting
<1>8. Listening'
  <2>1. SUFFICES ASSUME Silent', rdn.active = master.bus
                 PROVE  \/ master'.age >= steady'
                        \/ obj.ttoggle # 0
                           /\ master'.age + rdn'.timer >= Ms * obj.ttoggle
    BY <1>1, <1>3 DEF Listening
  <2>2. \/ master.age >= steady
        \/ obj.ttoggle # 0 /\ master.age + rdn.timer >= Ms * obj.ttoggle
    BY <1>6, <2>1 DEF Heard, Listening
  <2>3. rdn'.timer = rdn.timer - 1
    BY <1>5, <2>1 DEF Silent
  <2>4. master'.age + rdn'.timer = master.age + rdn.timer
    BY <1>1, <2>3, NowType
  <2> QED BY <1>1, <1>4, <2>2, <2>4, NowType
<1>9. Elsewhere'
  <2>1. SUFFICES ASSUME Silent', rdn.active # master.bus, rdn.busA # rdn.busB,
                        master.bus \in {rdn.busA, rdn.busB}, obj.ctoggle # 0
                 PROVE  \E t \in Ttoggles \ {0} :
                          steady' + rdn'.timer <= Period + Ms * t
    BY <1>1, <1>3 DEF Elsewhere
  <2>2. PICK t \in Ttoggles \ {0} : steady + rdn.timer <= Period + Ms * t
    BY <1>6, <2>1 DEF Heard, Elsewhere
  <2>3. rdn'.timer = rdn.timer - 1 /\ Ms * t \in Nat
    BY <1>5, <2>1, ObjectAssumption, Times DEF Silent
  <2>4. steady' + rdn'.timer <= Period + Ms * t
    BY <1>1, <1>4, <2>2, <2>3, NowType
  <2> QED BY <2>4
<1> QED BY <1>7, <1>8, <1>9 DEF Heard

LEMMA NStep ==
  ASSUME Period < Ms, NEW a, NEW b, Bus = {a, b}, NInv, [Next]_vars
  PROVE  NInv'
<1>1. /\ TypeOK /\ TypeOK' /\ SInv' /\ Fit(rdn, obj, cons)'
  BY SStep, FitStep DEF NInv, SInv
<1> SUFFICES ASSUME forward', st' = "up", master'.up
             PROVE  Heard'
  BY <1>1 DEF NInv
<1>2. CASE Change
  <2>1. steady' = 0
    BY <1>2 DEF Change
  <2> QED BY <1>1, <2>1, FreshHeard
<1>3. ASSUME forward' = forward, st = "up", master'.up = master.up
      PROVE  Now
  BY <1>1, <1>3 DEF NInv, Now, SInv, On
<1>4. CASE Beat
  <2>1. forward' = forward /\ master'.up = master.up
    BY <1>1, <1>4, NowType DEF Beat, build, Master
  <2>2. st = "up"
    BY <1>4 DEF Beat, Received, Up
  <2> QED BY <1>3, <1>4, <2>1, <2>2, BeatHeard
<1>5. CASE Timeout
  <2>1. forward' = forward /\ master' = master /\ st = "up"
    BY <1>5 DEF Timeout, build, Up
  <2> QED BY <1>3, <1>5, <2>1, TimeoutHeard
<1>6. CASE ToggleBus
  <2>1. forward' = forward /\ master' = master /\ st = "up"
    BY <1>6 DEF ToggleBus, build, Up
  <2> QED BY <1>3, <1>6, <2>1, ToggleBusHeard
<1>7. CASE Tick
  <2>1. forward' = forward /\ master'.up = master.up /\ st = "up"
    BY <1>1, <1>7, NowType DEF Tick, build, Master
  <2> QED BY <1>1, <1>3, <1>7, <2>1, TickHeard
<1>8. CASE UNCHANGED vars
  <2>1. Heard
    BY <1>8 DEF NInv, vars, build
  <2> QED BY <1>8, <2>1
      DEF Heard, Waiting, Listening, Elsewhere, Silent, vars, build
<1>9. /\ \A node \in BOOLEAN : Boot(node) => Change
      /\ \A c \in Bus : SetAlternate(c) \/ MasterStart(c) \/ MasterSwitch(c) => Change
      /\ WriteObject \/ WriteConsumer \/ MasterFail \/ LostBeat => Change
  BY DEF Boot, SetAlternate, MasterStart, MasterSwitch, WriteObject, Write,
         WriteConsumer, MasterFail, LostBeat
<1> QED BY <1>2, <1>4, <1>5, <1>6, <1>7, <1>8, <1>9 DEF Next

\* With two buses and a consumer time longer than the time between two heartbeats,
\* a slave is told that there is no master only when there is none to be heard: one
\* that has been there for a whole selection has been listened to for longer than
\* it ever takes to send a heartbeat.
THEOREM MissingMasterIsGone ==
  ASSUME Period < Ms, NEW a, NEW b, Bus = {a, b}
  PROVE  Spec => NoMasterMeansGone
<1>1. Init => NInv
  <2> SUFFICES ASSUME Init PROVE NInv
    OBVIOUS
  <2>1. /\ rdn.timer = -1 /\ rdn.enabled = FALSE /\ cons.left = -1
        /\ obj.ttoggle \in Ttoggles /\ st = "created"
    BY ObjectAssumption DEF Init, Unheard
  <2>2. SInv
    BY <2>1, InitType DEF SInv, On
  <2> QED BY <2>1, <2>2 DEF NInv, Fit, Bounded
<1>2. NInv /\ [Next]_vars => NInv'
  BY NStep
<1> DEFINE Told == /\ ToggleBus /\ told' = "no_master"
                   /\ forward /\ rdn.ms = Ms /\ cons.left = -1 /\ obj.ntoggle > 0
                   /\ rdn.busA # rdn.busB /\ master.bus \in {rdn.busA, rdn.busB}
<1>3. ASSUME NInv, Told, master.up
      PROVE  \E t \in Ttoggles : ~(steady >= 2 * t * Ms)
  <2>1. TypeOK /\ Fit(rdn, obj, cons) /\ Heard /\ Silent
    BY <1>3 DEF NInv, SInv, ToggleBus, Up, Silent
  <2>2. rdn.timer = 0 /\ obj.ctoggle # 0
    BY <1>3, <2>1, NowType DEF ToggleBus, Redundancy
  <2>3. ASSUME NEW t \in Ttoggles \ {0}, steady <= Period + Ms * t
        PROVE  ~(steady >= 2 * t * Ms)
    <3>1. Ms * t \in Nat /\ Ms * t >= Ms /\ 2 * t * Ms = Ms * t + Ms * t
      BY ObjectAssumption, Times
    <3> QED BY <2>1, <2>3, <3>1, NowType
  <2>4. \E t \in Ttoggles \ {0} : steady <= Period + Ms * t
    <3>1. CASE rdn.active = master.bus
      <4>1. PICK t \in Ttoggles \ {0} : TRUE
        BY <2>1, <2>2 DEF Fit, Bounded
      <4>2. Ms * t \in Nat
        BY ObjectAssumption, Times
      <4>3. \/ master.age >= steady
            \/ obj.ttoggle # 0 /\ master.age >= Ms * obj.ttoggle
        BY <2>1, <2>2, <3>1, NowType DEF Heard, Listening
      <4>4. obj.ttoggle # 0 => Ms * obj.ttoggle \in Nat /\ Ms * obj.ttoggle >= Ms
        BY <2>1, NowType, Times DEF Redundancy
      <4>5. steady <= Period
        BY <2>1, <4>3, <4>4, NowType
      <4> QED BY <2>1, <4>2, <4>5, NowType
    <3>2. CASE rdn.active # master.bus
      <4>1. PICK t \in Ttoggles \ {0} : steady + rdn.timer <= Period + Ms * t
        BY <1>3, <2>1, <2>2, <3>2 DEF Heard, Elsewhere
      <4> QED BY <2>1, <2>2, <4>1, NowType
    <3> QED BY <3>1, <3>2
  <2> QED BY <2>3, <2>4
<1>4. NInv => (Told => ~(master.up /\ \A t \in Ttoggles : steady >= 2 * t * Ms))
  BY <1>3
<1> QED BY <1>1, <1>2, <1>4, PTL DEF Spec, NoMasterMeansGone
=============================================================================
