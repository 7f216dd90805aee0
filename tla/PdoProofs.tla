----------------------------- MODULE PdoProofs -----------------------------
(* Proofs about Pdo: type correctness, the inhibit time, the event timer and  *)
(* the separation of the values of two SYNC periods.                          *)
EXTENDS Pdo, TLAPS

-----------------------------------------------------------------------------
(* What the handlers of the Transmit-PDO return                            *)

LEMMA Zero ==
  0 \in Nat /\ 0 \in 0 .. 240 /\ 0 \in 0 .. QuietCap
BY DEF QuietCap

LEMMA InitTimerTType ==
  ASSUME NEW t \in Transmit
  PROVE  InitTimerT(t) \in Transmit
<1> DEFINE v == IF t.comm.cobid.valid /\ EventDriven(t.comm.trans)
                    /\ t.comm.event # 0
                THEN t.comm.event ELSE -1
<1>1. t.comm \in CommT
  BY DEF Transmit
<1>2. v \in {-1} \union Nat
  BY <1>1 DEF CommT
<1>3. [t EXCEPT !.idle = FALSE, !.timer = v] \in Transmit
  <2> HIDE DEF v
  <2> QED BY <1>2 DEF Transmit
<1> QED BY <1>3, Zenon DEF InitTimerT

LEMMA InitFrameType ==
  ASSUME NEW t \in Transmit, NEW fault, obj \in Value
  PROVE  InitFrame(t, fault) \in Transmit
BY DEF InitFrame, Transmit

LEMMA FrameSentType ==
  ASSUME NEW t \in Transmit
  PROVE  FrameSent(t) \in Transmit
<1> DEFINE u == [t EXCEPT !.left = t.comm.inhibit, !.quiet = 0,
                          !.gap = IF t.quiet < @ THEN t.quiet ELSE @]
<1>1. t.comm \in CommT /\ t.quiet \in 0 .. QuietCap /\ t.gap \in 0 .. QuietCap
  BY DEF Transmit
<1>2. t.comm.inhibit \in Nat
  BY <1>1 DEF CommT
<1>3. ASSUME NEW l \in Nat, NEW g \in 0 .. QuietCap
      PROVE  [t EXCEPT !.left = l, !.quiet = 0, !.gap = g] \in Transmit
  BY Zero, Zenon DEF Transmit
<1>4. (IF t.quiet < t.gap THEN t.quiet ELSE t.gap) \in 0 .. QuietCap
  BY <1>1
<1>5. u = [t EXCEPT !.left = t.comm.inhibit, !.quiet = 0,
                    !.gap = IF t.quiet < t.gap THEN t.quiet ELSE t.gap]
  BY DEF Transmit
<1>6. u \in Transmit
  BY <1>2, <1>3, <1>4, <1>5
<1> QED BY <1>6, InitTimerTType DEF FrameSent

LEMMA SendEventType ==
  ASSUME NEW t \in Transmit, NEW fault, obj \in Value
  PROVE  SendEvent(t, fault).t \in Transmit
<1> DEFINE u == InitFrame([t EXCEPT !.left = 0], fault)
<1>1. [t EXCEPT !.left = 0] \in Transmit
  BY DEF Transmit
<1>2. u \in Transmit /\ FrameSent(u) \in Transmit
  BY <1>1, InitFrameType, FrameSentType
<1> QED BY <1>2 DEF SendEvent

LEMMA EventOfType ==
  ASSUME NEW t \in Transmit, NEW fault, obj \in Value
  PROVE  EventOf(t, fault).t \in Transmit
<1>1. [t EXCEPT !.pend = TRUE] \in Transmit
  BY DEF Transmit
<1>2. InitTimerT([t EXCEPT !.pend = TRUE]) \in Transmit
  BY <1>1, InitTimerTType
<1>3. /\ InitFrame(t, fault) \in Transmit
      /\ InitTimerT(InitFrame(t, fault)) \in Transmit
  BY InitFrameType, InitTimerTType
<1>4. SendEvent(t, fault).t \in Transmit
  BY SendEventType
<1> QED BY <1>2, <1>3, <1>4 DEF EventOf

LEMMA FiredType ==
  ASSUME NEW t \in Transmit, NEW fault, obj \in Value
  PROVE  Fired(t, fault) \in Transmit
<1>1. [t EXCEPT !.timer = -1] \in Transmit
  BY DEF Transmit
<1>2. EventOf([t EXCEPT !.timer = -1], fault).t \in Transmit
  BY <1>1, EventOfType
<1> QED BY <1>2, InitTimerTType DEF Fired

LEMMA SyncedTType ==
  ASSUME NEW t \in Transmit, NEW cnt
  PROVE  SyncedT(t, cnt).t \in Transmit
<1> DEFINE u == IF t.sync # 0 /\ cnt # 0 THEN [t EXCEPT !.sync = 0, !.cnt = 0]
                ELSE t
           trans == t.comm.trans
<1>1. [t EXCEPT !.sync = 0, !.cnt = 0] \in Transmit
  BY Zero, Zenon DEF Transmit
<1>2. u \in Transmit
  BY <1>1
<1>3. trans \in Type
  BY DEF Transmit, CommT
<1>4. /\ [u EXCEPT !.pend = FALSE] \in Transmit
      /\ [u EXCEPT !.cnt = 0] \in Transmit
  <2> HIDE DEF u
  <2>1. [u EXCEPT !.pend = FALSE] \in Transmit
    BY <1>2 DEF Transmit
  <2>2. [u EXCEPT !.cnt = 0] \in Transmit
    BY <1>2, Zero, Zenon DEF Transmit
  <2> QED BY <2>1, <2>2
<1>5. ASSUME trans \in 1 .. 240, u.cnt + 1 < trans
      PROVE  [u EXCEPT !.cnt = @ + 1] \in Transmit
  <2> HIDE DEF u
  <2>1. u.cnt \in 0 .. 240
    BY <1>2 DEF Transmit
  <2>2. u.cnt + 1 \in 0 .. 240
    BY <2>1, <1>5
  <2> QED BY <1>2, <2>2 DEF Transmit
<1> QED BY <1>2, <1>4, <1>5 DEF SyncedT

\* The record of a Transmit-PDO that is started, or made valid, anew.
LEMMA RenamedTType ==
  ASSUME NEW t \in Transmit, NEW c \in Cobid
  PROVE  RenamedT(t, c) \in Transmit
<1> DEFINE fresh == [t EXCEPT !.left = 0, !.sync = t.comm.start, !.cnt = 0,
                              !.quiet = QuietCap, !.gap = QuietCap]
           u == IF c.valid /\ ~t.comm.cobid.valid THEN fresh ELSE t
           v == [u EXCEPT !.comm.cobid = c, !.msg = None, !.pend = FALSE]
<1>1. t.comm.start \in Nat /\ QuietCap \in 0 .. QuietCap
  BY DEF Transmit, CommT, QuietCap
<1>2. fresh \in Transmit
  BY <1>1, Zero, Zenon DEF Transmit
<1>3. u \in Transmit
  BY <1>2
<1>4. v \in Transmit
  <2> HIDE DEF u
  <2>1. [u.comm EXCEPT !.cobid = c] \in CommT
    BY <1>3 DEF Transmit, CommT
  <2>2. ASSUME NEW d \in CommT
        PROVE  [u EXCEPT !.comm = d, !.msg = None, !.pend = FALSE] \in Transmit
    BY <1>3, Zenon DEF Transmit
  <2>3. v = [u EXCEPT !.comm = [u.comm EXCEPT !.cobid = c], !.msg = None,
                      !.pend = FALSE]
    BY <1>3, Zenon DEF Transmit
  <2> QED BY <2>1, <2>2, <2>3
<1> QED BY <1>4, InitTimerTType, Zenon DEF RenamedT

-----------------------------------------------------------------------------
(* What the handlers of the Receive-PDO return                             *)

LEMMA InitTimerRType ==
  ASSUME NEW r \in Receive
  PROVE  InitTimerR(r) \in Receive
<1> DEFINE v == IF r.comm.cobid.valid /\ r.comm.event # 0
                THEN r.comm.event ELSE -1
<1>1. r.comm \in CommR
  BY DEF Receive
<1>2. v \in {-1} \union Nat
  BY <1>1 DEF CommR
<1>3. [r EXCEPT !.timer = v] \in Receive
  <2> HIDE DEF v
  <2> QED BY <1>2 DEF Receive
<1> QED BY <1>3, Zenon DEF InitTimerR

LEMMA WindowType ==
  /\ -1 \in -1 .. Window
  /\ (IF Window = 0 THEN -1 ELSE Window) \in -1 .. Window
  /\ 0 \in Value
BY BoundAssumption DEF Value

LEMMA SyncedRType ==
  ASSUME NEW r \in Receive
  PROVE  SyncedR(r).r \in Receive
<1>1. ASSUME NEW w \in -1 .. Window
      PROVE  [r EXCEPT !.wait = 0, !.short = FALSE, !.swnd = FALSE,
                       !.window = w] \in Receive
  <2>1. 0 \in Value
    BY WindowType
  <2> QED BY <2>1, Zenon DEF Receive
<1> QED BY <1>1, WindowType DEF SyncedR

LEMMA RenamedRType ==
  ASSUME NEW r \in Receive, NEW c \in Cobid
  PROVE  RenamedR(r, c) \in Receive
<1> DEFINE v == [r EXCEPT !.comm.cobid = c, !.wait = 0, !.short = FALSE,
                          !.swnd = FALSE, !.window = -1]
<1>1. [r.comm EXCEPT !.cobid = c] \in CommR
  BY DEF Receive, CommR
<1>2. ASSUME NEW d \in CommR, NEW z \in Value, NEW w \in -1 .. Window
      PROVE  [r EXCEPT !.comm = d, !.wait = z, !.short = FALSE,
                       !.swnd = FALSE, !.window = w] \in Receive
  BY Zenon DEF Receive
<1>3. v = [r EXCEPT !.comm = [r.comm EXCEPT !.cobid = c], !.wait = 0,
                    !.short = FALSE, !.swnd = FALSE, !.window = -1]
  BY Zenon DEF Receive
<1>4. v \in Receive
  BY <1>1, <1>2, <1>3, WindowType
<1> QED BY <1>4, InitTimerRType, Zenon DEF RenamedR

-----------------------------------------------------------------------------
(* Types                                                                   *)

LEMMA InitType == Init => TypeOK
<1> SUFFICES ASSUME Init PROVE TypeOK
  OBVIOUS
<1> DEFINE commT == [cobid |-> ZeroCobid, trans |-> 0, inhibit |-> 0,
                     event |-> 0, start |-> 0]
           commR == [cobid |-> ZeroCobid, trans |-> 0, event |-> 0]
<1>1. ZeroCobid \in Cobid /\ 0 \in Type /\ 0 \in TypeR
  BY DEF ZeroCobid, Cobid, Type, TypeR
<1>2. commT \in CommT /\ commR \in CommR
  BY <1>1 DEF CommT, CommR
<1>3. /\ QuietCap \in 0 .. QuietCap
      /\ -1 \in {-1} \union Nat
      /\ None \in {None, Empty} \union Value
  BY DEF QuietCap
<1>4. tpdo \in Transmit
  BY <1>2, <1>3, Zero, Zenon DEF Init, Transmit
<1>5. rpdo \in Receive
  BY <1>2, <1>3, WindowType, Zenon DEF Init, Receive
<1>6. changes \in 0 .. MaxChange
  BY BoundAssumption DEF Init
<1> QED BY <1>4, <1>5, <1>6, ParameterAssumption, WindowType DEF Init, TypeOK

\* The objects and services after each write.
LEMMA WriteType ==
  ASSUME TypeOK, WriteTransmit \/ WriteReceive
  PROVE  TypeOK'
<1> USE DEF TypeOK
<1>1. /\ odT \in CommT /\ tpdo \in Transmit /\ tpdo.comm \in CommT
      /\ odR \in CommR /\ rpdo \in Receive /\ rpdo.comm \in CommR
  BY DEF Transmit, Receive
<1>2. ASSUME Change PROVE changes' \in 0 .. MaxChange
  BY <1>2, BoundAssumption DEF Change
<1>3. ASSUME NEW o \in CommT, NEW t \in Transmit, WriteT(o, t)
      PROVE  TypeOK'
  BY <1>2, <1>3 DEF WriteT
<1>4. ASSUME NEW o \in CommR, NEW r \in Receive, WriteR(o, r)
      PROVE  TypeOK'
  BY <1>2, <1>4 DEF WriteR
<1>5. ASSUME NEW d \in CommT
      PROVE  /\ [tpdo EXCEPT !.comm = d] \in Transmit
             /\ [tpdo EXCEPT !.comm = d, !.idle = TRUE] \in Transmit
  BY <1>1, Zenon DEF Transmit
<1>6. ASSUME NEW d \in CommR
      PROVE  /\ [rpdo EXCEPT !.comm = d] \in Receive
             /\ [rpdo EXCEPT !.comm = d, !.retyped = TRUE] \in Receive
  BY <1>1, Zenon DEF Receive
<1>7. ASSUME NEW c \in Cobids
      PROVE  /\ [odT EXCEPT !.cobid = c] \in CommT
             /\ [odR EXCEPT !.cobid = c] \in CommR
             /\ RenamedT(tpdo, c) \in Transmit
             /\ RenamedR(rpdo, c) \in Receive
  <2>1. c \in Cobid
    BY ParameterAssumption
  <2>2. [odT EXCEPT !.cobid = c] \in CommT /\ [odR EXCEPT !.cobid = c] \in CommR
    BY <1>1, <2>1 DEF CommT, CommR
  <2> QED BY <1>1, <2>1, <2>2, RenamedTType, RenamedRType
<1>8. ASSUME NEW v \in TransT
      PROVE  /\ [odT EXCEPT !.trans = v] \in CommT
             /\ [tpdo EXCEPT !.comm.trans = v, !.idle = TRUE] \in Transmit
  <2>1. [odT EXCEPT !.trans = v] \in CommT /\ [tpdo.comm EXCEPT !.trans = v] \in CommT
    BY <1>1, ParameterAssumption DEF CommT
  <2>2. [tpdo EXCEPT !.comm.trans = v, !.idle = TRUE]
          = [tpdo EXCEPT !.comm = [tpdo.comm EXCEPT !.trans = v], !.idle = TRUE]
    BY <1>1, Zenon DEF Transmit
  <2> QED BY <2>1, <2>2, <1>5
<1>9. ASSUME NEW v \in Inhibits
      PROVE  /\ [odT EXCEPT !.inhibit = v] \in CommT
             /\ [tpdo EXCEPT !.comm.inhibit = v] \in Transmit
  <2>1. [odT EXCEPT !.inhibit = v] \in CommT
        /\ [tpdo.comm EXCEPT !.inhibit = v] \in CommT
    BY <1>1, ParameterAssumption DEF CommT
  <2>2. [tpdo EXCEPT !.comm.inhibit = v]
          = [tpdo EXCEPT !.comm = [tpdo.comm EXCEPT !.inhibit = v]]
    BY <1>1, Zenon DEF Transmit
  <2> QED BY <2>1, <2>2, <1>5
<1>10. ASSUME NEW v \in Events
       PROVE  /\ [odT EXCEPT !.event = v] \in CommT
              /\ InitTimerT([tpdo EXCEPT !.comm.event = v]) \in Transmit
  <2>1. [odT EXCEPT !.event = v] \in CommT
        /\ [tpdo.comm EXCEPT !.event = v] \in CommT
    BY <1>1, ParameterAssumption DEF CommT
  <2>2. [tpdo EXCEPT !.comm.event = v]
          = [tpdo EXCEPT !.comm = [tpdo.comm EXCEPT !.event = v]]
    BY <1>1, Zenon DEF Transmit
  <2> QED BY <2>1, <2>2, <1>5, InitTimerTType
<1>11. ASSUME NEW v \in Starts
       PROVE  /\ [odT EXCEPT !.start = v] \in CommT
              /\ [tpdo EXCEPT !.comm.start = v] \in Transmit
  <2>1. [odT EXCEPT !.start = v] \in CommT
        /\ [tpdo.comm EXCEPT !.start = v] \in CommT
    BY <1>1, ParameterAssumption DEF CommT
  <2>2. [tpdo EXCEPT !.comm.start = v]
          = [tpdo EXCEPT !.comm = [tpdo.comm EXCEPT !.start = v]]
    BY <1>1, Zenon DEF Transmit
  <2> QED BY <2>1, <2>2, <1>5
<1>12. ASSUME NEW v \in TransR
       PROVE  /\ [odR EXCEPT !.trans = v] \in CommR
              /\ [rpdo EXCEPT !.comm.trans = v, !.retyped = TRUE] \in Receive
  <2>1. [odR EXCEPT !.trans = v] \in CommR /\ [rpdo.comm EXCEPT !.trans = v] \in CommR
    BY <1>1, ParameterAssumption DEF CommR
  <2>2. [rpdo EXCEPT !.comm.trans = v, !.retyped = TRUE]
          = [rpdo EXCEPT !.comm = [rpdo.comm EXCEPT !.trans = v], !.retyped = TRUE]
    BY <1>1, Zenon DEF Receive
  <2> QED BY <2>1, <2>2, <1>6
<1>13. ASSUME NEW v \in Events
       PROVE  /\ [odR EXCEPT !.event = v] \in CommR
              /\ InitTimerR([rpdo EXCEPT !.comm.event = v]) \in Receive
  <2>1. [odR EXCEPT !.event = v] \in CommR /\ [rpdo.comm EXCEPT !.event = v] \in CommR
    BY <1>1, ParameterAssumption DEF CommR
  <2>2. [rpdo EXCEPT !.comm.event = v]
          = [rpdo EXCEPT !.comm = [rpdo.comm EXCEPT !.event = v]]
    BY <1>1, Zenon DEF Receive
  <2> QED BY <2>1, <2>2, <1>6, InitTimerRType
<1>14. CASE WriteTransmit
  BY <1>14, <1>3, <1>7, <1>8, <1>9, <1>10, <1>11 DEF WriteTransmit
<1>15. CASE WriteReceive
  BY <1>15, <1>4, <1>7, <1>12, <1>13 DEF WriteReceive
<1> QED BY <1>14, <1>15

LEMMA TypeStep ==
  ASSUME TypeOK, [Next]_vars
  PROVE  TypeOK'
<1>1. /\ tpdo \in Transmit /\ rpdo \in Receive
      /\ obj \in Value /\ got \in Value /\ sent \in Value
      /\ odT \in CommT /\ odR \in CommR /\ changes \in 0 .. MaxChange
  BY DEF TypeOK
<1>2. ASSUME Change PROVE changes' \in 0 .. MaxChange
  BY <1>1, <1>2, BoundAssumption DEF Change
<1>3. CASE Start
  <2>1. rpdo' \in Receive
    <3>1. ASSUME NEW z \in Value
          PROVE  [rpdo EXCEPT !.on = TRUE, !.comm = odR, !.wait = z,
                              !.short = FALSE, !.swnd = FALSE,
                              !.retyped = TRUE] \in Receive
      BY <1>1, Zenon DEF Receive
    <3> QED BY <1>3, <3>1, WindowType DEF Start
  <2>2. tpdo' \in Transmit
    <3>1. odT.start \in Nat /\ QuietCap \in 0 .. QuietCap
      BY <1>1 DEF CommT, QuietCap
    <3>2. [tpdo EXCEPT !.on = TRUE, !.comm = odT, !.pend = FALSE, !.left = 0,
                       !.sync = odT.start, !.cnt = 0, !.quiet = QuietCap,
                       !.gap = QuietCap] \in Transmit
      BY <1>1, <3>1, Zero, Zenon DEF Transmit
    <3> QED BY <1>3, <3>2, InitTimerTType DEF Start
  <2> QED BY <1>1, <1>2, <1>3, <2>1, <2>2 DEF Start, TypeOK
<1>4. ASSUME NEW reset \in BOOLEAN, Stop(reset) PROVE TypeOK'
  <2>1. /\ -1 \in {-1} \union Nat
        /\ -1 \in -1 .. Window
    BY WindowType
  <2>2. tpdo' \in Transmit
    BY <1>1, <1>4, <2>1, Zenon DEF Stop, Transmit
  <2>3. rpdo' \in Receive
    BY <1>1, <1>4, <2>1, Zenon DEF Stop, Receive
  <2> QED BY <1>1, <1>2, <1>4, <2>2, <2>3, ParameterAssumption DEF Stop, TypeOK
<1>5. ASSUME NEW cnt \in 0 .. SyncMax, NEW fault \in Fault, Sync(cnt, fault)
      PROVE  TypeOK'
  <2>1. SyncedT(tpdo, cnt).t \in Transmit /\ SyncedR(rpdo).r \in Receive
    BY <1>1, SyncedTType, SyncedRType
  <2>2. tpdo' \in Transmit
    BY <1>1, <1>5, <2>1, InitFrameType DEF Sync
  <2>3. ASSUME NEW q \in BOOLEAN
        PROVE  [SyncedR(rpdo).r EXCEPT !.before = got, !.retyped = q] \in Receive
    BY <1>1, <2>1, Zenon DEF Receive
  <2>4. rpdo' \in Receive
    BY <1>5, <2>3 DEF Sync
  <2>5. obj' \in Value /\ sent' \in Value
    BY <1>1, <1>5 DEF Sync, Receive
  <2> QED BY <1>1, <1>5, <2>2, <2>4, <2>5 DEF Sync, TypeOK
<1>6. CASE WindowExpires
  <2>1. rpdo' \in Receive
    BY <1>1, <1>6, WindowType, Zenon DEF WindowExpires, Receive
  <2> QED BY <1>1, <1>6, <2>1 DEF WindowExpires, TypeOK
<1>7. ASSUME NEW fault \in Fault, Event(fault) \/ TimerEvent(fault) \/ Request(fault)
      PROVE  TypeOK'
  <2>1. tpdo' \in Transmit
    BY <1>1, <1>7, EventOfType, FiredType, InitFrameType
       DEF Event, TimerEvent, Request
  <2> QED BY <1>1, <1>7, <2>1 DEF Event, TimerEvent, Request, TypeOK
<1>8. ASSUME NEW short \in BOOLEAN, Recv(short) PROVE TypeOK'
  <2>1. got' \in Value /\ InitTimerR(rpdo) \in Receive
    BY <1>1, <1>8, BoundAssumption, InitTimerRType DEF Recv, Value
  <2>2. [InitTimerR(rpdo) EXCEPT !.wait = got', !.short = short] \in Receive
    BY <2>1, <1>8, Zenon DEF Receive
  <2>3. rpdo' \in Receive /\ obj' \in Value
    BY <1>1, <1>8, <2>1, <2>2 DEF Recv
  <2> QED BY <1>1, <1>8, <2>1, <2>3 DEF Recv, TypeOK
<1>9. CASE Deadline
  <2>1. rpdo' \in Receive
    BY <1>1, <1>9 DEF Deadline, Receive
  <2> QED BY <1>1, <1>9, <2>1 DEF Deadline, TypeOK
<1>10. CASE Tick
  <2>1. /\ Elapsed(tpdo.left) \in Nat
        /\ Elapsed(tpdo.timer) \in {-1} \union Nat
        /\ Elapsed(rpdo.timer) \in {-1} \union Nat
        /\ Elapsed(rpdo.window) \in -1 .. Window
        /\ (IF tpdo.quiet < QuietCap THEN tpdo.quiet + 1 ELSE tpdo.quiet)
             \in 0 .. QuietCap
    <3>1. /\ tpdo.left \in Nat /\ tpdo.timer \in {-1} \union Nat
          /\ tpdo.quiet \in 0 .. QuietCap
      BY <1>1 DEF Transmit
    <3>2. rpdo.timer \in {-1} \union Nat /\ rpdo.window \in -1 .. Window
      BY <1>1 DEF Receive
    <3> QED BY <3>1, <3>2, BoundAssumption DEF Elapsed, QuietCap
  <2>2. ASSUME NEW q \in 0 .. QuietCap
        PROVE  [tpdo EXCEPT !.left = Elapsed(tpdo.left),
                            !.timer = Elapsed(tpdo.timer),
                            !.quiet = q] \in Transmit
    BY <1>1, <2>1, Zenon DEF Transmit
  <2>3. tpdo' = [tpdo EXCEPT !.left = Elapsed(tpdo.left),
                             !.timer = Elapsed(tpdo.timer),
                             !.quiet = IF tpdo.quiet < QuietCap
                                       THEN tpdo.quiet + 1 ELSE tpdo.quiet]
    BY <1>10, Zenon DEF Tick
  <2>4. rpdo' = [rpdo EXCEPT !.timer = Elapsed(rpdo.timer),
                             !.window = Elapsed(rpdo.window)]
    BY <1>10, Zenon DEF Tick
  <2>5. rpdo' \in Receive
    BY <1>1, <2>1, <2>4, Zenon DEF Receive
  <2>6. tpdo' \in Transmit
    BY <2>1, <2>2, <2>3
  <2> QED BY <1>1, <1>10, <2>5, <2>6 DEF Tick, TypeOK
<1>11. CASE WriteTransmit \/ WriteReceive
  BY <1>11, WriteType
<1>12. CASE UNCHANGED vars
  BY <1>12 DEF vars, TypeOK
<1> QED BY <1>3, <1>4, <1>5, <1>6, <1>7, <1>8, <1>9, <1>10, <1>11, <1>12 DEF Next

\* The type invariant of the run Pdo, for every set of parameters written.
THEOREM TypeCorrect == Spec => []TypeOK
<1>1. Init => TypeOK
  BY InitType
<1>2. TypeOK /\ [Next]_vars => TypeOK'
  BY TypeStep
<1> QED BY <1>1, <1>2, PTL DEF Spec

-----------------------------------------------------------------------------
(* The inhibit time and the event timer                                    *)

\* The frames have been apart, and so will be the next one.
Spaced(t) ==
  t.on /\ t.comm.cobid.valid /\ t.comm.inhibit <= QuietCap
    => t.gap >= t.comm.inhibit /\ t.left + t.quiet >= t.comm.inhibit

Timed(t) ==
  t.on /\ t.comm.cobid.valid /\ EventDriven(t.comm.trans)
    /\ t.comm.event # 0 /\ ~t.idle
  => t.timer \in 0 .. t.comm.event

\* What these depend on.
Same(t, u) ==
  /\ u.on = t.on /\ u.comm = t.comm /\ u.left = t.left
  /\ u.quiet = t.quiet /\ u.gap = t.gap

LEMMA Numbers ==
  ASSUME NEW t \in Transmit
  PROVE  /\ t.comm.inhibit \in Nat /\ t.comm.event \in Nat
         /\ t.left \in Nat /\ t.timer \in {-1} \union Nat
         /\ t.quiet \in 0 .. QuietCap /\ t.gap \in 0 .. QuietCap
BY DEF Transmit, CommT

LEMMA TimerSet ==
  ASSUME NEW t \in Transmit
  PROVE  Same(t, InitTimerT(t)) /\ Timed(InitTimerT(t))
<1>1. Same(t, InitTimerT(t))
  BY DEF Same, InitTimerT, Transmit
<1>2. InitTimerT(t).timer =
        IF t.comm.cobid.valid /\ EventDriven(t.comm.trans) /\ t.comm.event # 0
        THEN t.comm.event ELSE -1
  BY DEF InitTimerT, Transmit
<1>3. Timed(InitTimerT(t))
  BY <1>1, <1>2, Numbers DEF Timed, Same
<1> QED BY <1>1, <1>3

LEMMA FrameFilled ==
  ASSUME NEW t \in Transmit, NEW fault
  PROVE  /\ Same(t, InitFrame(t, fault))
         /\ InitFrame(t, fault).timer = t.timer
         /\ InitFrame(t, fault).idle = t.idle
BY DEF Same, InitFrame, Transmit

LEMMA SameSpaced ==
  ASSUME NEW t, NEW u, Same(t, u), Spaced(t)
  PROVE  Spaced(u)
BY DEF Same, Spaced

LEMMA SameTimed ==
  ASSUME NEW t, NEW u, Same(t, u), u.timer = t.timer, u.idle = t.idle, Timed(t)
  PROVE  Timed(u)
BY DEF Same, Timed

LEMMA FrameSentSpaced ==
  ASSUME NEW t \in Transmit, Spaced(t), t.comm.inhibit = 0 \/ t.left = 0
  PROVE  Spaced(FrameSent(t)) /\ Timed(FrameSent(t))
<1> DEFINE g == IF t.quiet < t.gap THEN t.quiet ELSE t.gap
           u == [t EXCEPT !.left = t.comm.inhibit, !.quiet = 0, !.gap = g]
<1>1. g \in 0 .. QuietCap /\ t.comm.inhibit \in Nat
  BY Numbers
<1>2. u \in Transmit
  BY <1>1, Zero, Zenon DEF Transmit
<1>3. /\ u.on = t.on /\ u.comm = t.comm /\ u.left = t.comm.inhibit
      /\ u.quiet = 0 /\ u.gap = g
  BY DEF Transmit
<1>4. Spaced(u)
  <2> HIDE DEF u
  <2> QED BY <1>3, Numbers DEF Spaced
<1>5. FrameSent(t) = InitTimerT(u)
  BY Zenon DEF FrameSent
<1> QED BY <1>2, <1>4, <1>5, TimerSet, SameSpaced

LEMMA SendEventSpaced ==
  ASSUME NEW t \in Transmit, NEW fault, obj \in Value, Spaced(t)
  PROVE  /\ Spaced(SendEvent(t, fault).t)
         /\ Timed(t) => Timed(SendEvent(t, fault).t)
         /\ SendEvent(t, fault).ok => Timed(SendEvent(t, fault).t)
<1> DEFINE z == [t EXCEPT !.left = 0]
           u == InitFrame(z, fault)
<1>1. CASE t.comm.inhibit # 0 /\ t.left # 0
  BY <1>1 DEF SendEvent
<1>2. CASE t.comm.inhibit = 0 \/ t.left = 0
  <2>1. /\ z \in Transmit
        /\ z.on = t.on /\ z.comm = t.comm /\ z.left = 0
        /\ z.quiet = t.quiet /\ z.gap = t.gap
        /\ z.timer = t.timer /\ z.idle = t.idle
    BY Zero DEF Transmit
  <2>2. Spaced(z)
    <3> HIDE DEF z
    <3> QED BY <1>2, <2>1, Numbers DEF Spaced
  <2>3. Timed(t) => Timed(z)
    <3> HIDE DEF z
    <3> QED BY <2>1 DEF Timed
  <2>4. /\ u \in Transmit /\ Same(z, u)
        /\ u.timer = z.timer /\ u.idle = z.idle
    BY <2>1, InitFrameType, FrameFilled
  <2>5. Spaced(u) /\ (Timed(t) => Timed(u)) /\ u.left = 0
    BY <2>1, <2>2, <2>3, <2>4, SameSpaced, SameTimed DEF Same
  <2>6. Spaced(FrameSent(u)) /\ Timed(FrameSent(u))
    BY <2>4, <2>5, FrameSentSpaced
  <2>7. SendEvent(t, fault) =
          [ok |-> fault = "no", t |-> IF fault = "no" THEN FrameSent(u) ELSE u]
    BY <1>2, Zenon DEF SendEvent
  <2> HIDE DEF u, z
  <2>8. SendEvent(t, fault).t = IF fault = "no" THEN FrameSent(u) ELSE u
    BY <2>7
  <2>9. SendEvent(t, fault).ok = (fault = "no")
    BY <2>7
  <2> QED BY <2>5, <2>6, <2>8, <2>9
<1> QED BY <1>1, <1>2

\* An event keeps both; when it succeeds the timer is set whatever it was before.
LEMMA EventSpaced ==
  ASSUME NEW t \in Transmit, NEW fault, obj \in Value, Spaced(t)
  PROVE  /\ Spaced(EventOf(t, fault).t)
         /\ Timed(t) => Timed(EventOf(t, fault).t)
         /\ EventOf(t, fault).ok => Timed(EventOf(t, fault).t)
<1> DEFINE e == EventOf(t, fault)
           trans == t.comm.trans
<1> SUFFICES /\ Spaced(e.t)
             /\ Timed(t) => Timed(e.t)
             /\ e.ok => Timed(e.t)
  OBVIOUS
<1>1. CASE ~t.on \/ ~t.comm.cobid.valid
  <2>1. e = [ok |-> TRUE, t |-> t]
    BY <1>1, Zenon DEF EventOf
  <2> HIDE DEF e
  <2>2. e.t = t
    BY <2>1
  <2>3. Timed(t)
    BY <1>1 DEF Timed
  <2> QED BY <2>2, <2>3
<1>2. CASE t.on /\ t.comm.cobid.valid /\ trans = 0
  <2> DEFINE u == [t EXCEPT !.pend = TRUE]
  <2>1. u \in Transmit /\ Same(t, u)
    BY DEF Transmit, Same
  <2>2. e = [ok |-> TRUE, t |-> InitTimerT(u)]
    BY <1>2 DEF EventOf, RtrEvent, EventDriven
  <2> HIDE DEF e, u
  <2>3. e.t = InitTimerT(u)
    BY <2>2
  <2> QED BY <2>1, <2>3, TimerSet, SameSpaced
<1>3. CASE t.on /\ t.comm.cobid.valid /\ trans = RtrEvent
  <2> DEFINE u == InitFrame(t, fault)
  <2>1. /\ u \in Transmit /\ Same(t, u) /\ u.timer = t.timer /\ u.idle = t.idle
    BY InitFrameType, FrameFilled
  <2>2. e = [ok |-> fault # "map",
             t  |-> IF fault = "map" THEN u ELSE InitTimerT(u)]
    BY <1>3 DEF EventOf, RtrEvent, EventDriven
  <2>3. ~EventDriven(trans)
    BY <1>3 DEF EventDriven, RtrEvent
  <2>4. Timed(u)
    BY <2>1, <2>3 DEF Timed, Same
  <2> HIDE DEF e, u
  <2>5. e.t = IF fault = "map" THEN u ELSE InitTimerT(u)
    BY <2>2
  <2>6. Timed(u) /\ Timed(InitTimerT(u)) /\ Spaced(u) /\ Spaced(InitTimerT(u))
    BY <2>1, <2>4, TimerSet, SameSpaced
  <2> QED BY <2>5, <2>6
<1>4. CASE t.on /\ t.comm.cobid.valid /\ EventDriven(trans)
  <2>1. trans # 0 /\ trans # RtrEvent
    BY <1>4 DEF EventDriven, RtrEvent
  <2>2. e = SendEvent(t, fault)
    BY <1>4, <2>1 DEF EventOf
  <2> HIDE DEF e
  <2> QED BY <2>2, SendEventSpaced
<1>5. CASE /\ t.on /\ t.comm.cobid.valid
           /\ trans # 0 /\ trans # RtrEvent /\ ~EventDriven(trans)
  <2>1. e = [ok |-> TRUE, t |-> t]
    BY <1>5, Zenon DEF EventOf
  <2> HIDE DEF e
  <2>2. e.t = t
    BY <2>1
  <2>3. Timed(t)
    BY <1>5 DEF Timed
  <2> QED BY <2>2, <2>3
<1> HIDE DEF e
<1> QED BY <1>1, <1>2, <1>3, <1>4, <1>5

LEMMA FiredSpaced ==
  ASSUME NEW t \in Transmit, NEW fault, obj \in Value, Spaced(t)
  PROVE  Spaced(Fired(t, fault)) /\ Timed(Fired(t, fault))
<1> DEFINE u == [t EXCEPT !.timer = -1]
           e == EventOf(u, fault)
<1>1. u \in Transmit /\ Same(t, u)
  BY DEF Transmit, Same
<1>2. Spaced(u)
  BY <1>1, SameSpaced
<1>3. e.t \in Transmit /\ Spaced(e.t) /\ (e.ok => Timed(e.t))
  BY <1>1, <1>2, EventOfType, EventSpaced
<1>4. Fired(t, fault) = IF e.ok THEN e.t ELSE InitTimerT(e.t)
  BY DEF Fired
<1> HIDE DEF e, u
<1> QED BY <1>3, <1>4, TimerSet, SameSpaced

\* A SYNC does not concern them.
LEMMA SyncedSame ==
  ASSUME NEW t \in Transmit, NEW cnt
  PROVE  /\ Same(t, SyncedT(t, cnt).t)
         /\ SyncedT(t, cnt).t.timer = t.timer
         /\ SyncedT(t, cnt).t.idle = t.idle
<1> DEFINE u == IF t.sync # 0 /\ cnt # 0 THEN [t EXCEPT !.sync = 0, !.cnt = 0]
                ELSE t
<1>1. Same(t, u) /\ u.timer = t.timer /\ u.idle = t.idle /\ u \in Transmit
  <2>1. [t EXCEPT !.sync = 0, !.cnt = 0] \in Transmit
    BY Zero, Zenon DEF Transmit
  <2> QED BY <2>1 DEF Same, Transmit
<1>2. ASSUME NEW v \in {u, [u EXCEPT !.pend = FALSE], [u EXCEPT !.cnt = 0],
                         [u EXCEPT !.cnt = @ + 1]}
      PROVE  Same(t, v) /\ v.timer = t.timer /\ v.idle = t.idle
  <2> HIDE DEF u
  <2> QED BY <1>1 DEF Same, Transmit
<1>3. SyncedT(t, cnt).t \in
        {t, u, [u EXCEPT !.pend = FALSE], [u EXCEPT !.cnt = 0],
         [u EXCEPT !.cnt = @ + 1]}
  BY DEF SyncedT
<1> HIDE DEF u
<1> QED BY <1>2, <1>3 DEF Same

TInv == TypeOK /\ Spaced(tpdo) /\ Timed(tpdo)

LEMMA WriteTransmitSpaced ==
  ASSUME TInv, WriteTransmit
  PROVE  Spaced(tpdo') /\ Timed(tpdo')
<1>1. tpdo \in Transmit /\ tpdo.comm \in CommT
  BY DEF TInv, TypeOK, Transmit
<1>2. ASSUME NEW c \in Cobids, WriteT([odT EXCEPT !.cobid = c], RenamedT(tpdo, c))
      PROVE  Spaced(tpdo') /\ Timed(tpdo')
  <2> DEFINE fresh == [tpdo EXCEPT !.left = 0, !.sync = tpdo.comm.start, !.cnt = 0,
                                   !.quiet = QuietCap, !.gap = QuietCap]
             u == IF c.valid /\ ~tpdo.comm.cobid.valid THEN fresh ELSE tpdo
             v == [u EXCEPT !.comm.cobid = c, !.msg = None, !.pend = FALSE]
             d == [tpdo.comm EXCEPT !.cobid = c]
  <2>1. /\ tpdo.comm.start \in Nat /\ QuietCap \in 0 .. QuietCap
        /\ c \in Cobid /\ d \in CommT /\ d.cobid = c
        /\ d.inhibit = tpdo.comm.inhibit
    BY <1>1, ParameterAssumption DEF CommT, QuietCap
  <2>2. fresh \in Transmit
    BY <1>1, <2>1, Zero, Zenon DEF Transmit
  <2>3. /\ fresh.on = tpdo.on /\ fresh.comm = tpdo.comm
        /\ fresh.quiet = QuietCap /\ fresh.gap = QuietCap /\ fresh.left = 0
    BY <1>1 DEF Transmit
  <2>4. /\ u \in Transmit /\ u.on = tpdo.on /\ u.comm = tpdo.comm
        /\ IF c.valid /\ ~tpdo.comm.cobid.valid
           THEN u.quiet = QuietCap /\ u.gap = QuietCap /\ u.left = 0
           ELSE u = tpdo
    <3> HIDE DEF fresh
    <3> QED BY <1>1, <2>2, <2>3
  <2>5. /\ v \in Transmit /\ v.on = tpdo.on /\ v.comm = d
        /\ v.quiet = u.quiet /\ v.gap = u.gap /\ v.left = u.left
    <3> HIDE DEF u, d, fresh
    <3>1. v = [u EXCEPT !.comm = [u.comm EXCEPT !.cobid = c], !.msg = None,
                        !.pend = FALSE]
      BY <2>4, Zenon DEF Transmit
    <3>2. v = [u EXCEPT !.comm = d, !.msg = None, !.pend = FALSE]
      BY <2>4, <3>1 DEF d
    <3>3. v \in Transmit
      BY <2>1, <2>4, <3>2, Zenon DEF Transmit
    <3> QED BY <2>4, <3>2, <3>3 DEF Transmit
  <2>6. Spaced(v)
    <3> HIDE DEF v, u, d
    <3>1. CASE c.valid => tpdo.comm.cobid.valid
      BY <3>1, <2>1, <2>4, <2>5 DEF TInv, Spaced
    <3>2. CASE c.valid /\ ~tpdo.comm.cobid.valid
      BY <3>2, <2>1, <2>4, <2>5 DEF Spaced, QuietCap, CommT
    <3> QED BY <3>1, <3>2
  <2>7. RenamedT(tpdo, c) = InitTimerT(v)
    BY Zenon DEF RenamedT
  <2> HIDE DEF v
  <2>8. Spaced(RenamedT(tpdo, c)) /\ Timed(RenamedT(tpdo, c))
    BY <2>5, <2>6, <2>7, TimerSet, SameSpaced
  <2> QED BY <1>2, <2>8 DEF WriteT, TInv
\* The writes that leave the times of the frames alone.
<1>3. ASSUME NEW o, NEW t \in Transmit, NEW d \in CommT, WriteT(o, t),
             t = [tpdo EXCEPT !.comm = d, !.idle = TRUE],
             d.cobid = tpdo.comm.cobid, d.inhibit = tpdo.comm.inhibit
      PROVE  Spaced(tpdo') /\ Timed(tpdo')
  <2>1. /\ t.on = tpdo.on /\ t.comm = d /\ t.left = tpdo.left
        /\ t.quiet = tpdo.quiet /\ t.gap = tpdo.gap /\ t.idle = TRUE
    BY <1>1, <1>3 DEF Transmit
  <2>2. Spaced(t) /\ Timed(t)
    BY <1>3, <2>1 DEF TInv, Spaced, Timed
  <2> QED BY <1>3, <2>2 DEF WriteT, TInv
<1>4. ASSUME NEW v \in TransT,
             WriteT([odT EXCEPT !.trans = v],
                    [tpdo EXCEPT !.comm.trans = v, !.idle = TRUE])
      PROVE  Spaced(tpdo') /\ Timed(tpdo')
  <2> DEFINE d == [tpdo.comm EXCEPT !.trans = v]
  <2>1. d \in CommT /\ d.cobid = tpdo.comm.cobid /\ d.inhibit = tpdo.comm.inhibit
    BY <1>1, ParameterAssumption DEF CommT
  <2>2. [tpdo EXCEPT !.comm.trans = v, !.idle = TRUE]
          = [tpdo EXCEPT !.comm = d, !.idle = TRUE]
    BY <1>1, Zenon DEF Transmit
  <2> HIDE DEF d
  <2>3. [tpdo EXCEPT !.comm = d, !.idle = TRUE] \in Transmit
    BY <1>1, <2>1, Zenon DEF Transmit
  <2> QED BY <1>3, <1>4, <2>1, <2>2, <2>3
<1>5. ASSUME NEW v \in Events,
             WriteT([odT EXCEPT !.event = v],
                    InitTimerT([tpdo EXCEPT !.comm.event = v]))
      PROVE  Spaced(tpdo') /\ Timed(tpdo')
  <2> DEFINE d == [tpdo.comm EXCEPT !.event = v]
             u == [tpdo EXCEPT !.comm = d]
  <2>1. d \in CommT /\ d.cobid = tpdo.comm.cobid /\ d.inhibit = tpdo.comm.inhibit
    BY <1>1, ParameterAssumption DEF CommT
  <2>2. [tpdo EXCEPT !.comm.event = v] = u
    BY <1>1, Zenon DEF Transmit
  <2>3. /\ u \in Transmit
        /\ u.on = tpdo.on /\ u.comm = d /\ u.left = tpdo.left
        /\ u.quiet = tpdo.quiet /\ u.gap = tpdo.gap
    <3> HIDE DEF d
    <3> QED BY <1>1, <2>1 DEF Transmit
  <2> HIDE DEF d, u
  <2>4. Spaced(u)
    BY <2>1, <2>3 DEF TInv, Spaced
  <2>5. Spaced(InitTimerT(u)) /\ Timed(InitTimerT(u))
    BY <2>3, <2>4, TimerSet, SameSpaced
  <2> QED BY <1>5, <2>2, <2>5 DEF WriteT, TInv
\* The inhibit time and the start value change only while nothing is promised.
<1>6. ASSUME NEW o, NEW d \in CommT, WriteT(o, [tpdo EXCEPT !.comm = d]),
             tpdo.on => ~tpdo.comm.cobid.valid, d.cobid = tpdo.comm.cobid
      PROVE  Spaced(tpdo') /\ Timed(tpdo')
  <2> DEFINE u == [tpdo EXCEPT !.comm = d]
  <2>1. u.on = tpdo.on /\ u.comm = d
    BY <1>1 DEF Transmit
  <2> HIDE DEF u
  <2>2. Spaced(u) /\ Timed(u)
    BY <1>6, <2>1 DEF Spaced, Timed
  <2> QED BY <1>6, <2>2 DEF WriteT, TInv, u
<1>7. ASSUME NEW v \in Inhibits, tpdo.on => ~tpdo.comm.cobid.valid,
             WriteT([odT EXCEPT !.inhibit = v], [tpdo EXCEPT !.comm.inhibit = v])
      PROVE  Spaced(tpdo') /\ Timed(tpdo')
  <2> DEFINE d == [tpdo.comm EXCEPT !.inhibit = v]
  <2>1. d \in CommT /\ d.cobid = tpdo.comm.cobid
    BY <1>1, ParameterAssumption DEF CommT
  <2>2. [tpdo EXCEPT !.comm.inhibit = v] = [tpdo EXCEPT !.comm = d]
    BY <1>1, Zenon DEF Transmit
  <2> QED BY <1>6, <1>7, <2>1, <2>2
<1>8. ASSUME NEW v \in Starts, tpdo.on => ~tpdo.comm.cobid.valid,
             WriteT([odT EXCEPT !.start = v], [tpdo EXCEPT !.comm.start = v])
      PROVE  Spaced(tpdo') /\ Timed(tpdo')
  <2> DEFINE d == [tpdo.comm EXCEPT !.start = v]
  <2>1. d \in CommT /\ d.cobid = tpdo.comm.cobid
    BY <1>1, ParameterAssumption DEF CommT
  <2>2. [tpdo EXCEPT !.comm.start = v] = [tpdo EXCEPT !.comm = d]
    BY <1>1, Zenon DEF Transmit
  <2> QED BY <1>6, <1>8, <2>1, <2>2
<1> QED BY <1>2, <1>4, <1>5, <1>7, <1>8 DEF WriteTransmit

LEMMA TStep ==
  ASSUME TInv, [Next]_vars
  PROVE  TInv'
<1>1. TypeOK /\ TypeOK'
  BY TypeStep DEF TInv
<1>2. tpdo \in Transmit /\ obj \in Value /\ odT \in CommT /\ tpdo' \in Transmit
  BY <1>1 DEF TypeOK
<1> SUFFICES Spaced(tpdo') /\ Timed(tpdo')
  BY <1>1 DEF TInv
<1>3. CASE Start
  <2> DEFINE u == [tpdo EXCEPT !.on = TRUE, !.comm = odT, !.pend = FALSE,
                               !.left = 0, !.sync = odT.start, !.cnt = 0,
                               !.quiet = QuietCap, !.gap = QuietCap]
  <2>1. odT.start \in Nat /\ odT.inhibit \in Nat /\ QuietCap \in 0 .. QuietCap
    BY <1>2 DEF CommT, QuietCap
  <2>2. u \in Transmit
    BY <1>2, <2>1, Zero, Zenon DEF Transmit
  <2>3. /\ u.comm = odT /\ u.quiet = QuietCap /\ u.gap = QuietCap /\ u.left = 0
    BY <1>2 DEF Transmit
  <2>4. tpdo' = InitTimerT(u)
    BY <1>3 DEF Start
  <2> HIDE DEF u
  <2>5. Spaced(u)
    BY <2>1, <2>3 DEF Spaced, QuietCap
  <2> QED BY <2>2, <2>4, <2>5, TimerSet, SameSpaced
<1>4. ASSUME NEW reset \in BOOLEAN, Stop(reset)
      PROVE  Spaced(tpdo') /\ Timed(tpdo')
  <2>1. ~tpdo'.on
    BY <1>2, <1>4 DEF Stop, Transmit
  <2> QED BY <2>1 DEF Spaced, Timed
<1>5. ASSUME NEW cnt \in 0 .. SyncMax, NEW fault \in Fault, Sync(cnt, fault)
      PROVE  Spaced(tpdo') /\ Timed(tpdo')
  <2> DEFINE u == SyncedT(tpdo, cnt).t
             v == InitFrame(u, fault)
  <2>1. u \in Transmit /\ Spaced(u) /\ Timed(u)
    BY <1>2, SyncedTType, SyncedSame, SameSpaced, SameTimed DEF TInv
  <2>2. Spaced(v) /\ Timed(v)
    <3> HIDE DEF u
    <3> QED BY <2>1, FrameFilled, SameSpaced, SameTimed
  <2>3. tpdo' = u \/ tpdo' = v
    BY <1>5 DEF Sync
  <2> QED BY <2>1, <2>2, <2>3
<1>6. ASSUME NEW fault \in Fault, Event(fault)
      PROVE  Spaced(tpdo') /\ Timed(tpdo')
  BY <1>2, <1>6, EventSpaced DEF Event, TInv
<1>7. ASSUME NEW fault \in Fault, TimerEvent(fault)
      PROVE  Spaced(tpdo') /\ Timed(tpdo')
  BY <1>2, <1>7, FiredSpaced DEF TimerEvent, TInv
<1>8. ASSUME NEW fault \in Fault, Request(fault)
      PROVE  Spaced(tpdo') /\ Timed(tpdo')
  BY <1>2, <1>8, FrameFilled, SameSpaced, SameTimed DEF Request, TInv
<1>9. CASE Tick
  <2>1. /\ tpdo'.on = tpdo.on /\ tpdo'.comm = tpdo.comm /\ tpdo'.gap = tpdo.gap
        /\ tpdo'.left = Elapsed(tpdo.left) /\ tpdo'.timer = Elapsed(tpdo.timer)
        /\ tpdo'.quiet = IF tpdo.quiet < QuietCap THEN tpdo.quiet + 1
                         ELSE tpdo.quiet
        /\ tpdo'.idle = tpdo.idle /\ tpdo.timer # 0
    BY <1>2, <1>9 DEF Tick, Transmit
  <2>2. Spaced(tpdo')
    BY <1>2, <2>1, Numbers DEF TInv, Spaced, Elapsed, QuietCap
  <2>3. Timed(tpdo')
    BY <1>2, <2>1, Numbers DEF TInv, Timed, Elapsed
  <2> QED BY <2>2, <2>3
<1>10. CASE WriteTransmit
  BY <1>10, WriteTransmitSpaced
<1>11. CASE UNCHANGED tpdo
  BY <1>11 DEF TInv
<1>12. /\ WindowExpires \/ Deadline \/ WriteReceive => UNCHANGED tpdo
       /\ \A short \in BOOLEAN : Recv(short) => UNCHANGED tpdo
       /\ UNCHANGED vars => UNCHANGED tpdo
  BY DEF WindowExpires, Deadline, WriteReceive, WriteR, Recv, vars
<1> QED BY <1>3, <1>4, <1>5, <1>6, <1>7, <1>8, <1>9, <1>10, <1>11, <1>12 DEF Next

THEOREM TransmitSafe == Spec => []TInv
<1>1. Init => TInv
  <2> SUFFICES ASSUME Init PROVE TInv
    OBVIOUS
  <2>1. ~tpdo.on
    BY DEF Init
  <2> QED BY <2>1, InitType DEF TInv, Spaced, Timed
<1>2. TInv /\ [Next]_vars => TInv'
  BY TStep
<1> QED BY <1>1, <1>2, PTL DEF Spec

\* Event-driven frames are apart by the inhibit time, whatever the parameters are
\* and whatever fails: a refused event does not begin a new inhibit time.
THEOREM InhibitIsKept == Spec => []InhibitKept
<1>1. TInv => InhibitKept
  BY DEF TInv, Spaced, InhibitKept
<1> QED BY <1>1, TransmitSafe, PTL

\* The event timer of an event-driven PDO runs, after failures, too.
THEOREM EventTimerIsRunning == Spec => []EventTimerRuns
<1>1. TInv => EventTimerRuns
  BY DEF TInv, Timed, EventTimerRuns
<1> QED BY <1>1, TransmitSafe, PTL

-----------------------------------------------------------------------------
(* The values of two SYNC periods                                          *)

\* The waiting frame is newer than the value of the object, and all are among the
\* frames received.
Ordered ==
  /\ obj <= got /\ rpdo.wait <= got
  /\ rpdo.comm.trans <= 240 /\ ~rpdo.retyped
       => obj <= rpdo.before /\ (rpdo.wait # 0 => obj <= rpdo.wait)

RInv == TypeOK /\ Ordered

\* Only the parts of Ordered matter.
LEMMA OrderedSame ==
  ASSUME Ordered, obj' = obj, got' = got, rpdo'.wait = rpdo.wait,
         rpdo'.comm.trans = rpdo.comm.trans, rpdo'.retyped = rpdo.retyped,
         rpdo'.before = rpdo.before
  PROVE  Ordered'
BY DEF Ordered

LEMMA TimerRSame ==
  ASSUME NEW r \in Receive
  PROVE  /\ InitTimerR(r).wait = r.wait /\ InitTimerR(r).comm = r.comm
         /\ InitTimerR(r).retyped = r.retyped /\ InitTimerR(r).before = r.before
         /\ InitTimerR(r).swnd = r.swnd
BY DEF InitTimerR, Receive

LEMMA SyncedRFields ==
  ASSUME NEW r \in Receive
  PROVE  LET u == SyncedR(r).r IN
         /\ u.comm = r.comm
         /\ IF ~r.comm.cobid.valid \/ r.comm.trans > 240
            THEN ~SyncedR(r).due /\ u.wait = r.wait
            ELSE (SyncedR(r).due <=> r.wait # 0) /\ u.wait = 0
BY DEF SyncedR, Receive

LEMMA WriteReceiveOrdered ==
  ASSUME RInv, WriteReceive
  PROVE  Ordered'
<1>1. rpdo \in Receive /\ rpdo.comm \in CommR
  BY DEF RInv, TypeOK, Receive
<1>2. ASSUME NEW c \in Cobids, WriteR([odR EXCEPT !.cobid = c], RenamedR(rpdo, c))
      PROVE  Ordered'
  <2> DEFINE d == [rpdo.comm EXCEPT !.cobid = c]
             v == [rpdo EXCEPT !.comm = d, !.wait = 0, !.short = FALSE,
                               !.swnd = FALSE, !.window = -1]
  <2>1. d \in CommR /\ d.trans = rpdo.comm.trans
    BY <1>1, ParameterAssumption DEF CommR
  <2>2. v \in Receive
    <3> HIDE DEF d
    <3> QED BY <1>1, <2>1, WindowType, Zenon DEF Receive
  <2>3. /\ v.wait = 0 /\ v.comm = d /\ v.retyped = rpdo.retyped
        /\ v.before = rpdo.before
    BY <1>1 DEF Receive
  <2>4. RenamedR(rpdo, c) = InitTimerR(v)
    <3>1. v = [rpdo EXCEPT !.comm.cobid = c, !.wait = 0, !.short = FALSE,
                           !.swnd = FALSE, !.window = -1]
      BY <1>1, Zenon DEF Receive
    <3> QED BY <3>1, Zenon DEF RenamedR
  <2> HIDE DEF v, d
  <2>5. CASE rpdo' = InitTimerR(v)
    <3>1. /\ rpdo'.wait = 0 /\ rpdo'.comm.trans = rpdo.comm.trans
          /\ rpdo'.retyped = rpdo.retyped /\ rpdo'.before = rpdo.before
      BY <2>1, <2>2, <2>3, <2>5, TimerRSame
    <3>2. obj' = obj /\ got' = got /\ got \in Nat
      BY <1>2 DEF WriteR, RInv, TypeOK, Value
    <3> QED BY <3>1, <3>2 DEF RInv, Ordered
  <2>6. CASE rpdo' = rpdo
    BY <1>2, <2>6, OrderedSame DEF WriteR, RInv
  <2> QED BY <1>2, <2>4, <2>5, <2>6 DEF WriteR
<1>3. ASSUME NEW v \in TransR,
             WriteR([odR EXCEPT !.trans = v],
                    [rpdo EXCEPT !.comm.trans = v, !.retyped = TRUE])
      PROVE  Ordered'
  <2>1. rpdo' = rpdo \/ (rpdo'.retyped = TRUE /\ rpdo'.wait = rpdo.wait)
    BY <1>1, <1>3 DEF WriteR, Receive
  <2>2. CASE rpdo' = rpdo
    BY <1>3, <2>2, OrderedSame DEF WriteR, RInv
  <2>3. CASE rpdo'.retyped = TRUE /\ rpdo'.wait = rpdo.wait
    BY <1>3, <2>3 DEF WriteR, RInv, Ordered
  <2> QED BY <2>1, <2>2, <2>3
<1>4. ASSUME NEW v \in Events,
             WriteR([odR EXCEPT !.event = v],
                    InitTimerR([rpdo EXCEPT !.comm.event = v]))
      PROVE  Ordered'
  <2> DEFINE d == [rpdo.comm EXCEPT !.event = v]
             u == [rpdo EXCEPT !.comm = d]
  <2>1. d \in CommR /\ d.trans = rpdo.comm.trans
    BY <1>1, ParameterAssumption DEF CommR
  <2>2. [rpdo EXCEPT !.comm.event = v] = u
    BY <1>1, Zenon DEF Receive
  <2>3. /\ u \in Receive /\ u.wait = rpdo.wait /\ u.comm = d
        /\ u.retyped = rpdo.retyped /\ u.before = rpdo.before
    <3> HIDE DEF d
    <3> QED BY <1>1, <2>1 DEF Receive
  <2> HIDE DEF u, d
  <2>4. CASE rpdo' = InitTimerR(u)
    BY <1>4, <2>1, <2>3, <2>4, TimerRSame, OrderedSame DEF WriteR, RInv
  <2>5. CASE rpdo' = rpdo
    BY <1>4, <2>5, OrderedSame DEF WriteR, RInv
  <2> QED BY <1>4, <2>2, <2>4, <2>5 DEF WriteR
<1> QED BY <1>2, <1>3, <1>4 DEF WriteReceive

\* What a SYNC sends, and what it leaves in the object.
LEMMA SyncOrdered ==
  ASSUME RInv, NEW cnt \in 0 .. SyncMax, NEW fault \in Fault, Sync(cnt, fault)
  PROVE  /\ Ordered'
         /\ rpdo.comm.trans <= 240 /\ ~rpdo.retyped
              => obj' >= obj /\ (sent' # sent => sent' <= rpdo.before)
<1> DEFINE u == SyncedR(rpdo).r
           due == SyncedR(rpdo).due
           q == rpdo.retyped /\ u.wait # 0
<1>1. /\ rpdo \in Receive /\ obj \in Nat /\ got \in Nat /\ rpdo.wait \in Nat
      /\ rpdo.comm.trans \in Nat /\ rpdo.before \in Nat
  BY DEF RInv, TypeOK, Receive, CommR, TypeR, Value
<1>2. u \in Receive /\ u.comm = rpdo.comm
  BY <1>1, SyncedRType, SyncedRFields
<1>3. IF ~rpdo.comm.cobid.valid \/ rpdo.comm.trans > 240
      THEN ~due /\ u.wait = rpdo.wait
      ELSE (due <=> rpdo.wait # 0) /\ u.wait = 0
  BY <1>1, SyncedRFields
<1>4. /\ rpdo' = [u EXCEPT !.before = got, !.retyped = q]
      /\ obj' = IF due /\ ~rpdo.short THEN rpdo.wait ELSE obj
      /\ sent' = sent \/ sent' = obj
      /\ got' = got
  BY DEF Sync
<1> HIDE DEF due, u
<1>5. /\ rpdo'.before = got /\ rpdo'.retyped = q
      /\ rpdo'.wait = u.wait /\ rpdo'.comm.trans = rpdo.comm.trans
  BY <1>2, <1>4 DEF Receive
<1>6. obj' <= got
  BY <1>1, <1>4 DEF RInv, Ordered
<1>7. /\ rpdo'.wait <= got'
      /\ ~rpdo.retyped /\ rpdo.comm.trans <= 240 /\ rpdo'.wait # 0
           => obj' <= rpdo'.wait
  BY <1>1, <1>3, <1>4, <1>5 DEF RInv, Ordered
<1>8. Ordered'
  BY <1>1, <1>4, <1>5, <1>6, <1>7 DEF Ordered
<1>9. rpdo.comm.trans <= 240 /\ ~rpdo.retyped
        => obj' >= obj /\ (sent' # sent => sent' <= rpdo.before)
  BY <1>1, <1>3, <1>4 DEF RInv, Ordered
<1> QED BY <1>8, <1>9

LEMMA RStep ==
  ASSUME RInv, [Next]_vars
  PROVE  RInv'
<1>1. TypeOK /\ TypeOK'
  BY TypeStep DEF RInv
<1>2. /\ rpdo \in Receive /\ obj \in Nat /\ got \in Nat /\ rpdo.wait \in Nat
      /\ rpdo.comm.trans \in TypeR /\ odR \in CommR /\ obj <= got /\ rpdo.wait <= got
  BY <1>1 DEF RInv, Ordered, TypeOK, Receive, CommR, Value
<1> SUFFICES Ordered'
  BY <1>1 DEF RInv
<1>3. CASE Start
  <2>1. rpdo'.wait = 0 /\ rpdo'.retyped = TRUE /\ obj' = obj /\ got' = got
    BY <1>2, <1>3 DEF Start, Receive
  <2> QED BY <1>2, <2>1 DEF Ordered
<1>4. ASSUME NEW reset \in BOOLEAN, Stop(reset) PROVE Ordered'
  <2>1. /\ rpdo'.wait = rpdo.wait /\ rpdo'.comm = rpdo.comm
        /\ rpdo'.retyped = rpdo.retyped /\ rpdo'.before = rpdo.before
    BY <1>2, <1>4 DEF Stop, Receive
  <2> QED BY <1>4, <2>1, OrderedSame DEF Stop, RInv
<1>5. ASSUME NEW cnt \in 0 .. SyncMax, NEW fault \in Fault, Sync(cnt, fault)
      PROVE  Ordered'
  BY <1>5, SyncOrdered
<1>6. ASSUME NEW short \in BOOLEAN, Recv(short) PROVE Ordered'
  <2> DEFINE u == InitTimerR(rpdo)
  <2>1. /\ u \in Receive /\ u.wait = rpdo.wait /\ u.comm = rpdo.comm
        /\ u.retyped = rpdo.retyped /\ u.before = rpdo.before
    BY <1>2, InitTimerRType, TimerRSame
  <2> HIDE DEF u
  <2>2. CASE EventDriven(u.comm.trans)
    <3>1. rpdo' = u /\ obj' \in {obj, got'} /\ got' = got + 1
      BY <1>6, <2>2 DEF Recv, u
    <3>2. ~(rpdo'.comm.trans <= 240)
      BY <1>2, <2>1, <2>2, <3>1 DEF EventDriven, TypeR
    <3> QED BY <1>2, <2>1, <3>1, <3>2 DEF Ordered
  <2>3. CASE ~EventDriven(u.comm.trans)
    <3>1. /\ rpdo' = u \/ rpdo' = [u EXCEPT !.wait = got', !.short = short]
          /\ obj' = obj /\ got' = got + 1
      BY <1>6, <2>3 DEF Recv, u
    <3>2. /\ rpdo'.wait \in {rpdo.wait, got'} /\ rpdo'.comm = rpdo.comm
          /\ rpdo'.retyped = rpdo.retyped /\ rpdo'.before = rpdo.before
      BY <2>1, <3>1 DEF Receive
    <3> QED BY <1>2, <3>1, <3>2 DEF RInv, Ordered
  <2> QED BY <2>2, <2>3
<1>7. CASE WindowExpires \/ Deadline \/ Tick
  <2>1. /\ rpdo'.wait = rpdo.wait /\ rpdo'.comm = rpdo.comm
        /\ rpdo'.retyped = rpdo.retyped /\ rpdo'.before = rpdo.before
    BY <1>2, <1>7 DEF WindowExpires, Deadline, Tick, Receive
  <2> QED BY <1>7, <2>1, OrderedSame DEF WindowExpires, Deadline, Tick, RInv
<1>8. CASE WriteReceive
  BY <1>8, WriteReceiveOrdered
<1>9. CASE UNCHANGED <<rpdo, obj, got>>
  BY <1>9, OrderedSame DEF RInv
<1>10. /\ WriteTransmit \/ UNCHANGED vars => UNCHANGED <<rpdo, obj, got>>
       /\ \A fault \in Fault : Event(fault) \/ TimerEvent(fault) \/ Request(fault)
            => UNCHANGED <<rpdo, obj, got>>
  BY DEF WriteTransmit, WriteT, vars, Event, TimerEvent, Request
<1> QED BY <1>3, <1>4, <1>5, <1>6, <1>7, <1>8, <1>9, <1>10 DEF Next

\* A SYNC sends nothing received since the SYNC before, and never replaces a newer
\* value, for every type and parameter as long as the type is not changed.
THEOREM SyncIsSeparating == Spec => SyncSeparates
<1>1. Init => RInv
  <2> SUFFICES ASSUME Init PROVE RInv
    OBVIOUS
  <2>1. obj = 0 /\ got = 0 /\ rpdo.wait = 0 /\ rpdo.before = 0
    BY DEF Init
  <2> QED BY <2>1, InitType DEF RInv, Ordered
<1>2. RInv /\ [Next]_vars => RInv'
  BY RStep
<1>3. RInv /\ [Next]_vars
        => [\A cnt \in 0 .. SyncMax, fault \in Fault :
              Sync(cnt, fault) /\ rpdo.comm.trans <= 240 /\ ~rpdo.retyped
              => /\ sent' # sent => sent' <= rpdo.before
                 /\ obj' >= obj]_vars
  BY SyncOrdered
<1> QED BY <1>1, <1>2, <1>3, PTL DEF Spec, SyncSeparates
=============================================================================
