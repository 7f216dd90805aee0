-------------------------------- MODULE Pdo --------------------------------
(* The PDO services of a node (co_tpdo.c, co_rpdo.c): a Transmit-PDO and a    *)
(* Receive-PDO that map the same object, with the calls of co_nmt.c and       *)
(* co_nmt_srv.c that start, stop and drive them.                              *)
(*                                                                            *)
(* A service works with a copy of its parameters that it takes when it        *)
(* starts; a write by SDO changes the copy only while the service is started. *)
(* The services are not destroyed when they stop (LELY_NO_MALLOC), and SYNC   *)
(* still reaches them in PREOP.  Values are told apart by the number of the   *)
(* received frame that brought them.  The mapping is valid and fixed, reading *)
(* the mapped object may fail, and the application samples synchronously.     *)
(* The errors that a Receive-PDO tells are errors of Emcy.                    *)
EXTENDS Integers

CONSTANTS
  StoredT,   \* 1800 in the concise DCF
  StoredR,   \* 1400
  Cobids,    \* the values written to sub-index 1 of 1800 and 1400
  TransT,    \* those written to 1800:02
  TransR,    \* those written to 1400:02
  Inhibits,  \* those written to 1800:03, in ticks
  Events,    \* those written to 1800:05 and 1400:05, in ticks
  Starts,    \* those written to 1800:06
  Window,    \* 1007 in ticks, 0: none
  SyncMax,   \* the largest counter of a SYNC message
  MaxFrame,  \* bound: frames received
  MaxChange  \* bound: starts, stops and writes

\* The COB-ID of a PDO without its CAN-ID: bits 31 and 30, inverted.
Cobid == [valid : BOOLEAN, rtr : BOOLEAN]

\* Transmission types: SYNC or event-driven, or on request (co_tpdo.c:412).
RtrSync  == 252
RtrEvent == 253
Type     == 0 .. 240 \union 252 .. 255
TypeR    == 0 .. 240 \union 254 .. 255

CommT ==
  [cobid : Cobid, trans : Type, inhibit : Nat, event : Nat, start : Nat]
CommR == [cobid : Cobid, trans : TypeR, event : Nat]

ASSUME ParameterAssumption ==
  /\ StoredT \in CommT /\ StoredR \in CommR
  /\ Cobids \subseteq Cobid
  /\ TransT \subseteq Type
  /\ TransR \subseteq TypeR
  /\ Inhibits \subseteq Nat /\ Events \subseteq Nat /\ Starts \subseteq Nat
ASSUME BoundAssumption ==
  /\ Window \in Nat /\ SyncMax \in Nat
  /\ MaxFrame \in Nat /\ MaxChange \in Nat

VARIABLES
  odT, odR, \* 1800 and 1400
  tpdo,     \* the Transmit-PDO service
  rpdo,     \* the Receive-PDO service
  obj,      \* the frame whose value the mapped object holds, 0: none
  got,      \* frames received by the node
  sent,     \* the last value sent upon a SYNC
  changes   \* starts, stops and writes so far

vars == <<odT, odR, tpdo, rpdo, obj, got, sent, changes>>

\* No frame is buffered; one that could not be filled is.
None  == -2
Empty == -1
Value == 0 .. MaxFrame

\* Bound: the ticks since the last event-driven frame are counted up to this.
QuietCap == 3

Transmit ==
  [on    : BOOLEAN, \* ~pdo->stopped
   comm  : CommT,
   pend  : BOOLEAN, \* pdo->event
   sync  : Nat,     \* the SYNC counter that starts the cycle, 0: started
   cnt   : 0 .. 240, \* SYNC messages since the last frame
   left  : Nat,     \* ticks until the inhibit time has passed
   timer : {-1} \union Nat, \* ticks until the event timer is due, or -1
   msg   : {None, Empty} \union Value, \* the buffered frame
   quiet : 0 .. QuietCap, \* history: ticks since the last event-driven frame
   gap   : 0 .. QuietCap, \* history: the shortest time between two of them
                          \* since the PDO was started or made valid
   idle  : BOOLEAN] \* history: has the type changed since the timer was set

Receive ==
  [on     : BOOLEAN,
   comm   : CommR,
   wait   : Value,   \* the frame that waits for SYNC, 0: none
   short  : BOOLEAN, \* is it shorter than the mapping
   swnd   : BOOLEAN, \* has the synchronous window expired
   window : -1 .. Window, \* ticks until it expires, or -1
   timer  : {-1} \union Nat, \* ticks until the deadline, or -1
   before : Value,   \* history: frames received before the last SYNC
   retyped : BOOLEAN] \* history: has the type changed since the last SYNC
                      \* after which no frame waited

-----------------------------------------------------------------------------
(* The Transmit-PDO: handlers map its record t                             *)

EventDriven(trans) == trans >= 254

\* co_tpdo_init_timer_event
InitTimerT(t) ==
  [t EXCEPT !.idle = FALSE, !.timer =
     IF t.comm.cobid.valid /\ EventDriven(t.comm.trans) /\ t.comm.event # 0
     THEN t.comm.event ELSE -1]

\* What may fail: reading the mapped object, or sending.
Fault == {"no", "map", "send"}

\* co_tpdo_init_frame
InitFrame(t, fault) == [t EXCEPT !.msg = IF fault = "map" THEN Empty ELSE obj]

\* The frame is sent, and the inhibit time and the event timer begin.
FrameSent(t) ==
  InitTimerT([t EXCEPT !.left = t.comm.inhibit, !.quiet = 0,
                       !.gap = IF t.quiet < @ THEN t.quiet ELSE @])

\* Mutant: the inhibit time is not waited for.
SendEventAtOnce(t, fault) ==
  LET u == InitFrame([t EXCEPT !.left = 0], fault)
  IN  [ok |-> fault = "no", t |-> IF fault = "no" THEN FrameSent(u) ELSE u]

\* co_tpdo_event when the type is event-driven; what fails does not begin a new
\* inhibit time.
SendEvent(t, fault) ==
  LET u == InitFrame([t EXCEPT !.left = 0], fault)
  IN  IF t.comm.inhibit # 0 /\ t.left # 0 THEN [ok |-> FALSE, t |-> t]
      ELSE [ok |-> fault = "no", t |-> IF fault = "no" THEN FrameSent(u) ELSE u]

\* co_tpdo_event
EventOf(t, fault) ==
  LET trans == t.comm.trans
      u     == InitFrame(t, fault)
  IN  IF ~t.on \/ ~t.comm.cobid.valid THEN [ok |-> TRUE, t |-> t]
      ELSE CASE trans = 0 ->
                  [ok |-> TRUE, t |-> InitTimerT([t EXCEPT !.pend = TRUE])]
             [] trans = RtrEvent ->
                  [ok |-> fault # "map",
                   t  |-> IF fault = "map" THEN u ELSE InitTimerT(u)]
             [] EventDriven(trans) -> SendEvent(t, fault)
             [] OTHER -> [ok |-> TRUE, t |-> t]

\* Mutant: the timer is not restarted after a failure.
FiredOnce(t, fault) == EventOf([t EXCEPT !.timer = -1], fault).t

\* co_tpdo_timer_event; the timer has stopped.
Fired(t, fault) ==
  LET e == EventOf([t EXCEPT !.timer = -1], fault)
  IN  IF e.ok THEN e.t ELSE InitTimerT(e.t)

\* The counter of a SYNC is not the one that the service waits for.
AwaitsStart(t, cnt) == t.sync # 0 /\ cnt # 0 /\ t.sync # cnt

\* co_tpdo_sync up to the sampling: is a frame due?  It does not ask whether the
\* service is started.
SyncedT(t, cnt) ==
  LET trans == t.comm.trans
      u == IF t.sync # 0 /\ cnt # 0 THEN [t EXCEPT !.sync = 0, !.cnt = 0] ELSE t
  IN  IF ~t.comm.cobid.valid \/ (trans > 240 /\ trans # RtrSync)
         \/ AwaitsStart(t, cnt)
      THEN [due |-> FALSE, t |-> t]
      ELSE CASE trans = 0 -> [due |-> u.pend, t |-> [u EXCEPT !.pend = FALSE]]
             [] trans \in 1 .. 240 ->
                  IF u.cnt + 1 < trans
                  THEN [due |-> FALSE, t |-> [u EXCEPT !.cnt = @ + 1]]
                  ELSE [due |-> TRUE, t |-> [u EXCEPT !.cnt = 0]]
             [] OTHER -> [due |-> TRUE, t |-> u]

-----------------------------------------------------------------------------
(* The Receive-PDO: handlers map its record r                              *)

\* co_rpdo_init_timer_event
InitTimerR(r) ==
  [r EXCEPT !.timer =
     IF r.comm.cobid.valid /\ r.comm.event # 0 THEN r.comm.event ELSE -1]

\* co_rpdo_sync up to the reading of the waiting frame: is one due?
SyncedR(r) ==
  IF ~r.comm.cobid.valid \/ r.comm.trans > 240 THEN [due |-> FALSE, r |-> r]
  ELSE [due |-> r.wait # 0,
        r |-> [r EXCEPT !.wait = 0, !.short = FALSE, !.swnd = FALSE,
                        !.window = IF Window = 0 THEN -1 ELSE Window]]

-----------------------------------------------------------------------------
(* NMT and SYNC                                                            *)

Change ==
  /\ changes < MaxChange
  /\ changes' = changes + 1

\* The node enters START: co_rpdo_start, then co_tpdo_start.
Start ==
  /\ Change
  /\ ~tpdo.on
  /\ rpdo' = [rpdo EXCEPT !.on = TRUE, !.comm = odR, !.wait = 0,
                          !.short = FALSE, !.swnd = FALSE, !.retyped = TRUE]
  /\ tpdo' = InitTimerT([tpdo EXCEPT !.on = TRUE, !.comm = odT, !.pend = FALSE,
                                     !.left = 0, !.sync = odT.start, !.cnt = 0,
                                     !.quiet = QuietCap, !.gap = QuietCap])
  /\ UNCHANGED <<odT, odR, obj, got, sent>>

\* The node leaves START; a reset restores the objects.
Stop(reset) ==
  /\ Change
  /\ tpdo.on
  /\ tpdo' = [tpdo EXCEPT !.on = FALSE, !.timer = -1]
  /\ rpdo' = [rpdo EXCEPT !.on = FALSE, !.timer = -1, !.window = -1]
  /\ IF reset THEN odT' = StoredT /\ odR' = StoredR ELSE UNCHANGED <<odT, odR>>
  /\ UNCHANGED <<obj, got, sent>>

\* Mutant: the Receive-PDO comes first.
SyncReversed(cnt, fault) ==
  LET s == SyncedT(tpdo, cnt)
      r == SyncedR(rpdo)
      read == IF r.due /\ ~rpdo.short THEN rpdo.wait ELSE obj
  IN  /\ obj' = read
      /\ tpdo' = IF ~s.due THEN s.t
                 ELSE [s.t EXCEPT !.msg = IF fault = "map" THEN Empty ELSE read]
      /\ sent' = IF s.due /\ fault = "no" /\ tpdo.comm.trans # RtrSync
                 THEN read ELSE sent
      /\ rpdo' = [r.r EXCEPT !.before = got,
                             !.retyped = rpdo.retyped /\ r.r.wait # 0]
      /\ UNCHANGED <<odT, odR, got, changes>>

\* co_nmt_on_sync: the frame of the Transmit-PDO first, then the waiting frame is
\* read unless it is too short.  In PREOP the services are reached, too.
Sync(cnt, fault) ==
  LET s == SyncedT(tpdo, cnt)
      r == SyncedR(rpdo)
  IN  /\ tpdo' = IF s.due THEN InitFrame(s.t, fault) ELSE s.t
      /\ sent' = IF s.due /\ fault = "no" /\ tpdo.comm.trans # RtrSync
                 THEN obj ELSE sent
      /\ obj' = IF r.due /\ ~rpdo.short THEN rpdo.wait ELSE obj
      /\ rpdo' = [r.r EXCEPT !.before = got,
                             !.retyped = rpdo.retyped /\ r.r.wait # 0]
      /\ UNCHANGED <<odT, odR, got, changes>>

\* co_tpdo_timer_swnd does nothing when the sampling is synchronous;
\* co_rpdo_timer_swnd
WindowExpires ==
  /\ rpdo.window = 0
  /\ rpdo' = [rpdo EXCEPT !.window = -1, !.swnd = TRUE]
  /\ UNCHANGED <<odT, odR, tpdo, obj, got, sent, changes>>

-----------------------------------------------------------------------------
(* Events and frames                                                       *)

\* co_nmt_on_tpdo_event, whose result nobody looks at
Event(fault) ==
  /\ tpdo' = EventOf(tpdo, fault).t
  /\ UNCHANGED <<odT, odR, rpdo, obj, got, sent, changes>>

TimerEvent(fault) ==
  /\ tpdo.timer = 0
  /\ tpdo' = Fired(tpdo, fault)
  /\ UNCHANGED <<odT, odR, rpdo, obj, got, sent, changes>>

\* co_tpdo_recv: a remote request, received if the PDO allows it; type 252 sends
\* what is buffered, type 253 samples.
Request(fault) ==
  /\ tpdo.on /\ tpdo.comm.cobid.valid /\ tpdo.comm.cobid.rtr
  /\ tpdo.comm.trans = RtrEvent
  /\ tpdo' = InitFrame(tpdo, fault)
  /\ UNCHANGED <<odT, odR, rpdo, obj, got, sent, changes>>

\* co_rpdo_recv: a frame, shorter than the mapping or not.
Recv(short) ==
  /\ got < MaxFrame
  /\ rpdo.on /\ rpdo.comm.cobid.valid
  /\ got' = got + 1
  /\ LET r == InitTimerR(rpdo) IN
     IF EventDriven(r.comm.trans)
     THEN rpdo' = r /\ obj' = IF short THEN obj ELSE got'
     ELSE /\ rpdo' = IF r.swnd THEN r
                     ELSE [r EXCEPT !.wait = got', !.short = short]
          /\ UNCHANGED obj
  /\ UNCHANGED <<odT, odR, tpdo, sent, changes>>

\* co_rpdo_timer_event: error 8250 is told.
Deadline ==
  /\ rpdo.timer = 0
  /\ rpdo' = [rpdo EXCEPT !.timer = -1]
  /\ UNCHANGED <<odT, odR, tpdo, obj, got, sent, changes>>

\* Mutant: a stopped timer goes on.
ElapsedAlways(n) == n - 1

Elapsed(n) == IF n > 0 THEN n - 1 ELSE n

Tick ==
  /\ tpdo.timer # 0 /\ rpdo.timer # 0 /\ rpdo.window # 0
  /\ tpdo' = [tpdo EXCEPT !.left = Elapsed(@), !.timer = Elapsed(@),
                          !.quiet = IF @ < QuietCap THEN @ + 1 ELSE @]
  /\ rpdo' = [rpdo EXCEPT !.timer = Elapsed(@), !.window = Elapsed(@)]
  /\ UNCHANGED <<odT, odR, obj, got, sent, changes>>

-----------------------------------------------------------------------------
(* Writes of the parameters                                                *)

\* 1800:01: a PDO that becomes valid starts anew, and the buffer is emptied.
RenamedT(t, c) ==
  LET u == IF c.valid /\ ~t.comm.cobid.valid
           THEN [t EXCEPT !.left = 0, !.sync = t.comm.start, !.cnt = 0,
                          !.quiet = QuietCap, !.gap = QuietCap]
           ELSE t
  IN  InitTimerT([u EXCEPT !.comm.cobid = c, !.msg = None, !.pend = FALSE])

\* co_1800_dn_ind: the object becomes o and the service t, if it is started.
WriteT(o, t) ==
  /\ Change
  /\ o # odT
  /\ odT' = o
  /\ tpdo' = IF tpdo.on THEN t ELSE tpdo
  /\ UNCHANGED <<odR, rpdo, obj, got, sent>>

\* The event timer is left alone when the type changes; the inhibit time and the
\* start value change only while the PDO is invalid.
WriteTransmit ==
  LET comm == tpdo.comm
      Free == tpdo.on => ~comm.cobid.valid IN
  \/ \E c \in Cobids : WriteT([odT EXCEPT !.cobid = c], RenamedT(tpdo, c))
  \/ \E v \in TransT :
       /\ tpdo.on /\ v \in {RtrSync, RtrEvent} => comm.cobid.rtr
       /\ WriteT([odT EXCEPT !.trans = v],
                 [tpdo EXCEPT !.comm.trans = v, !.idle = TRUE])
  \/ \E v \in Inhibits :
       Free /\ WriteT([odT EXCEPT !.inhibit = v], [tpdo EXCEPT !.comm.inhibit = v])
  \/ \E v \in Events :
       WriteT([odT EXCEPT !.event = v],
              InitTimerT([tpdo EXCEPT !.comm.event = v]))
  \/ \E v \in Starts :
       Free /\ WriteT([odT EXCEPT !.start = v], [tpdo EXCEPT !.comm.start = v])

\* co_1400_dn_ind
WriteR(o, r) ==
  /\ Change
  /\ o # odR
  /\ odR' = o
  /\ rpdo' = IF rpdo.on THEN r ELSE rpdo
  /\ UNCHANGED <<odT, tpdo, obj, got, sent>>

\* 1400:01
RenamedR(r, c) ==
  InitTimerR([r EXCEPT !.comm.cobid = c, !.wait = 0, !.short = FALSE,
                       !.swnd = FALSE, !.window = -1])

\* A change of the type leaves a frame that waits for SYNC.
WriteReceive ==
  \/ \E c \in Cobids : WriteR([odR EXCEPT !.cobid = c], RenamedR(rpdo, c))
  \/ \E v \in TransR :
       WriteR([odR EXCEPT !.trans = v],
              [rpdo EXCEPT !.comm.trans = v, !.retyped = TRUE])
  \/ \E v \in Events :
       WriteR([odR EXCEPT !.event = v],
              InitTimerR([rpdo EXCEPT !.comm.event = v]))

-----------------------------------------------------------------------------
(* Specification                                                           *)

\* co_tpdo_init and co_rpdo_init: until the first start the copies are zero, which
\* is a valid COB-ID.
ZeroCobid == [valid |-> TRUE, rtr |-> TRUE]

Init ==
  /\ odT = StoredT /\ odR = StoredR
  /\ tpdo = [on |-> FALSE,
             comm |-> [cobid |-> ZeroCobid, trans |-> 0, inhibit |-> 0,
                       event |-> 0, start |-> 0],
             pend |-> FALSE, sync |-> 0, cnt |-> 0, left |-> 0, timer |-> -1,
             msg |-> None, quiet |-> QuietCap, gap |-> QuietCap, idle |-> FALSE]
  /\ rpdo = [on |-> FALSE,
             comm |-> [cobid |-> ZeroCobid, trans |-> 0, event |-> 0],
             wait |-> 0, short |-> FALSE, swnd |-> FALSE, window |-> -1,
             timer |-> -1, before |-> 0, retyped |-> FALSE]
  /\ obj = 0 /\ got = 0 /\ sent = 0 /\ changes = 0

Next ==
  \/ Start
  \/ \E reset \in BOOLEAN : Stop(reset)
  \/ \E fault \in Fault :
       \/ \E cnt \in 0 .. SyncMax : Sync(cnt, fault)
       \/ Event(fault)
       \/ TimerEvent(fault)
       \/ Request(fault)
  \/ \E short \in BOOLEAN : Recv(short)
  \/ WindowExpires
  \/ Deadline
  \/ WriteTransmit
  \/ WriteReceive
  \/ Tick

Spec == Init /\ [][Next]_vars

-----------------------------------------------------------------------------
(* Properties                                                              *)

\* The states of the services and the objects.
TypeOK ==
  /\ odT \in CommT /\ odR \in CommR
  /\ tpdo \in Transmit /\ rpdo \in Receive
  /\ obj \in Value /\ got \in Value /\ sent \in Value
  /\ changes \in 0 .. MaxChange

\* Two event-driven frames, sent for the application or by the event timer, are
\* apart by the inhibit time as long as the PDO is neither stopped nor made
\* invalid in between, whatever fails and whichever type it has meanwhile.
InhibitKept ==
  tpdo.on /\ tpdo.comm.cobid.valid /\ tpdo.comm.inhibit <= QuietCap
    => tpdo.gap >= tpdo.comm.inhibit

\* An event-driven PDO with an event time always has its timer running, after a
\* failure or a refusal, too: so it is never silent for longer.  A change of the
\* type alone does not start the timer (co_tpdo.c:683).
EventTimerRuns ==
  /\ tpdo.on /\ tpdo.comm.cobid.valid /\ EventDriven(tpdo.comm.trans)
  /\ tpdo.comm.event # 0 /\ ~tpdo.idle
  => tpdo.timer \in 0 .. tpdo.comm.event

\* With a synchronous Receive-PDO the node sends upon a SYNC nothing that it has
\* received since the SYNC before (co_nmt.c:1350), and a frame that waited never
\* replaces a newer value; a change of the type spoils both (co_rpdo.c:537).
SyncSeparates ==
  [][\A cnt \in 0 .. SyncMax, fault \in Fault :
       Sync(cnt, fault) /\ rpdo.comm.trans <= 240 /\ ~rpdo.retyped
       => /\ sent' # sent => sent' <= rpdo.before
          /\ obj' >= obj]_vars
=============================================================================
