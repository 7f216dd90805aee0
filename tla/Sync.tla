-------------------------------- MODULE Sync --------------------------------
(* The SYNC service of co_sync.c on the nodes of a CAN bus, with the parts of *)
(* co_nmt_srv.c and can_net.c that start, stop and time it.                   *)
(*                                                                            *)
(* A node that has bit 30 of 1005 set and a nonzero period 1006 produces      *)
(* SYNC, the others consume it.  The service works with copies of 1005, 1006  *)
(* and 1019 that it takes when it starts and when an SDO client writes one of *)
(* them; the application writes the objects only (1006 in clock units here).  *)
(*                                                                            *)
(* A length error goes to the EMCY service, which is not part of this model.  *)
EXTENDS Naturals, Sequences

CONSTANTS
  Node,
  CanId,        \* the CAN-IDs in use
  BaseId,       \* those of 11 bits
  Stored,       \* 1005, 1006 and 1019 in the concise DCF of each node
  CobidValues,  \* the values written to 1005 of a node
  PeriodValues, \* the values written to 1006
  MaxValues,    \* the values written to 1019
  LocalObjects, \* those of them that the application of a node writes
  MaxCount,     \* the largest counter overflow value, 240 in the code
  Cycle,        \* a common multiple of the periods
  TickMax,      \* the longest time between two ticks of a node
  MaxRx         \* bound: receive-queue length at which time waits for the bus

Object  == {"cobid", "us", "max"}
Cobid   == [gen : BOOLEAN, ext : BOOLEAN, can : CanId]
Objects == [cobid : Cobid, us : 0 .. Cycle, max : Nat]

ASSUME IdAssumption ==
  BaseId \subseteq CanId /\ BaseId # {} /\ "none" \notin CanId
ASSUME ObjectAssumption ==
  /\ Stored \in [Node -> Objects]
  /\ CobidValues \in [Node -> SUBSET Cobid]
  /\ PeriodValues \in [Node -> SUBSET (0 .. Cycle)]
  /\ MaxValues \subseteq Nat
  /\ LocalObjects \in [Node -> SUBSET Object]
ASSUME TimeAssumption ==
  /\ Cycle \in Nat \ {0}
  /\ \A n \in Node : \A us \in PeriodValues[n] \cup {Stored[n].us} :
       us # 0 => Cycle % us = 0
  /\ TickMax \in Nat \ {0}
  /\ MaxCount \in Nat \ {0}
  /\ MaxRx \in Nat

\* The values that SDO clients and the application write.
Written(n) ==
  [cobid |-> CobidValues[n], us |-> PeriodValues[n], max |-> MaxValues]

VARIABLES
  sync, \* the record of each node's SYNC service and its objects
  rx    \* the SYNC frames on their way to each node, in bus order

vars == <<sync, rx>>

\* An identifier that no frame has, and a counter that nobody has seen.
NoId   == [ext |-> FALSE, can |-> "none"]
Unseen == [known |-> FALSE, cnt |-> 0]
Id     == [ext : BOOLEAN, can : CanId]
SyncFrame == [id : Id, cnt : Nat]

SyncState ==
  [mode  : {"off", "created", "on", "stop"}, \* on: ~sync->stopped
   od    : Objects,              \* 1005, 1006 and 1019 as they are now
   cobid : Cobid,                \* sync->cobid, us and max_cnt
   us    : 0 .. Cycle,
   max   : Nat,
   cnt   : Nat,                  \* sync->cnt
   recv  : Id \cup {NoId},       \* the identifier the receiver listens to
   left  : 0 .. Cycle,           \* time until sync->timer is due, 0: stopped
   phase : 0 .. Cycle - 1,       \* the time of can_net, modulo Cycle
   stale : SUBSET Object,        \* history: objects the application has
                                 \* written since the service copied them
   seen  : [known : BOOLEAN, cnt : Nat]]  \* history: the counter of which a
                                 \* received SYNC told the application last

-----------------------------------------------------------------------------
(* The service                                                             *)

IdOf(cobid) == [ext |-> cobid.ext, can |-> cobid.can]

\* Mutants: the timer restarts without regard to the clock; only with the
\* producer bit set anew; the counter goes on.
UpdateUnaligned(r) ==
  [r EXCEPT !.recv = IF r.cobid.gen THEN NoId ELSE IdOf(r.cobid),
            !.left = IF r.cobid.gen THEN r.us ELSE 0,
            !.cnt = 1, !.seen = Unseen]
UpdateReceiver(r) ==
  [r EXCEPT !.recv = IF r.cobid.gen THEN NoId ELSE IdOf(r.cobid),
            !.left = IF r.cobid.gen THEN @ ELSE 0,
            !.cnt = 1, !.seen = Unseen]
UpdateCounting(r) ==
  [r EXCEPT !.recv = IF r.cobid.gen THEN NoId ELSE IdOf(r.cobid),
            !.left = IF r.cobid.gen /\ r.us # 0 THEN r.us - (r.phase % r.us) ELSE 0,
            !.seen = Unseen]

\* co_sync_update: the first SYNC is due at the next multiple of the period.
Update(r) ==
  [r EXCEPT !.recv = IF r.cobid.gen THEN NoId ELSE IdOf(r.cobid),
            !.left = IF r.cobid.gen /\ r.us # 0 THEN r.us - (r.phase % r.us) ELSE 0,
            !.cnt = 1,
            !.seen = Unseen]

\* Mutant: the period is taken over only when it is written.
SyncStartOld(r) ==
  IF r.mode = "on" THEN r
  ELSE Update([r EXCEPT !.mode = "on", !.cobid = r.od.cobid,
                        !.max = r.od.max, !.stale = {}])

SyncStart(r) ==
  IF r.mode = "on" THEN r
  ELSE Update([r EXCEPT !.mode = "on", !.cobid = r.od.cobid, !.us = r.od.us,
                        !.max = r.od.max, !.stale = {}])

\* co_sync_stop leaves the receiver and the timer as they are.
SyncStop(r) == IF r.mode = "on" THEN [r EXCEPT !.mode = "stop"] ELSE r

\* The counter after k frames.
CntAfter(cnt, max, k) == IF max = 0 THEN cnt ELSE ((cnt - 1 + k) % max) + 1

\* Mutant: a late tick sends one frame less.
OwedShort(r, d) == IF r.left = 0 \/ r.left > d THEN 0 ELSE (d - r.left) \div r.us

\* The SYNC frames a node owes when its clock advances by d.
Owed(r, d) == IF r.left = 0 \/ r.left > d THEN 0 ELSE ((d - r.left) \div r.us) + 1

FramesOf(r, k) ==
  [i \in 1 .. k |-> [id |-> IdOf(r.cobid),
                     cnt |-> IF r.max = 0 THEN 0 ELSE CntAfter(r.cnt, r.max, i - 1)]]

\* co_sync_recv: a frame whose length contradicts 1019 counts as without one.
SyncRecv(r, f) ==
  IF f.id # r.recv THEN r
  ELSE [r EXCEPT !.seen = [known |-> TRUE,
                           cnt |-> IF r.max = 0 THEN 0 ELSE f.cnt]]

-----------------------------------------------------------------------------
(* The actions                                                             *)

On(n) == sync[n].mode # "off"

Set(n, r) == sync' = [sync EXCEPT ![n] = r] /\ UNCHANGED rx

Off ==
  [mode |-> "off", od |-> [cobid |-> [gen |-> FALSE, ext |-> FALSE,
                                      can |-> CHOOSE c \in BaseId : TRUE],
                           us |-> 0, max |-> 0],
   cobid |-> [gen |-> FALSE, ext |-> FALSE, can |-> CHOOSE c \in BaseId : TRUE],
   us |-> 0, max |-> 0, cnt |-> 1, recv |-> NoId, left |-> 0, phase |-> 0,
   stale |-> {}, seen |-> Unseen]

\* co_sync_init, in the initialization of the component; the clock of a node
\* has an offset of its own.
Create(n, phase) ==
  /\ ~On(n)
  /\ Set(n, [Off EXCEPT !.mode = "created", !.od = Stored[n], !.phase = phase])

\* A communication reset of a node with a node-ID stops the service, restores
\* the objects, and runs on into the pre-operational state, which starts it.
Reset(n) ==
  /\ On(n)
  /\ Set(n, SyncStart([SyncStop(sync[n]) EXCEPT !.od = Stored[n]]))

\* NMT stop and the return from it.
EnterStop(n) ==
  /\ sync[n].mode = "on"
  /\ Set(n, SyncStop(sync[n]))

LeaveStop(n) ==
  /\ sync[n].mode = "stop"
  /\ Set(n, SyncStart(sync[n]))

Write1005(n, v) ==
  /\ sync[n].mode = "on"
  /\ LET old == sync[n].od.cobid IN
       /\ v # old
       /\ v.gen /\ old.gen => v.can = old.can
       /\ v.ext \/ v.can \in BaseId
  /\ Set(n, Update([sync[n] EXCEPT !.od.cobid = v, !.cobid = v,
                                   !.stale = @ \ {"cobid"}]))

Write1006(n, us) ==
  /\ sync[n].mode = "on"
  /\ us # sync[n].od.us
  /\ Set(n, Update([sync[n] EXCEPT !.od.us = us, !.us = us,
                                   !.stale = @ \ {"us"}]))

\* Mutant: a running producer takes a new overflow value and counts on.
Write1019Running(n, max) ==
  /\ sync[n].mode = "on"
  /\ max # sync[n].od.max /\ max # 1 /\ max <= MaxCount
  /\ Set(n, [sync[n] EXCEPT !.od.max = max, !.max = max, !.stale = @ \ {"max"}])

Write1019(n, max) ==
  /\ sync[n].mode = "on"
  /\ max # sync[n].od.max
  /\ sync[n].us = 0
  /\ max # 1 /\ max <= MaxCount
  /\ Set(n, Update([sync[n] EXCEPT !.od.max = max, !.max = max,
                                   !.stale = @ \ {"max"}]))

\* The application's set_object_dictionary_data: past the SYNC service.
LocalWrite(n, object, v) ==
  /\ On(n)
  /\ Set(n, [sync[n] EXCEPT !.od[object] = v, !.stale = @ \cup {object}])

\* The cyclic tick: can_net_set_time fires co_sync_timer for each frame owed.
Tick(n, d) ==
  /\ On(n)
  /\ \A m \in Node : Len(rx[m]) < MaxRx
  /\ LET r == sync[n]
         k == Owed(r, d)
     IN /\ sync' = [sync EXCEPT ![n] = [r EXCEPT
             !.phase = (@ + d) % Cycle,
             !.left = IF r.left = 0 THEN 0 ELSE @ + k * r.us - d,
             !.cnt = CntAfter(@, r.max, k)]]
        /\ rx' = [m \in Node |-> IF m # n /\ On(m)
                                 THEN rx[m] \o FramesOf(r, k) ELSE rx[m]]

Receive(n) ==
  /\ On(n)
  /\ rx[n] # <<>>
  /\ sync' = [sync EXCEPT ![n] = SyncRecv(@, Head(rx[n]))]
  /\ rx' = [rx EXCEPT ![n] = Tail(@)]

\* External: a node loses power.
Crash(n) ==
  /\ On(n)
  /\ sync' = [sync EXCEPT ![n] = Off]
  /\ rx' = [rx EXCEPT ![n] = <<>>]

-----------------------------------------------------------------------------
(* Specification                                                           *)

Init ==
  /\ sync = [n \in Node |-> Off]
  /\ rx = [n \in Node |-> <<>>]

Ticks(n) == \E d \in 1 .. TickMax : Tick(n, d)

NodeStep(n) ==
  \/ \E phase \in 0 .. Cycle - 1 : Create(n, phase)
  \/ Reset(n)
  \/ EnterStop(n)
  \/ LeaveStop(n)
  \/ \E v \in CobidValues[n] : Write1005(n, v)
  \/ \E us \in PeriodValues[n] : Write1006(n, us)
  \/ \E max \in MaxValues : Write1019(n, max)
  \/ \E object \in LocalObjects[n] : \E v \in Written(n)[object] :
       LocalWrite(n, object, v)
  \/ Ticks(n)
  \/ Receive(n)
  \/ Crash(n)

Next == \E n \in Node : NodeStep(n)

\* The scheduler calls tick cyclically and the driver hands over every frame.
Spec ==
  /\ Init /\ [][Next]_vars
  /\ \A n \in Node : WF_vars(Ticks(n)) /\ WF_vars(Receive(n))

-----------------------------------------------------------------------------
(* Properties                                                              *)

TypeOK ==
  /\ sync \in [Node -> SyncState]
  /\ rx \in [Node -> Seq(SyncFrame)]

Producing(r) == r.cobid.gen /\ r.us # 0

\* A running service works with the objects as they are, except those its own
\* application wrote since: over resets, stops and SDO writes in every order the
\* copies of co_sync.c, its timer and its receiver never lag behind.
ServiceFollowsObjects ==
  \A n \in Node : LET r == sync[n] IN
    r.mode = "on" =>
      /\ "cobid" \in r.stale \/ r.cobid = r.od.cobid
      /\ "us" \in r.stale \/ r.us = r.od.us
      /\ "max" \in r.stale \/ r.max = r.od.max
      /\ r.left # 0 <=> Producing(r)
      /\ r.recv = IF r.cobid.gen THEN NoId ELSE IdOf(r.cobid)

\* SYNC is due at the multiples of the period only (co_sync.c:335), whatever
\* the ticks and however often the period changed.
Aligned ==
  \A n \in Node : LET r == sync[n] IN r.left # 0 => (r.phase + r.left) % r.us = 0

\* The counter of a producer lies within 1019, so that no frame carries one
\* that a consumer with the same 1019 does not expect.
CounterInRange ==
  \A n \in Node : LET r == sync[n] IN
    r.cnt >= 1 /\ (r.cnt = 1 \/ r.cnt <= r.max)

\* With one producer on a lossless bus no consumer sees a counter skip: it goes
\* up by one or starts again.
NoSkippedCounter ==
  [][\A n \in Node :
       sync[n].seen.known /\ sync'[n].seen.known =>
         sync'[n].seen.cnt \in {0, 1, sync[n].seen.cnt, sync[n].seen.cnt + 1}]_vars

Listening(p, c) ==
  /\ sync[p].mode = "on" /\ Producing(sync[p])
  /\ sync[c].mode = "on" /\ sync[c].recv = IdOf(sync[p].cobid)

\* A consumer that listens to a producer's identifier is eventually told of a
\* SYNC, unless one of the two is configured anew, stopped or switched off.
SyncArrives ==
  \A p, c \in Node :
    Listening(p, c) ~> (~Listening(p, c) \/ sync[c].seen.known)

\* "Disable all services (except LSS)." (co_nmt.c:3463): no tick of a node that
\* was stopped sends a SYNC.
SilentWhenStopped ==
  [][\A n \in Node, d \in 1 .. TickMax :
       sync[n].mode = "stop" /\ Tick(n, d) => Owed(sync[n], d) = 0]_vars
=============================================================================
