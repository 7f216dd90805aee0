----------------------------- MODULE SyncProofs -----------------------------
(* The safety of Sync for every set of nodes, identifiers, periods and        *)
(* overflow values, every length of a tick and every order of writes.         *)
EXTENDS Sync, Integers, TLAPS

\* A period that the clock's cycle is a multiple of.
Divides(us) == us = 0 \/ Cycle % us = 0

\* What holds of the copies while the service runs.
Copied(r) ==
  r.mode = "on" =>
    /\ "cobid" \in r.stale \/ r.cobid = r.od.cobid
    /\ "us" \in r.stale \/ r.us = r.od.us
    /\ "max" \in r.stale \/ r.max = r.od.max

\* The timer runs exactly for a producer and is due at a multiple of its period.
Timed(r) ==
  /\ r.left # 0 <=> Producing(r)
  /\ r.left # 0 => (r.phase + r.left) % r.us = 0

Counting(r) == r.cnt >= 1 /\ (r.cnt = 1 \/ r.cnt <= r.max)

Received(r) ==
  r.mode = "on" => r.recv = IF r.cobid.gen THEN NoId ELSE IdOf(r.cobid)

Works(r) ==
  /\ Divides(r.us) /\ Divides(r.od.us)
  /\ Copied(r) /\ Timed(r) /\ Counting(r) /\ Received(r)

SInv == TypeOK /\ \A n \in Node : Works(sync[n])

-----------------------------------------------------------------------------
(* The clock                                                               *)

LEMMA Division ==
  ASSUME NEW a \in Nat, NEW b \in Nat \ {0}
  PROVE  /\ a % b \in 0 .. b - 1
         /\ a \div b \in Nat
         /\ a = ((a \div b) * b) + (a % b)
<1>1. a % b \in 0 .. b - 1
  BY SMT
<1>2. a \div b \in Nat
  BY SMT
<1>3. a = ((a \div b) * b) + (a % b)
  BY SMT
<1>4. QED
  BY <1>1, <1>2, <1>3

LEMMA MultipleOf ==
  ASSUME NEW q \in Int, NEW b \in Nat \ {0}
  PROVE  (q * b) % b = 0
BY SMT

\* The next multiple of b after a.
LEMMA NextMultiple ==
  ASSUME NEW a \in Nat, NEW b \in Nat \ {0}
  PROVE  /\ b - (a % b) \in 1 .. b
         /\ (a + (b - (a % b))) % b = 0
<1>1. b - (a % b) \in 1 .. b
  BY Division
<1>2. a + (b - (a % b)) = ((a \div b) + 1) * b
  BY Division, SMT
<1>3. (a \div b) + 1 \in Int
  BY Division
<1>4. (((a \div b) + 1) * b) % b = 0
  BY <1>3, MultipleOf
<1>5. QED
  BY <1>1, <1>2, <1>4, Zenon

\* The timer of a clock at a, due l later, is due at a multiple of b still after
\* the clock, which wraps around at c, advanced by d and the timer by k periods.
StaysMultiple(a, l, d, k, b, c) ==
  (((a + d) % c) + (l + k * b - d)) % b = 0

\* Whole periods do not move a multiple of b, nor does wrapping around a
\* multiple of b.
LEMMA SameMultiple ==
  ASSUME NEW a \in Nat, NEW l \in Int, NEW d \in Nat, NEW k \in Nat,
         NEW b \in Nat \ {0}, NEW c \in Nat \ {0},
         c % b = 0, (a + l) % b = 0
  PROVE  StaysMultiple(a, l, d, k, b, c)
<1> DEFINE q == (a + d) \div c
           e == c \div b
           f == (a + l) \div b
<1>1. (a + d) % c = a + d - q * c /\ q \in Nat
  BY SMT
<1>2. c = e * b /\ e \in Nat
  BY SMT
<1>3. a + l = f * b /\ f \in Int
  BY SMT
<1> HIDE DEF q, e, f
<1>4. q * c = (q * e) * b /\ q * e \in Int
  BY <1>1, <1>2, SMT
<1> DEFINE h == f + k - q * e
<1>5. ((a + d) % c) + (l + k * b - d) = h * b /\ h \in Int
  <2>1. h * b = f * b + k * b - (q * e) * b
    BY <1>3, <1>4, SMT
  <2>2. QED
    BY <1>1, <1>3, <1>4, <2>1, SMT
<1> HIDE DEF h
<1>6. (h * b) % b = 0
  BY <1>5, SMT
<1>7. QED
  BY <1>5, <1>6 DEF StaysMultiple

\* The frames that a late tick owes bring the timer to a time after the tick,
\* by at most one period.
LEMMA OwedCatchesUp ==
  ASSUME NEW l \in Nat \ {0}, NEW d \in Nat, NEW b \in Nat \ {0}, l <= d
  PROVE  /\ ((d - l) \div b) + 1 \in Nat
         /\ l + (((d - l) \div b) + 1) * b - d \in 1 .. b
<1> DEFINE q == (d - l) \div b
<1>1. q \in Nat /\ q * b <= d - l /\ d - l < q * b + b
  BY SMT
<1> HIDE DEF q
<1>2. (q + 1) * b = q * b + b /\ q * b \in Int
  BY <1>1, SMT
<1>3. QED
  BY <1>1, <1>2 DEF q

\* A counter stays within a nonzero overflow value.
LEMMA CntWraps ==
  ASSUME NEW cnt \in Nat, cnt >= 1, NEW max \in Nat, NEW k \in Nat
  PROVE  /\ CntAfter(cnt, max, k) \in Nat
         /\ max = 0 => CntAfter(cnt, max, k) = cnt
         /\ max # 0 => CntAfter(cnt, max, k) \in 1 .. max
<1>1. CASE max = 0
  BY <1>1 DEF CntAfter
<1>2. CASE max # 0
  <2>1. (cnt - 1 + k) % max \in 0 .. max - 1
    BY <1>2, SMT
  <2>2. QED
    BY <1>2, <2>1 DEF CntAfter
<1>3. QED
  BY <1>1, <1>2

-----------------------------------------------------------------------------
(* The operators of the service                                            *)

LEMMA Typed ==
  /\ Cycle \in Nat \ {0}
  /\ NoId \in Id \cup {NoId}
  /\ \A c \in Cobid : IdOf(c) \in Id
  /\ Unseen \in [known : BOOLEAN, cnt : Nat]
BY TimeAssumption DEF IdOf, Cobid, Id, Unseen

\* co_sync_update makes timer, receiver and counter those of the copies.
LEMMA UpdateWorks ==
  ASSUME NEW r \in SyncState, Divides(r.us), Divides(r.od.us), Copied(r)
  PROVE  Update(r) \in SyncState /\ Works(Update(r))
<1> DEFINE left == IF r.cobid.gen /\ r.us # 0 THEN r.us - (r.phase % r.us) ELSE 0
           recv == IF r.cobid.gen THEN NoId ELSE IdOf(r.cobid)
<1>1. r.us \in 0 .. Cycle /\ r.phase \in Nat /\ r.us \in Nat
      /\ r.cobid \in Cobid /\ r.cobid.gen \in BOOLEAN
  BY Typed DEF SyncState, Cobid
<1>2. /\ left \in 0 .. Cycle
      /\ left # 0 <=> Producing(r)
      /\ left # 0 => (r.phase + left) % r.us = 0
  <2>1. CASE r.cobid.gen /\ r.us # 0
    <3>1. left = r.us - (r.phase % r.us)
      BY <2>1
    <3>2. left \in 1 .. r.us /\ (r.phase + left) % r.us = 0
      BY <3>1, <2>1, <1>1, NextMultiple
    <3> HIDE DEF left
    <3>3. QED
      BY <3>2, <2>1, <1>1, Typed DEF Producing
  <2>2. CASE ~(r.cobid.gen /\ r.us # 0)
    BY <2>2, <1>1, Typed DEF Producing
  <2>3. QED
    BY <2>1, <2>2
<1>3. recv \in Id \cup {NoId}
  BY <1>1, Typed
<1>4. Update(r) = [r EXCEPT !.recv = recv, !.left = left, !.cnt = 1,
                            !.seen = Unseen]
  BY DEF Update
<1> HIDE DEF left, recv
<1>5. Update(r) \in SyncState
  <2>1. left \in 0 .. Cycle /\ 1 \in Nat
        /\ Unseen \in [known : BOOLEAN, cnt : Nat]
    BY <1>2, Typed
  <2>2. QED
    BY <2>1, <1>3, <1>4 DEF SyncState
<1>6. /\ Update(r).recv = recv /\ Update(r).left = left /\ Update(r).cnt = 1
      /\ Update(r).phase = r.phase /\ Update(r).us = r.us /\ Update(r).od = r.od
      /\ Update(r).cobid = r.cobid /\ Update(r).max = r.max
      /\ Update(r).mode = r.mode /\ Update(r).stale = r.stale
  BY <1>4 DEF SyncState
<1>7. Timed(Update(r))
  BY <1>2, <1>6 DEF Timed, Producing
<1>8. Received(Update(r))
  BY <1>6 DEF Received, recv
<1>9. QED
  BY <1>5, <1>6, <1>7, <1>8 DEF Works, Copied, Counting

\* A service starts with the objects as they are.
LEMMA StartWorks ==
  ASSUME NEW r \in SyncState, r.mode # "on", Divides(r.od.us)
  PROVE  SyncStart(r) \in SyncState /\ Works(SyncStart(r))
<1> DEFINE q == [r EXCEPT !.mode = "on", !.cobid = r.od.cobid, !.us = r.od.us,
                          !.max = r.od.max, !.stale = {}]
<1>1. r.od.cobid \in Cobid /\ r.od.us \in 0 .. Cycle /\ r.od.max \in Nat
  BY DEF SyncState, Objects
<1>2. q \in SyncState /\ Divides(q.us) /\ Divides(q.od.us) /\ Copied(q)
  BY <1>1 DEF SyncState, Copied
<1>3. SyncStart(r) = Update(q)
  BY DEF SyncStart
<1>4. QED
  BY <1>2, <1>3, UpdateWorks

LEMMA StopWorks ==
  ASSUME NEW r \in SyncState, Works(r)
  PROVE  /\ SyncStop(r) \in SyncState /\ Works(SyncStop(r))
         /\ SyncStop(r).mode # "on"
<1>1. SyncStop(r) \in SyncState /\ SyncStop(r).mode # "on"
  BY DEF SyncStop, SyncState
<1>2. Works(SyncStop(r))
  BY DEF SyncStop, SyncState, Works, Copied, Timed, Counting, Received, Producing
<1>3. QED
  BY <1>1, <1>2

LEMMA OffWorks ==
  Off \in SyncState /\ Works(Off) /\ Off.mode = "off"
<1>1. (CHOOSE c \in BaseId : TRUE) \in CanId
  BY IdAssumption
<1>2. Off \in SyncState
  BY <1>1, Typed DEF Off, SyncState, Objects, Cobid, Object
<1>3. Works(Off)
  BY DEF Off, Works, Divides, Copied, Timed, Counting, Received, Producing
<1>4. QED
  BY <1>2, <1>3 DEF Off

-----------------------------------------------------------------------------
(* The actions                                                             *)

\* What the handler of node n must leave behind.
LEMMA StepWorks ==
  ASSUME SInv, NEW n \in Node, NEW r \in SyncState, Works(r),
         sync' = [sync EXCEPT ![n] = r],
         rx' \in [Node -> Seq(SyncFrame)]
  PROVE  SInv'
<1>1. TypeOK'
  BY DEF SInv, TypeOK
<1>2. ASSUME NEW m \in Node PROVE Works(sync'[m])
  <2>1. CASE m = n
    BY <2>1 DEF SInv, TypeOK
  <2>2. CASE m # n
    BY <2>2 DEF SInv, TypeOK
  <2>3. QED
    BY <2>1, <2>2
<1>3. QED
  BY <1>1, <1>2 DEF SInv

LEMMA CreateKeeps ==
  ASSUME SInv, NEW n \in Node, NEW phase \in 0 .. Cycle - 1, Create(n, phase)
  PROVE  SInv'
<1> DEFINE r == [Off EXCEPT !.mode = "created", !.od = Stored[n], !.phase = phase]
<1>1. Stored[n] \in Objects /\ Divides(Stored[n].us)
  BY ObjectAssumption, TimeAssumption DEF Divides
<1>2. Off \in SyncState
  BY OffWorks
<1>3. r \in SyncState
  BY <1>1, <1>2 DEF SyncState
<1>4. /\ r.mode = "created" /\ r.left = 0 /\ r.us = 0 /\ r.cnt = 1
      /\ r.od = Stored[n]
  BY DEF Off
<1>5. Works(r)
  BY <1>1, <1>4 DEF Works, Divides, Copied, Timed, Counting, Received, Producing
<1>6. sync' = [sync EXCEPT ![n] = r] /\ rx' = rx
  BY DEF Create, Set
<1> HIDE DEF r
<1>7. QED
  BY <1>3, <1>5, <1>6, StepWorks DEF SInv, TypeOK

LEMMA ResetKeeps ==
  ASSUME SInv, NEW n \in Node, Reset(n)
  PROVE  SInv'
<1> DEFINE s == SyncStop(sync[n])
           q == [s EXCEPT !.od = Stored[n]]
<1>1. Stored[n] \in Objects /\ Divides(Stored[n].us)
  BY ObjectAssumption, TimeAssumption DEF Divides
<1>2. sync[n] \in SyncState /\ Works(sync[n])
  BY DEF SInv, TypeOK
<1>3. s \in SyncState /\ s.mode # "on"
  BY <1>2, StopWorks
<1>4. q \in SyncState /\ q.mode # "on" /\ q.od = Stored[n]
  BY <1>1, <1>3 DEF SyncState
<1>5. sync' = [sync EXCEPT ![n] = SyncStart(q)] /\ rx' = rx
  BY DEF Reset, Set
<1> HIDE DEF q
<1>6. SyncStart(q) \in SyncState /\ Works(SyncStart(q))
  BY <1>1, <1>4, StartWorks
<1>7. QED
  BY <1>5, <1>6, StepWorks DEF SInv, TypeOK

LEMMA StopKeeps ==
  ASSUME SInv, NEW n \in Node, EnterStop(n) \/ LeaveStop(n)
  PROVE  SInv'
<1>1. sync[n] \in SyncState /\ Works(sync[n])
  BY DEF SInv, TypeOK
<1>2. CASE EnterStop(n)
  <2>1. sync' = [sync EXCEPT ![n] = SyncStop(sync[n])] /\ rx' = rx
    BY <1>2 DEF EnterStop, Set
  <2>2. QED
    BY <2>1, <1>1, StopWorks, StepWorks DEF SInv, TypeOK
<1>3. CASE LeaveStop(n)
  <2>1. sync' = [sync EXCEPT ![n] = SyncStart(sync[n])] /\ rx' = rx
        /\ sync[n].mode # "on"
    BY <1>3 DEF LeaveStop, Set
  <2>2. Divides(sync[n].od.us)
    BY <1>1 DEF Works
  <2>3. QED
    BY <2>1, <2>2, <1>1, StartWorks, StepWorks DEF SInv, TypeOK
<1>4. QED
  BY <1>2, <1>3

\* An SDO write that a dn_ind function accepts.
LEMMA WriteKeeps ==
  ASSUME SInv, NEW n \in Node,
         \/ \E v \in CobidValues[n] : Write1005(n, v)
         \/ \E us \in PeriodValues[n] : Write1006(n, us)
         \/ \E max \in MaxValues : Write1019(n, max)
  PROVE  SInv'
<1> DEFINE r == sync[n]
<1>1. r \in SyncState /\ Works(r) /\ r.od \in Objects
  BY DEF SInv, TypeOK, SyncState
<1>2. ASSUME NEW q \in SyncState, Divides(q.us), Divides(q.od.us), Copied(q),
             Set(n, Update(q))
      PROVE  SInv'
  BY <1>2, UpdateWorks, StepWorks DEF Set, SInv, TypeOK
<1>3. ASSUME NEW v \in CobidValues[n], Write1005(n, v)
      PROVE  SInv'
  <2> DEFINE q == [r EXCEPT !.od.cobid = v, !.cobid = v, !.stale = @ \ {"cobid"}]
  <2>1. v \in Cobid
    BY ObjectAssumption
  <2>2. q \in SyncState /\ Divides(q.us) /\ Divides(q.od.us) /\ Copied(q)
    BY <2>1, <1>1 DEF SyncState, Objects, Works, Copied, Object
  <2>3. Set(n, Update(q))
    BY <1>3 DEF Write1005
  <2> HIDE DEF q
  <2>4. QED
    BY <1>2, <2>2, <2>3
<1>4. ASSUME NEW us \in PeriodValues[n], Write1006(n, us)
      PROVE  SInv'
  <2> DEFINE q == [r EXCEPT !.od.us = us, !.us = us, !.stale = @ \ {"us"}]
  <2>1. us \in 0 .. Cycle /\ Divides(us)
    BY ObjectAssumption, TimeAssumption DEF Divides
  <2>2. q \in SyncState /\ Divides(q.us) /\ Divides(q.od.us) /\ Copied(q)
    BY <2>1, <1>1 DEF SyncState, Objects, Works, Copied, Object
  <2>3. Set(n, Update(q))
    BY <1>4 DEF Write1006
  <2> HIDE DEF q
  <2>4. QED
    BY <1>2, <2>2, <2>3
<1>5. ASSUME NEW max \in MaxValues, Write1019(n, max)
      PROVE  SInv'
  <2> DEFINE q == [r EXCEPT !.od.max = max, !.max = max, !.stale = @ \ {"max"}]
  <2>1. max \in Nat
    BY ObjectAssumption
  <2>2. q \in SyncState /\ Divides(q.us) /\ Divides(q.od.us) /\ Copied(q)
    BY <2>1, <1>1 DEF SyncState, Objects, Works, Copied, Object
  <2>3. Set(n, Update(q))
    BY <1>5 DEF Write1019
  <2> HIDE DEF q
  <2>4. QED
    BY <1>2, <2>2, <2>3
<1>6. QED
  BY <1>3, <1>4, <1>5

\* The application writes an object and the copies stay as they are.
LEMMA LocalWriteKeeps ==
  ASSUME SInv, NEW n \in Node, NEW object \in LocalObjects[n],
         NEW v \in Written(n)[object], LocalWrite(n, object, v)
  PROVE  SInv'
<1> DEFINE r == sync[n]
           q == [r EXCEPT !.od[object] = v, !.stale = @ \cup {object}]
<1>1. r \in SyncState /\ Works(r) /\ r.od \in Objects /\ r.stale \in SUBSET Object
  BY DEF SInv, TypeOK, SyncState
<1>2. object \in Object
  BY ObjectAssumption
<1>3. /\ object = "cobid" => v \in Cobid
      /\ object = "us" => v \in 0 .. Cycle /\ Divides(v)
      /\ object = "max" => v \in Nat
  <2>1. /\ object = "cobid" => v \in CobidValues[n]
        /\ object = "us" => v \in PeriodValues[n]
        /\ object = "max" => v \in MaxValues
    BY DEF Written
  <2>2. QED
    BY <2>1, ObjectAssumption, TimeAssumption DEF Divides
<1>4. q \in SyncState /\ Divides(q.us) /\ Divides(q.od.us) /\ Copied(q)
  <2>1. CASE object = "cobid"
    BY <2>1, <1>1, <1>3 DEF SyncState, Objects, Works, Copied, Object
  <2>2. CASE object = "us"
    BY <2>2, <1>1, <1>3 DEF SyncState, Objects, Works, Copied, Object
  <2>3. CASE object = "max"
    BY <2>3, <1>1, <1>3 DEF SyncState, Objects, Works, Copied, Object
  <2>4. QED
    BY <2>1, <2>2, <2>3, <1>2 DEF Object
<1>5. /\ q.mode = r.mode /\ q.cobid = r.cobid /\ q.us = r.us /\ q.max = r.max
      /\ q.cnt = r.cnt /\ q.recv = r.recv /\ q.left = r.left
      /\ q.phase = r.phase
  BY <1>1 DEF SyncState
<1>6. sync' = [sync EXCEPT ![n] = q] /\ rx' = rx
  BY DEF LocalWrite, Set
<1> HIDE DEF q
<1>7. Works(q)
  BY <1>1, <1>4, <1>5 DEF Works, Timed, Counting, Received, Producing
<1>8. QED
  BY <1>4, <1>6, <1>7, StepWorks DEF SInv, TypeOK

LEMMA TickKeeps ==
  ASSUME SInv, NEW n \in Node, NEW d \in 1 .. TickMax, Tick(n, d)
  PROVE  SInv'
<1> DEFINE r == sync[n]
           k == Owed(r, d)
           left == IF r.left = 0 THEN 0 ELSE r.left + k * r.us - d
           phase == (r.phase + d) % Cycle
           cnt == CntAfter(r.cnt, r.max, k)
           q == [r EXCEPT !.phase = phase, !.left = left, !.cnt = cnt]
<1>1. r \in SyncState /\ Works(r)
  BY DEF SInv, TypeOK
<1>2. /\ r.left \in 0 .. Cycle /\ r.us \in 0 .. Cycle /\ r.phase \in 0 .. Cycle - 1
      /\ r.cnt \in Nat /\ r.max \in Nat /\ d \in Nat \ {0}
      /\ Cycle \in Nat \ {0} /\ r.cobid \in Cobid
  BY <1>1, TimeAssumption DEF SyncState
<1>3. r.left # 0 => r.us # 0 /\ Cycle % r.us = 0 /\ (r.phase + r.left) % r.us = 0
  BY <1>1 DEF Works, Timed, Producing, Divides
<1>4. k \in Nat /\ left \in 0 .. Cycle /\ (left = 0 <=> r.left = 0)
  <2>1. CASE r.left = 0
    BY <2>1, <1>2 DEF Owed
  <2>2. CASE r.left > d
    <3>1. k = 0
      BY <2>2 DEF Owed
    <3>2. left = r.left - d
      BY <3>1, <2>2, <1>2
    <3> HIDE DEF k, left
    <3>3. QED
      BY <3>1, <3>2, <2>2, <1>2
  <2>3. CASE r.left # 0 /\ r.left <= d
    <3>1. k = ((d - r.left) \div r.us) + 1
      BY <2>3, <1>2 DEF Owed
    <3>2. left = r.left + k * r.us - d
      BY <2>3
    <3> HIDE DEF k, left
    <3>3. r.left \in Nat \ {0} /\ r.us \in Nat \ {0} /\ d \in Nat
      BY <2>3, <1>2, <1>3
    <3>4. /\ ((d - r.left) \div r.us) + 1 \in Nat
          /\ r.left + (((d - r.left) \div r.us) + 1) * r.us - d \in 1 .. r.us
      BY <3>3, <2>3, OwedCatchesUp
    <3>5. k \in Nat /\ left \in 1 .. r.us
      BY <3>1, <3>2, <3>4
    <3>6. QED
      BY <3>5, <2>3, <1>2
  <2>4. QED
    BY <2>1, <2>2, <2>3, <1>2
<1>5. phase \in 0 .. Cycle - 1
  <2>1. r.phase + d \in Nat
    BY <1>2
  <2>2. QED
    BY <2>1, <1>2, Division
<1>6. cnt \in Nat /\ cnt >= 1 /\ (cnt = 1 \/ cnt <= r.max)
  <2>1. r.cnt >= 1 /\ (r.cnt = 1 \/ r.cnt <= r.max)
    BY <1>1 DEF Works, Counting
  <2> HIDE DEF k
  <2>2. /\ cnt \in Nat
        /\ r.max = 0 => cnt = r.cnt
        /\ r.max # 0 => cnt \in 1 .. r.max
    BY <2>1, <1>2, <1>4, CntWraps
  <2> HIDE DEF cnt
  <2>3. QED
    BY <2>1, <2>2, <1>2
<1>7. left # 0 => (phase + left) % r.us = 0
  <2>1. SUFFICES ASSUME r.left # 0
                 PROVE  (phase + left) % r.us = 0
    BY <1>4
  <2>2. left = r.left + k * r.us - d
    BY <2>1
  <2> HIDE DEF k, left
  <2>3. /\ r.phase \in Nat /\ r.left \in Int /\ d \in Nat /\ k \in Nat
        /\ r.us \in Nat \ {0} /\ Cycle \in Nat \ {0}
    BY <2>1, <1>2, <1>3, <1>4
  <2>4. (((r.phase + d) % Cycle) + (r.left + k * r.us - d)) % r.us = 0
    <3>1. Cycle % r.us = 0 /\ (r.phase + r.left) % r.us = 0
      BY <2>1, <1>3
    <3>2. StaysMultiple(r.phase, r.left, d, k, r.us, Cycle)
      BY <2>3, <3>1, SameMultiple
    <3>3. QED
      BY <3>2 DEF StaysMultiple
  <2>5. QED
    BY <2>2, <2>4
<1>8. sync' = [sync EXCEPT ![n] = q]
  BY DEF Tick
<1>9. rx' \in [Node -> Seq(SyncFrame)]
  <2>1. FramesOf(r, k) \in Seq(SyncFrame)
    <3> HIDE DEF k
    <3>1. ASSUME NEW i \in 1 .. k
          PROVE  [id |-> IdOf(r.cobid),
                  cnt |-> IF r.max = 0 THEN 0 ELSE CntAfter(r.cnt, r.max, i - 1)]
                 \in SyncFrame
      <4>1. i - 1 \in Nat /\ r.cnt >= 1
        BY <1>1, <1>4 DEF Works, Counting
      <4>2. CntAfter(r.cnt, r.max, i - 1) \in Nat
        BY <4>1, <1>2, CntWraps
      <4>3. IdOf(r.cobid) \in Id
        BY <1>2, Typed
      <4>4. QED
        BY <4>2, <4>3 DEF SyncFrame
    <3>2. QED
      BY <3>1, <1>4 DEF FramesOf
  <2> HIDE DEF k
  <2>2. rx' = [m \in Node |-> IF m # n /\ On(m)
                              THEN rx[m] \o FramesOf(r, k) ELSE rx[m]]
    BY DEF Tick, k
  <2>3. QED
    BY <2>1, <2>2 DEF SInv, TypeOK
<1> HIDE DEF k, left, phase, cnt
<1>10. q \in SyncState
  BY <1>1, <1>4, <1>5, <1>6 DEF SyncState
<1>11. /\ q.mode = r.mode /\ q.cobid = r.cobid /\ q.us = r.us /\ q.max = r.max
       /\ q.od = r.od /\ q.stale = r.stale /\ q.recv = r.recv
       /\ q.cnt = cnt /\ q.left = left /\ q.phase = phase
  BY <1>1 DEF SyncState
<1> HIDE DEF q
<1>12. Works(q)
  BY <1>1, <1>4, <1>6, <1>7, <1>11
  DEF Works, Copied, Timed, Counting, Received, Producing
<1>13. QED
  BY <1>8, <1>9, <1>10, <1>12, StepWorks

LEMMA ReceiveKeeps ==
  ASSUME SInv, NEW n \in Node, Receive(n)
  PROVE  SInv'
<1> DEFINE f == Head(rx[n])
           q == SyncRecv(sync[n], f)
<1>1. /\ sync[n] \in SyncState /\ Works(sync[n])
      /\ rx[n] \in Seq(SyncFrame) /\ rx[n] # <<>>
  BY DEF SInv, TypeOK, Receive
<1>2. f \in SyncFrame /\ Tail(rx[n]) \in Seq(SyncFrame)
  BY <1>1
<1>3. f.cnt \in Nat
  BY <1>2 DEF SyncFrame
<1>4. q \in SyncState /\ Works(q)
  BY <1>1, <1>3
  DEF SyncRecv, SyncState, Works, Copied, Timed, Counting, Received, Producing
<1>5. sync' = [sync EXCEPT ![n] = q] /\ rx' = [rx EXCEPT ![n] = Tail(rx[n])]
  BY DEF Receive, SInv, TypeOK
<1>6. rx' \in [Node -> Seq(SyncFrame)]
  BY <1>2, <1>5 DEF SInv, TypeOK
<1> HIDE DEF q
<1>7. QED
  BY <1>4, <1>5, <1>6, StepWorks

LEMMA CrashKeeps ==
  ASSUME SInv, NEW n \in Node, Crash(n)
  PROVE  SInv'
<1>1. <<>> \in Seq(SyncFrame)
  OBVIOUS
<1>2. /\ sync' = [sync EXCEPT ![n] = Off]
      /\ rx' \in [Node -> Seq(SyncFrame)]
  BY <1>1 DEF Crash, SInv, TypeOK
<1>3. QED
  BY <1>2, OffWorks, StepWorks

-----------------------------------------------------------------------------
(* Theorems                                                                *)

\* SInv is an inductive invariant of the SYNC service on every set of nodes.
THEOREM Inductive == Spec => []SInv
<1>1. Init => SInv
  <2>1. <<>> \in Seq(SyncFrame)
    OBVIOUS
  <2>2. QED
    BY <2>1, OffWorks DEF Init, SInv, TypeOK
<1>2. SInv /\ [Next]_vars => SInv'
  <2> SUFFICES ASSUME SInv, [Next]_vars
               PROVE  SInv'
    OBVIOUS
  <2>1. CASE UNCHANGED vars
    BY <2>1 DEF vars, SInv, TypeOK
  <2>2. CASE Next
    <3>1. PICK n \in Node : NodeStep(n)
      BY <2>2 DEF Next
    <3>2. QED
      BY <3>1, CreateKeeps, ResetKeeps, StopKeeps, WriteKeeps, LocalWriteKeeps,
         TickKeeps, ReceiveKeeps, CrashKeeps DEF NodeStep, Ticks
  <2>3. QED
    BY <2>1, <2>2
<1>3. QED
  BY <1>1, <1>2, PTL DEF Spec

\* Type correctness of the records of co_sync.c and of the frames on the bus.
THEOREM TypeCorrect == Spec => []TypeOK
<1>1. SInv => TypeOK
  BY DEF SInv
<1>2. QED
  BY <1>1, Inductive, PTL

\* The copies, the timer and the receiver of a running service never lag behind
\* its objects, save those the application wrote past it.
THEOREM CopiesFollowTheObjects == Spec => []ServiceFollowsObjects
<1>1. SInv => ServiceFollowsObjects
  BY DEF SInv, ServiceFollowsObjects, Works, Copied, Timed, Received
<1>2. QED
  BY <1>1, Inductive, PTL

\* co_sync_timer is due at multiples of the period only, after ticks of every
\* length and every change of the period.
THEOREM SyncIsAligned == Spec => []Aligned
<1>1. SInv => Aligned
  BY DEF SInv, Aligned, Works, Timed
<1>2. QED
  BY <1>1, Inductive, PTL

\* The counter stays within 1 and the overflow value it counts to.
THEOREM CounterIsBounded == Spec => []CounterInRange
<1>1. SInv => CounterInRange
  BY DEF SInv, CounterInRange, Works, Counting
<1>2. QED
  BY <1>1, Inductive, PTL

-----------------------------------------------------------------------------
(* The counters of the frames on their way                                 *)

\* The nodes other than p never have the producer bit set.
OnlyProducer(p) ==
  \A n \in Node \ {p} :
    ~Stored[n].cobid.gen /\ \A v \in CobidValues[n] : ~v.gen

\* The frame that a node sends after k others.
FrameAfter(r, k) ==
  [id |-> IdOf(r.cobid),
   cnt |-> IF r.max = 0 THEN 0 ELSE CntAfter(r.cnt, r.max, k)]

\* The counter starts again or goes up by one at most.
Follows(cnt, next) == next \in {0, 1, cnt, cnt + 1}

\* It starts again at the latest when the identifier changes.
Succeeds(f, g) == g.cnt \in {0, 1} \/ (g.id = f.id /\ Follows(f.cnt, g.cnt))

\* No counter is missing from the frames q on their way to a consumer with the
\* record r, of which g is the last or the next one to be sent.
Unbroken(r, q) ==
  /\ \A i \in 1 .. Len(q) - 1 : Succeeds(q[i], q[i + 1])
  /\ r.seen.known /\ q[1].id = r.recv =>
       r.max = 0 \/ Follows(r.seen.cnt, q[1].cnt)

\* The frames on their way to c, and the next one that p will send.
Coming(p, c) == Append(rx[c], FrameAfter(sync[p], 0))

Consuming(r) == ~r.od.cobid.gen /\ ~r.cobid.gen /\ r.left = 0

Hearing(p, c) ==
  /\ Consuming(sync[c])
  /\ sync[c].mode = "off" => rx[c] = <<>> /\ ~sync[c].seen.known
  /\ sync[c].seen.known /\ sync[c].max = 0 => sync[c].seen.cnt = 0
  /\ Unbroken(sync[c], Coming(p, c))

\* The producer itself hears nobody.
CntInv(p) ==
  /\ SInv
  /\ rx[p] = <<>> /\ ~sync[p].seen.known
  /\ \A c \in Node \ {p} : Hearing(p, c)

\* What a handler other than the tick and the receiver makes of a record: it
\* starts anew, or the counter and what was heard stay as they are.
Restarted(r, q) ==
  \/ ~q.seen.known /\ q.cnt = 1
  \/ /\ q.seen = r.seen /\ q.recv = r.recv
     /\ q.max = r.max /\ q.cnt = r.cnt /\ q.cobid = r.cobid

\* A step of node n which sends and receives nothing.
Handled(n) ==
  /\ Restarted(sync[n], sync'[n])
  /\ \A m \in Node \ {n} : sync'[m] = sync[m]
  /\ \/ rx' = rx /\ sync'[n].mode # "off"
     \/ rx' = [rx EXCEPT ![n] = <<>>] /\ sync'[n] = Off
  /\ \A p \in Node \ {n} :
       OnlyProducer(p) /\ Consuming(sync[n]) => Consuming(sync'[n])

\* The remainder is the only one.
LEMMA Remainder ==
  ASSUME NEW q \in Nat, NEW b \in Nat \ {0}, NEW e \in 0 .. b - 1,
         NEW a \in Nat, a = q * b + e
  PROVE  a % b = e
<1> DEFINE f == a \div b
           g == a % b
<1>1. f \in Nat /\ g \in 0 .. b - 1 /\ a = f * b + g
  BY Division
<1> HIDE DEF f, g
<1>2. (f - q) * b = e - g /\ f - q \in Int
  <2>1. (f - q) * b = f * b - q * b
    BY <1>1, SMT
  <2>2. f * b \in Nat /\ q * b \in Nat
    BY <1>1
  <2>3. QED
    BY <1>1, <2>1, <2>2
<1>3. f - q = 0
  <2>1. CASE f - q >= 1
    <3>1. (f - q) * b >= b
      BY <1>2, <2>1, SMT
    <3>2. QED
      BY <3>1, <1>1, <1>2
  <2>2. CASE f - q <= -1
    <3>1. (f - q) * b <= -b
      BY <1>2, <2>2, SMT
    <3>2. QED
      BY <3>1, <1>1, <1>2
  <2>3. QED
    BY <2>1, <2>2, <1>2
<1>4. e = g
  BY <1>1, <1>2, <1>3
<1>5. QED
  BY <1>4 DEF g

\* The counter that follows another within an overflow value.
LEMMA CntSucceeds ==
  ASSUME NEW a \in Nat, NEW max \in Nat \ {0}
  PROVE  ((a + 1) % max) + 1 \in {1, (a % max) + 2}
<1>1. /\ a % max \in 0 .. max - 1 /\ a \div max \in Nat
      /\ a = ((a \div max) * max) + (a % max)
  BY Division
<1> DEFINE d == a \div max
           e == a % max
<1> HIDE DEF d, e
<1>2. CASE e + 1 < max
  <2>1. e + 1 \in 0 .. max - 1 /\ a + 1 = d * max + (e + 1) /\ d \in Nat
    BY <1>1, <1>2 DEF d, e
  <2> DEFINE e1 == e + 1
             a1 == a + 1
  <2>2. e1 \in 0 .. max - 1 /\ a1 = d * max + e1 /\ a1 \in Nat
    BY <2>1
  <2> HIDE DEF e1, a1
  <2>3. a1 % max = e1
    BY <2>1, <2>2, Remainder
  <2>4. QED
    BY <2>1, <2>3 DEF e, e1, a1
<1>3. CASE e + 1 = max
  <2>1. (d + 1) * max = d * max + max /\ d \in Nat /\ d * max \in Nat
    BY <1>1, SMT DEF d
  <2>2. a + 1 = (d + 1) * max + 0 /\ d + 1 \in Nat
    BY <1>1, <1>3, <2>1 DEF d, e
  <2>3. (a + 1) % max = 0
    BY <2>2, Remainder
  <2>4. QED
    BY <2>3
<1>4. QED
  BY <1>1, <1>2, <1>3 DEF e

\* The frames that a node sends one after another.
LEMMA FramesSucceed ==
  ASSUME NEW r \in SyncState, Counting(r), NEW k \in Nat
  PROVE  /\ FrameAfter(r, k) \in SyncFrame
         /\ Succeeds(FrameAfter(r, k), FrameAfter(r, k + 1))
<1>1. r.cnt \in Nat /\ r.cnt >= 1 /\ r.max \in Nat /\ r.cobid \in Cobid
  BY DEF SyncState, Counting
<1>2. IdOf(r.cobid) \in Id
  BY <1>1, Typed
<1>3. CntAfter(r.cnt, r.max, k) \in Nat
  BY <1>1, CntWraps
<1>4. FrameAfter(r, k) \in SyncFrame
  BY <1>2, <1>3 DEF FrameAfter, SyncFrame
<1>5. ASSUME r.max = 0
      PROVE  Succeeds(FrameAfter(r, k), FrameAfter(r, k + 1))
  BY <1>5 DEF FrameAfter, Succeeds
<1>6. ASSUME r.max # 0
      PROVE  Succeeds(FrameAfter(r, k), FrameAfter(r, k + 1))
  <2> DEFINE a == r.cnt - 1 + k
  <2>1. a \in Nat /\ r.cnt - 1 + (k + 1) = a + 1
    BY <1>1
  <2>2. /\ FrameAfter(r, k).cnt = (a % r.max) + 1
        /\ FrameAfter(r, k + 1).cnt = ((a + 1) % r.max) + 1
    BY <1>6, <2>1 DEF FrameAfter, CntAfter
  <2> HIDE DEF a
  <2>3. ((a + 1) % r.max) + 1 \in {1, (a % r.max) + 2}
    BY <2>1, <1>1, <1>6, CntSucceeds
  <2>4. a % r.max \in Nat
    <3>1. r.max \in Nat \ {0}
      BY <1>1, <1>6
    <3>2. a % r.max \in 0 .. r.max - 1
      BY <2>1, <3>1, Division
    <3>3. QED
      BY <3>1, <3>2
  <2>5. FrameAfter(r, k).id = FrameAfter(r, k + 1).id
    BY DEF FrameAfter
  <2>6. (a % r.max) + 2 = ((a % r.max) + 1) + 1
    BY <2>4
  <2>7. QED
    BY <2>2, <2>3, <2>5, <2>6 DEF Succeeds, Follows
<1>7. Succeeds(FrameAfter(r, k), FrameAfter(r, k + 1))
  BY <1>5, <1>6
<1>8. QED
  BY <1>4, <1>7

\* A counter in its range is that of the next frame.
LEMMA NextCnt ==
  ASSUME NEW r \in SyncState, Counting(r)
  PROVE  r.max # 0 => CntAfter(r.cnt, r.max, 0) = r.cnt
<1>1. r.cnt \in Nat /\ r.cnt >= 1 /\ r.max \in Nat /\ (r.cnt = 1 \/ r.cnt <= r.max)
  BY DEF SyncState, Counting
<1>2. SUFFICES ASSUME r.max # 0
               PROVE  CntAfter(r.cnt, r.max, 0) = r.cnt
  OBVIOUS
<1>3. r.cnt - 1 \in 0 .. r.max - 1 /\ r.cnt - 1 + 0 = r.cnt - 1
  BY <1>1, <1>2
<1>4. (r.cnt - 1) % r.max = r.cnt - 1
  BY <1>1, <1>2, <1>3, SMT
<1>5. QED
  BY <1>1, <1>2, <1>3, <1>4 DEF CntAfter

LEMMA RestartedCnt ==
  ASSUME NEW r \in SyncState, Counting(r), r.cnt = 1
  PROVE  FrameAfter(r, 0).cnt \in {0, 1}
BY NextCnt DEF FrameAfter

\* The next frame after k frames is the one that the new counter announces.
LEMMA NextAfter ==
  ASSUME NEW r \in SyncState, Counting(r), NEW k \in Nat,
         NEW q \in SyncState, Counting(q), q.cobid = r.cobid, q.max = r.max,
         q.cnt = CntAfter(r.cnt, r.max, k)
  PROVE  FrameAfter(q, 0) = FrameAfter(r, k)
<1>1. CASE r.max = 0
  BY <1>1 DEF FrameAfter
<1>2. CASE r.max # 0
  BY <1>2, NextCnt DEF FrameAfter
<1>3. QED
  BY <1>1, <1>2

-----------------------------------------------------------------------------
(* Sequences without a gap                                                 *)

\* The next frame is another one, or one with which the counter starts again.
LEMMA UnbrokenNext ==
  ASSUME NEW r, NEW s \in Seq(SyncFrame), NEW f \in SyncFrame, NEW g \in SyncFrame,
         Unbroken(r, Append(s, f)), g = f \/ g.cnt \in {0, 1}
  PROVE  Unbroken(r, Append(s, g))
<1> DEFINE t == Append(s, f)
           u == Append(s, g)
<1>1. /\ Len(t) = Len(s) + 1 /\ Len(u) = Len(s) + 1 /\ Len(s) \in Nat
      /\ t[Len(s) + 1] = f /\ u[Len(s) + 1] = g
      /\ \A i \in 1 .. Len(s) : t[i] = s[i] /\ u[i] = s[i]
  OBVIOUS
<1> HIDE DEF t, u
<1>2. CASE g = f
  BY <1>2
<1>3. CASE g.cnt \in {0, 1}
  <2>1. ASSUME NEW i \in 1 .. Len(u) - 1 PROVE Succeeds(u[i], u[i + 1])
    <3>1. CASE i = Len(s)
      BY <3>1, <1>1, <1>3 DEF Succeeds
    <3>2. CASE i # Len(s)
      <4>1. i \in 1 .. Len(t) - 1 /\ i \in 1 .. Len(s) /\ i + 1 \in 1 .. Len(s)
        BY <3>2, <1>1
      <4>2. Succeeds(t[i], t[i + 1])
        BY <4>1 DEF Unbroken, t
      <4>3. QED
        BY <4>1, <4>2, <1>1
    <3>3. QED
      BY <3>1, <3>2
  <2>2. CASE Len(s) = 0
    <3>1. Follows(r.seen.cnt, u[1].cnt)
      BY <2>2, <1>1, <1>3 DEF Follows
    <3>2. QED
      BY <3>1, <2>1 DEF Unbroken, u
  <2>3. CASE Len(s) # 0
    <3>1. u[1] = t[1]
      BY <2>3, <1>1
    <3>2. QED
      BY <3>1, <2>1 DEF Unbroken, u, t
  <2>4. QED
    BY <2>2, <2>3
<1>4. QED
  BY <1>2, <1>3

\* The first frame is handed to the consumer.
LEMMA UnbrokenReceive ==
  ASSUME NEW r \in SyncState, NEW s \in Seq(SyncFrame), s # <<>>,
         NEW f \in SyncFrame, Unbroken(r, Append(s, f)),
         r.seen.known /\ r.max = 0 => r.seen.cnt = 0
  PROVE  LET q == SyncRecv(r, Head(s)) IN
           /\ Unbroken(q, Append(Tail(s), f))
           /\ q.seen.known /\ q.max = 0 => q.seen.cnt = 0
           /\ r.seen.known => Follows(r.seen.cnt, q.seen.cnt)
<1> DEFINE q == SyncRecv(r, Head(s))
           t == Append(s, f)
           u == Append(Tail(s), f)
<1>1. /\ Len(t) = Len(s) + 1 /\ Len(u) = Len(s) /\ Len(s) \in Nat \ {0}
      /\ \A i \in 1 .. Len(s) : u[i] = t[i + 1]
      /\ t[1] = Head(s) /\ Head(s) \in SyncFrame
  <2>1. Len(s) \in Nat \ {0} /\ Tail(s) \in Seq(SyncFrame) /\ Len(Tail(s)) = Len(s) - 1
        /\ Head(s) = s[1] /\ \A i \in 1 .. Len(s) - 1 : Tail(s)[i] = s[i + 1]
    OBVIOUS
  <2>2. /\ Len(t) = Len(s) + 1 /\ t[Len(s) + 1] = f
        /\ \A i \in 1 .. Len(s) : t[i] = s[i]
    BY <2>1
  <2>3. /\ Len(u) = Len(s) /\ u[Len(s)] = f
        /\ \A i \in 1 .. Len(s) - 1 : u[i] = Tail(s)[i]
    BY <2>1
  <2> HIDE DEF t, u
  <2>4. ASSUME NEW i \in 1 .. Len(s) PROVE u[i] = t[i + 1]
    <3>1. CASE i = Len(s)
      BY <3>1, <2>1, <2>2, <2>3
    <3>2. CASE i # Len(s)
      <4>1. i \in 1 .. Len(s) - 1 /\ i + 1 \in 1 .. Len(s)
        <5>1. Len(s) \in Nat \ {0}
          BY <2>1
        <5> HIDE DEF u, t
        <5>2. QED
          BY <3>2, <5>1, SMT
      <4>2. u[i] = Tail(s)[i] /\ Tail(s)[i] = s[i + 1] /\ t[i + 1] = s[i + 1]
        BY <4>1, <2>1, <2>2, <2>3
      <4>3. QED
        BY <4>2
    <3>3. QED
      BY <3>1, <3>2
  <2>5. s[1] \in SyncFrame
    BY <2>1
  <2>6. QED
    BY <2>1, <2>2, <2>3, <2>4, <2>5
<1> HIDE DEF t, u
<1>2. ASSUME NEW i \in 1 .. Len(t) - 1 PROVE Succeeds(t[i], t[i + 1])
  BY DEF Unbroken, t
<1>3. r.seen.known /\ t[1].id = r.recv => r.max = 0 \/ Follows(r.seen.cnt, t[1].cnt)
  BY DEF Unbroken, t
<1>4. ASSUME NEW i \in 1 .. Len(u) - 1 PROVE Succeeds(u[i], u[i + 1])
  <2>1. /\ i \in 1 .. Len(s) /\ i + 1 \in 1 .. Len(s) /\ i + 1 \in 1 .. Len(t) - 1
    BY <1>1
  <2>2. Succeeds(t[i + 1], t[(i + 1) + 1])
    BY <2>1, <1>2
  <2>3. QED
    BY <2>1, <2>2, <1>1
<1>5. Succeeds(t[1], u[1])
  <2>1. 1 \in 1 .. Len(t) - 1 /\ 1 \in 1 .. Len(s)
    BY <1>1
  <2>2. Succeeds(t[1], t[1 + 1]) /\ u[1] = t[1 + 1]
    BY <2>1, <1>1, <1>2
  <2>3. QED
    BY <2>2
<1>6. CASE t[1].id = r.recv
  <2> DEFINE cnt == IF r.max = 0 THEN 0 ELSE t[1].cnt
  <2>1. /\ q.seen = [known |-> TRUE, cnt |-> cnt]
        /\ q.max = r.max /\ q.recv = r.recv
    BY <1>1, <1>6 DEF SyncRecv, SyncState
  <2>2. r.seen.known => Follows(r.seen.cnt, cnt)
    BY <1>3, <1>6 DEF Follows
  <2>3. r.max = 0 \/ Follows(cnt, u[1].cnt)
    BY <1>5 DEF Succeeds, Follows
  <2> HIDE DEF cnt, q
  <2>4. Unbroken(q, u)
    BY <2>1, <2>3, <1>4 DEF Unbroken
  <2>5. q.max = 0 => q.seen.cnt = 0
    BY <2>1 DEF cnt
  <2>6. r.seen.known => Follows(r.seen.cnt, q.seen.cnt)
    BY <2>1, <2>2
  <2>7. QED
    BY <2>4, <2>5, <2>6 DEF q, u
<1>7. CASE t[1].id # r.recv
  <2>1. q = r
    BY <1>1, <1>7 DEF SyncRecv
  <2>2. u[1].id = r.recv => Follows(r.seen.cnt, u[1].cnt)
    BY <1>5, <1>7 DEF Succeeds, Follows
  <2>3. Unbroken(r, u)
    BY <2>2, <1>4 DEF Unbroken
  <2>4. Follows(r.seen.cnt, r.seen.cnt)
    BY DEF Follows
  <2>5. QED
    BY <2>1, <2>3, <2>4 DEF u
<1>8. QED
  BY <1>6, <1>7

\* A tick of the producer sends k frames.
LEMMA UnbrokenSend ==
  ASSUME NEW c, NEW s \in Seq(SyncFrame), NEW r \in SyncState, Counting(r),
         NEW k \in Nat, Unbroken(c, Append(s, FrameAfter(r, 0)))
  PROVE  Unbroken(c, Append(s \o FramesOf(r, k), FrameAfter(r, k)))
<1> DEFINE t == Append(s, FrameAfter(r, 0))
           m == FramesOf(r, k)
           u == Append(s \o m, FrameAfter(r, k))
<1>1. /\ m \in Seq(SyncFrame) /\ Len(m) = k
      /\ \A i \in 1 .. k : m[i] = FrameAfter(r, i - 1)
  <2>1. ASSUME NEW i \in 1 .. k PROVE FrameAfter(r, i - 1) \in SyncFrame
    <3>1. i - 1 \in Nat
      OBVIOUS
    <3>2. QED
      BY <3>1, FramesSucceed
  <2>2. m = [i \in 1 .. k |-> FrameAfter(r, i - 1)]
    BY DEF FramesOf, FrameAfter
  <2>3. m \in Seq(SyncFrame)
    BY <2>1, <2>2
  <2>4. QED
    BY <2>2, <2>3
<1> HIDE DEF m
<1>2. FrameAfter(r, 0) \in SyncFrame /\ FrameAfter(r, k) \in SyncFrame
  BY FramesSucceed
<1>3. /\ Len(t) = Len(s) + 1 /\ Len(s) \in Nat
      /\ t[Len(s) + 1] = FrameAfter(r, 0)
      /\ \A i \in 1 .. Len(s) : t[i] = s[i]
  BY <1>2
<1>4. /\ s \o m \in Seq(SyncFrame) /\ Len(s \o m) = Len(s) + k
      /\ \A i \in 1 .. Len(s) : (s \o m)[i] = s[i]
      /\ \A i \in 1 .. k : (s \o m)[Len(s) + i] = m[i]
  BY <1>1
<1>5. /\ Len(u) = Len(s) + k + 1
      /\ \A i \in 1 .. Len(s) : u[i] = s[i]
      /\ \A i \in 0 .. k : u[Len(s) + 1 + i] = FrameAfter(r, i)
  <2>1. /\ Len(u) = Len(s) + k + 1 /\ u[Len(s) + k + 1] = FrameAfter(r, k)
        /\ \A i \in 1 .. Len(s) + k : u[i] = (s \o m)[i]
    <3> DEFINE w == s \o m
               f == FrameAfter(r, k)
    <3>1. w \in Seq(SyncFrame) /\ Len(w) = Len(s) + k /\ f \in SyncFrame
      BY <1>2, <1>4
    <3> HIDE DEF w, f
    <3>2. /\ Len(Append(w, f)) = Len(w) + 1
          /\ Append(w, f)[Len(w) + 1] = f
          /\ \A i \in 1 .. Len(w) : Append(w, f)[i] = w[i]
      BY <3>1
    <3>3. u = Append(w, f)
      BY DEF w, f
    <3>4. QED
      BY <3>1, <3>2, <3>3 DEF w, f
  <2> HIDE DEF u
  <2>2. ASSUME NEW i \in 1 .. Len(s) PROVE u[i] = s[i]
    BY <2>1, <1>3, <1>4
  <2>3. ASSUME NEW i \in 0 .. k PROVE u[Len(s) + 1 + i] = FrameAfter(r, i)
    <3>1. CASE i = k
      BY <3>1, <2>1, <1>3
    <3>2. CASE i # k
      <4>1. i + 1 \in 1 .. k /\ Len(s) + 1 + i \in 1 .. Len(s) + k
            /\ Len(s) + 1 + i = Len(s) + (i + 1) /\ (i + 1) - 1 = i
        BY <3>2, <1>3
      <4>2. u[Len(s) + 1 + i] = m[i + 1]
        BY <4>1, <2>1, <1>4
      <4>3. QED
        BY <4>1, <4>2, <1>1
    <3>3. QED
      BY <3>1, <3>2
  <2>4. QED
    BY <2>1, <2>2, <2>3
<1> HIDE DEF t, u
<1>6. ASSUME NEW i \in 1 .. Len(u) - 1 PROVE Succeeds(u[i], u[i + 1])
  <2>1. CASE i <= Len(s)
    <3>1. i \in 1 .. Len(t) - 1
      BY <2>1, <1>3
    <3>2. Succeeds(t[i], t[i + 1])
      BY <3>1 DEF Unbroken, t
    <3>3. t[i] = u[i]
      BY <2>1, <1>3, <1>5
    <3>4. t[i + 1] = u[i + 1]
      <4>1. CASE i = Len(s)
        <5>1. u[Len(s) + 1 + 0] = FrameAfter(r, 0) /\ Len(s) + 1 + 0 = i + 1
          BY <4>1, <1>3, <1>5
        <5>2. QED
          BY <5>1, <4>1, <1>3
      <4>2. CASE i # Len(s)
        <5>1. i + 1 \in 1 .. Len(s)
          BY <4>2, <2>1, <1>3
        <5>2. QED
          BY <5>1, <1>3, <1>5
      <4>3. QED
        BY <4>1, <4>2
    <3>5. QED
      BY <3>2, <3>3, <3>4
  <2>2. CASE i > Len(s)
    <3> DEFINE j == i - Len(s) - 1
    <3>1. j \in 0 .. k /\ j + 1 \in 0 .. k /\ j \in Nat
          /\ i = Len(s) + 1 + j /\ i + 1 = Len(s) + 1 + (j + 1)
      BY <2>2, <1>3, <1>5
    <3> HIDE DEF j
    <3>2. u[i] = FrameAfter(r, j) /\ u[i + 1] = FrameAfter(r, j + 1)
      BY <3>1, <1>5
    <3>3. QED
      BY <3>1, <3>2, FramesSucceed
  <2>3. QED
    BY <2>1, <2>2, <1>3
<1>7. u[1] = t[1]
  <2>1. CASE Len(s) = 0
    <3>1. u[Len(s) + 1 + 0] = FrameAfter(r, 0) /\ Len(s) + 1 + 0 = 1
      BY <2>1, <1>5
    <3>2. QED
      BY <3>1, <2>1, <1>3
  <2>2. CASE Len(s) # 0
    BY <2>2, <1>3, <1>5
  <2>3. QED
    BY <2>1, <2>2
<1>8. QED
  BY <1>6, <1>7 DEF Unbroken, u, t, m

-----------------------------------------------------------------------------
(* The handlers of one node                                                *)

LEMMA UpdateForgets ==
  ASSUME NEW r \in SyncState
  PROVE  /\ ~Update(r).seen.known /\ Update(r).cnt = 1
         /\ Update(r).mode = r.mode /\ Update(r).od = r.od
         /\ Update(r).cobid = r.cobid
         /\ ~r.cobid.gen => Update(r).left = 0
BY DEF Update, SyncState, Unseen

LEMMA StartForgets ==
  ASSUME NEW r \in SyncState, r.mode # "on"
  PROVE  /\ ~SyncStart(r).seen.known /\ SyncStart(r).cnt = 1
         /\ SyncStart(r).mode = "on" /\ SyncStart(r).od = r.od
         /\ SyncStart(r).cobid = r.od.cobid
         /\ ~r.od.cobid.gen => SyncStart(r).left = 0
<1> DEFINE q == [r EXCEPT !.mode = "on", !.cobid = r.od.cobid, !.us = r.od.us,
                          !.max = r.od.max, !.stale = {}]
<1>1. q \in SyncState
  BY DEF SyncState, Objects
<1>2. q.mode = "on" /\ q.od = r.od /\ q.cobid = r.od.cobid
  BY DEF SyncState
<1>3. SyncStart(r) = Update(q)
  BY DEF SyncStart
<1> HIDE DEF q
<1>4. QED
  BY <1>1, <1>2, <1>3, UpdateForgets

\* A handler that replaces the record of node n by q.
LEMMA SetHandles ==
  ASSUME SInv, NEW n \in Node, NEW q, Set(n, q), q.mode # "off",
         Restarted(sync[n], q),
         \A p \in Node \ {n} :
           OnlyProducer(p) /\ Consuming(sync[n]) => Consuming(q)
  PROVE  Handled(n)
<1>1. sync' = [sync EXCEPT ![n] = q] /\ rx' = rx
  BY DEF Set
<1>2. sync'[n] = q /\ \A m \in Node \ {n} : sync'[m] = sync[m]
  BY <1>1 DEF SInv, TypeOK
<1>3. QED
  BY <1>1, <1>2 DEF Handled

\* The objects of a node that is not the producer.
LEMMA ConsumerObjects ==
  ASSUME NEW n \in Node, NEW p \in Node \ {n}, OnlyProducer(p)
  PROVE  ~Stored[n].cobid.gen /\ \A v \in CobidValues[n] : ~v.gen
BY DEF OnlyProducer

LEMMA CreateHandles ==
  ASSUME SInv, NEW n \in Node, NEW phase \in 0 .. Cycle - 1, Create(n, phase)
  PROVE  Handled(n)
<1> DEFINE q == [Off EXCEPT !.mode = "created", !.od = Stored[n], !.phase = phase]
<1>1. /\ q.mode # "off" /\ ~q.seen.known /\ q.cnt = 1
      /\ q.od = Stored[n] /\ ~q.cobid.gen /\ q.left = 0
  BY DEF Off, Unseen
<1>2. Set(n, q)
  BY DEF Create
<1> HIDE DEF q
<1>3. Restarted(sync[n], q)
  BY <1>1 DEF Restarted
<1>4. \A p \in Node \ {n} : OnlyProducer(p) => Consuming(q)
  BY <1>1, ConsumerObjects DEF Consuming
<1>5. QED
  BY <1>1, <1>2, <1>3, <1>4, SetHandles

LEMMA ResetHandles ==
  ASSUME SInv, NEW n \in Node, Reset(n)
  PROVE  Handled(n)
<1> DEFINE s == SyncStop(sync[n])
           q == [s EXCEPT !.od = Stored[n]]
<1>1. Stored[n] \in Objects
  BY ObjectAssumption
<1>2. sync[n] \in SyncState /\ Works(sync[n])
  BY DEF SInv, TypeOK
<1>3. s \in SyncState /\ s.mode # "on"
  BY <1>2, StopWorks
<1>4. q \in SyncState /\ q.mode # "on" /\ q.od = Stored[n]
  BY <1>1, <1>3 DEF SyncState
<1>5. Set(n, SyncStart(q))
  BY DEF Reset
<1> HIDE DEF q, s
<1>6. /\ ~SyncStart(q).seen.known /\ SyncStart(q).cnt = 1
      /\ SyncStart(q).mode = "on" /\ SyncStart(q).od = Stored[n]
      /\ SyncStart(q).cobid = Stored[n].cobid
      /\ ~Stored[n].cobid.gen => SyncStart(q).left = 0
  BY <1>4, StartForgets
<1>7. Restarted(sync[n], SyncStart(q))
  BY <1>6 DEF Restarted
<1>8. \A p \in Node \ {n} : OnlyProducer(p) => Consuming(SyncStart(q))
  BY <1>6, ConsumerObjects DEF Consuming
<1>9. SyncStart(q).mode # "off"
  BY <1>6
<1>10. QED
  BY <1>5, <1>7, <1>8, <1>9, SetHandles

LEMMA StopHandles ==
  ASSUME SInv, NEW n \in Node, EnterStop(n) \/ LeaveStop(n)
  PROVE  Handled(n)
<1> DEFINE r == sync[n]
<1>1. r \in SyncState
  BY DEF SInv, TypeOK
<1>2. CASE EnterStop(n)
  <2> DEFINE q == SyncStop(r)
  <2>1. /\ q.mode = "stop" /\ q.seen = r.seen /\ q.recv = r.recv /\ q.max = r.max
        /\ q.cnt = r.cnt /\ q.cobid = r.cobid /\ q.od = r.od /\ q.left = r.left
    BY <1>1, <1>2 DEF EnterStop, SyncStop, SyncState
  <2>2. Set(n, q)
    BY <1>2 DEF EnterStop
  <2> HIDE DEF q
  <2>3. Restarted(r, q) /\ (Consuming(r) => Consuming(q)) /\ q.mode # "off"
    BY <2>1 DEF Restarted, Consuming
  <2>4. QED
    BY <2>2, <2>3, SetHandles
<1>3. CASE LeaveStop(n)
  <2> DEFINE q == SyncStart(r)
  <2>1. Set(n, q) /\ r.mode # "on"
    BY <1>3 DEF LeaveStop
  <2>2. /\ ~q.seen.known /\ q.cnt = 1 /\ q.mode = "on" /\ q.od = r.od
        /\ q.cobid = r.od.cobid /\ (~r.od.cobid.gen => q.left = 0)
    BY <1>1, <2>1, StartForgets
  <2> HIDE DEF q
  <2>3. Restarted(r, q) /\ (Consuming(r) => Consuming(q)) /\ q.mode # "off"
    BY <2>2 DEF Restarted, Consuming
  <2>4. QED
    BY <2>1, <2>3, SetHandles
<1>4. QED
  BY <1>2, <1>3

LEMMA WriteHandles ==
  ASSUME SInv, NEW n \in Node,
         \/ \E v \in CobidValues[n] : Write1005(n, v)
         \/ \E us \in PeriodValues[n] : Write1006(n, us)
         \/ \E max \in MaxValues : Write1019(n, max)
  PROVE  Handled(n)
<1> DEFINE r == sync[n]
<1>1. r \in SyncState /\ r.od \in Objects
  BY DEF SInv, TypeOK, SyncState
<1>2. ASSUME NEW q \in SyncState, Set(n, Update(q)), q.mode = "on",
             \A p \in Node \ {n} : OnlyProducer(p) /\ Consuming(r) =>
               ~q.od.cobid.gen /\ ~q.cobid.gen
      PROVE  Handled(n)
  <2> DEFINE u == Update(q)
  <2>1. /\ ~u.seen.known /\ u.cnt = 1 /\ u.mode = "on" /\ u.od = q.od
        /\ u.cobid = q.cobid /\ (~q.cobid.gen => u.left = 0)
    BY <1>2, UpdateForgets
  <2>2. Set(n, u)
    BY <1>2
  <2> HIDE DEF u
  <2>3. Restarted(r, u) /\ u.mode # "off"
    BY <2>1 DEF Restarted
  <2>4. \A p \in Node \ {n} : OnlyProducer(p) /\ Consuming(r) => Consuming(u)
    BY <2>1, <1>2 DEF Consuming
  <2>5. QED
    BY <2>2, <2>3, <2>4, SetHandles
<1>3. ASSUME NEW v \in CobidValues[n], Write1005(n, v)
      PROVE  Handled(n)
  <2> DEFINE q == [r EXCEPT !.od.cobid = v, !.cobid = v, !.stale = @ \ {"cobid"}]
  <2>1. v \in Cobid
    BY ObjectAssumption
  <2>2. q \in SyncState /\ q.od.cobid = v /\ q.cobid = v /\ q.mode = "on"
    BY <2>1, <1>1, <1>3 DEF SyncState, Objects, Object, Write1005
  <2>3. Set(n, Update(q))
    BY <1>3 DEF Write1005
  <2>4. \A p \in Node \ {n} : OnlyProducer(p) => ~v.gen
    BY ConsumerObjects
  <2> HIDE DEF q
  <2>5. QED
    BY <1>2, <2>2, <2>3, <2>4
<1>4. ASSUME NEW us \in PeriodValues[n], Write1006(n, us)
      PROVE  Handled(n)
  <2> DEFINE q == [r EXCEPT !.od.us = us, !.us = us, !.stale = @ \ {"us"}]
  <2>1. us \in 0 .. Cycle
    BY ObjectAssumption
  <2>2. /\ q \in SyncState /\ q.od.cobid = r.od.cobid /\ q.cobid = r.cobid
        /\ q.mode = "on"
    BY <2>1, <1>1, <1>4 DEF SyncState, Objects, Object, Write1006
  <2>3. Set(n, Update(q))
    BY <1>4 DEF Write1006
  <2> HIDE DEF q
  <2>4. QED
    BY <1>2, <2>2, <2>3 DEF Consuming
<1>5. ASSUME NEW max \in MaxValues, Write1019(n, max)
      PROVE  Handled(n)
  <2> DEFINE q == [r EXCEPT !.od.max = max, !.max = max, !.stale = @ \ {"max"}]
  <2>1. max \in Nat
    BY ObjectAssumption
  <2>2. /\ q \in SyncState /\ q.od.cobid = r.od.cobid /\ q.cobid = r.cobid
        /\ q.mode = "on"
    BY <2>1, <1>1, <1>5 DEF SyncState, Objects, Object, Write1019
  <2>3. Set(n, Update(q))
    BY <1>5 DEF Write1019
  <2> HIDE DEF q
  <2>4. QED
    BY <1>2, <2>2, <2>3 DEF Consuming
<1>6. QED
  BY <1>3, <1>4, <1>5

LEMMA LocalWriteHandles ==
  ASSUME SInv, NEW n \in Node, NEW object \in LocalObjects[n],
         NEW v \in Written(n)[object], LocalWrite(n, object, v)
  PROVE  Handled(n)
<1> DEFINE r == sync[n]
           q == [r EXCEPT !.od[object] = v, !.stale = @ \cup {object}]
<1>1. r \in SyncState /\ r.od \in Objects
  BY DEF SInv, TypeOK, SyncState
<1>2. object \in Object
  BY ObjectAssumption
<1>3. /\ q.mode = r.mode /\ q.cobid = r.cobid /\ q.max = r.max
      /\ q.cnt = r.cnt /\ q.recv = r.recv /\ q.left = r.left /\ q.seen = r.seen
      /\ q.od = [r.od EXCEPT ![object] = v]
  BY <1>1 DEF SyncState
<1>4. q.od.cobid = IF object = "cobid" THEN v ELSE r.od.cobid
  BY <1>1, <1>2, <1>3 DEF Objects, Object
<1>5. object = "cobid" => v \in CobidValues[n]
  BY DEF Written
<1>6. Set(n, q) /\ r.mode # "off"
  BY DEF LocalWrite, On
<1> HIDE DEF q
<1>7. Restarted(r, q) /\ q.mode # "off"
  BY <1>3, <1>6 DEF Restarted
<1>8. \A p \in Node \ {n} : OnlyProducer(p) /\ Consuming(r) => Consuming(q)
  BY <1>3, <1>4, <1>5, ConsumerObjects DEF Consuming
<1>9. QED
  BY <1>6, <1>7, <1>8, SetHandles

LEMMA CrashHandles ==
  ASSUME SInv, NEW n \in Node, Crash(n)
  PROVE  Handled(n)
<1>1. sync' = [sync EXCEPT ![n] = Off] /\ rx' = [rx EXCEPT ![n] = <<>>]
  BY DEF Crash
<1>2. sync'[n] = Off /\ \A m \in Node \ {n} : sync'[m] = sync[m]
  BY <1>1 DEF SInv, TypeOK
<1>3. ~Off.seen.known /\ Off.cnt = 1 /\ Consuming(Off)
  BY DEF Off, Unseen, Consuming
<1>4. QED
  BY <1>1, <1>2, <1>3 DEF Handled, Restarted

-----------------------------------------------------------------------------
(* The consumers of one producer                                           *)

\* A consumer keeps what it heard, or forgets it.
LEMMA UnbrokenKept ==
  ASSUME NEW r, NEW q, NEW s, Unbroken(r, s),
         ~q.seen.known \/ (q.seen = r.seen /\ q.recv = r.recv /\ q.max = r.max)
  PROVE  Unbroken(q, s)
BY DEF Unbroken

LEMMA OffForgets ==
  ~Off.seen.known /\ Consuming(Off)
BY DEF Off, Unseen, Consuming

\* A handler of a consumer or of the producer.
LEMMA HandledKeeps ==
  ASSUME NEW p \in Node, OnlyProducer(p), CntInv(p), SInv',
         NEW n \in Node, Handled(n)
  PROVE  CntInv(p)'
<1>1. /\ SInv /\ rx[p] = <<>> /\ ~sync[p].seen.known
      /\ \A c \in Node \ {p} : Hearing(p, c)
  BY DEF CntInv
<1>2. /\ sync \in [Node -> SyncState] /\ sync' \in [Node -> SyncState]
      /\ rx \in [Node -> Seq(SyncFrame)] /\ rx' \in [Node -> Seq(SyncFrame)]
      /\ \A m \in Node : Counting(sync[m]) /\ Counting(sync'[m])
  BY <1>1 DEF SInv, TypeOK, Works
<1>3. \A m \in Node : rx'[m] = rx[m] \/ (m = n /\ rx'[m] = <<>> /\ sync'[m] = Off)
  BY <1>2 DEF Handled
<1>4. rx'[p] = <<>>
  BY <1>1, <1>3
<1>5. ~sync'[p].seen.known
  BY <1>1 DEF Handled, Restarted
<1> DEFINE f == FrameAfter(sync[p], 0)
           g == FrameAfter(sync'[p], 0)
<1>6. f \in SyncFrame /\ g \in SyncFrame
  BY <1>2, FramesSucceed
<1>7. g = f \/ g.cnt \in {0, 1}
  <2>1. CASE n = p
    <3>1. CASE sync'[p].cnt = 1
      BY <3>1, <1>2, RestartedCnt
    <3>2. CASE sync'[p].cnt # 1
      BY <2>1, <3>2 DEF Handled, Restarted, FrameAfter
    <3>3. QED
      BY <3>1, <3>2
  <2>2. CASE n # p
    BY <2>2 DEF Handled
  <2>3. QED
    BY <2>1, <2>2
<1> HIDE DEF f, g
<1>8. ASSUME NEW c \in Node \ {p}
      PROVE  Hearing(p, c)'
  <2> DEFINE r == sync[c]
             q == sync'[c]
  <2>1. /\ Consuming(r)
        /\ r.mode = "off" => rx[c] = <<>> /\ ~r.seen.known
        /\ r.seen.known /\ r.max = 0 => r.seen.cnt = 0
        /\ Unbroken(r, Append(rx[c], f))
    BY <1>1 DEF Hearing, Coming, f
  <2>2. r \in SyncState /\ q \in SyncState /\ rx[c] \in Seq(SyncFrame)
    BY <1>2
  <2>3. Consuming(q)
    BY <2>1 DEF Handled
  <2>4. ~q.seen.known \/ (q.seen = r.seen /\ q.recv = r.recv /\ q.max = r.max)
    BY DEF Handled, Restarted
  <2>5. q.seen.known /\ q.max = 0 => q.seen.cnt = 0
    BY <2>1, <2>4
  <2>6. q.mode = "off" => rx'[c] = <<>> /\ ~q.seen.known
    <3>1. CASE n = c
      BY <3>1, <1>2, OffForgets DEF Handled
    <3>2. CASE n # c
      BY <3>2, <2>1, <1>3 DEF Handled
    <3>3. QED
      BY <3>1, <3>2
  <2>7. Unbroken(q, Append(rx'[c], g))
    <3>1. CASE rx'[c] = rx[c]
      <4>1. Unbroken(r, Append(rx[c], g))
        BY <2>1, <2>2, <1>6, <1>7, UnbrokenNext
      <4>2. QED
        BY <4>1, <2>4, <3>1, UnbrokenKept
    <3>2. CASE rx'[c] = <<>> /\ q = Off
      <4>1. ~q.seen.known
        BY <3>2, OffForgets
      <4>2. Len(Append(<<>>, g)) = 1
        OBVIOUS
      <4>3. QED
        BY <4>1, <4>2, <3>2 DEF Unbroken
    <3>3. QED
      BY <3>1, <3>2, <1>3
  <2>8. QED
    BY <2>3, <2>5, <2>6, <2>7 DEF Hearing, Coming, g
<1>9. QED
  BY <1>4, <1>5, <1>8 DEF CntInv

\* A consumer has no timer and sends nothing; the ticks of the producer send
\* the frames that come next.
LEMMA TickCounts ==
  ASSUME NEW p \in Node, OnlyProducer(p), CntInv(p), SInv',
         NEW n \in Node, NEW d \in 1 .. TickMax, Tick(n, d)
  PROVE  CntInv(p)' /\ \A m \in Node : sync'[m].seen = sync[m].seen
<1> DEFINE r == sync[n]
           k == Owed(r, d)
           left == IF r.left = 0 THEN 0 ELSE r.left + k * r.us - d
           phase == (r.phase + d) % Cycle
           cnt == CntAfter(r.cnt, r.max, k)
           q == [r EXCEPT !.phase = phase, !.left = left, !.cnt = cnt]
<1>1. /\ SInv /\ rx[p] = <<>> /\ ~sync[p].seen.known
      /\ \A c \in Node \ {p} : Hearing(p, c)
  BY DEF CntInv
<1>2. /\ sync \in [Node -> SyncState] /\ sync' \in [Node -> SyncState]
      /\ rx \in [Node -> Seq(SyncFrame)] /\ rx' \in [Node -> Seq(SyncFrame)]
      /\ \A m \in Node : Counting(sync[m]) /\ Counting(sync'[m])
      /\ \A m \in Node : Timed(sync[m])
  BY <1>1 DEF SInv, TypeOK, Works
<1>3. /\ sync' = [sync EXCEPT ![n] = q]
      /\ rx' = [m \in Node |-> IF m # n /\ On(m)
                               THEN rx[m] \o FramesOf(r, k) ELSE rx[m]]
  BY DEF Tick
<1>4. r \in SyncState /\ Counting(r) /\ Timed(r)
  BY <1>2
<1>5. k \in Nat
  <2>1. r.left \in Nat /\ r.us \in Nat /\ d \in Nat
    BY <1>4, TimeAssumption DEF SyncState
  <2>2. CASE r.left = 0 \/ r.left > d
    BY <2>2 DEF Owed
  <2>3. CASE r.left # 0 /\ r.left <= d
    <3>1. r.us \in Nat \ {0} /\ r.left \in Nat \ {0}
      BY <2>1, <2>3, <1>4 DEF Timed, Producing
    <3>2. ((d - r.left) \div r.us) + 1 \in Nat
      BY <3>1, <2>1, <2>3, OwedCatchesUp
    <3>3. k = ((d - r.left) \div r.us) + 1
      BY <2>1, <2>3 DEF Owed
    <3>4. QED
      BY <3>2, <3>3
  <2>4. QED
    BY <2>1, <2>2, <2>3
<1>6. r.left = 0 => k = 0 /\ left = 0
  BY DEF Owed
<1> HIDE DEF k, left, phase, cnt
<1>7. /\ sync'[n] = q
      /\ \A m \in Node \ {n} : sync'[m] = sync[m]
      /\ q.mode = r.mode /\ q.od = r.od /\ q.cobid = r.cobid /\ q.max = r.max
      /\ q.seen = r.seen /\ q.recv = r.recv /\ q.left = left /\ q.cnt = cnt
  BY <1>2, <1>3, <1>4 DEF SyncState
<1> HIDE DEF q
<1>8. \A m \in Node : /\ sync'[m].seen = sync[m].seen /\ sync'[m].recv = sync[m].recv
                      /\ sync'[m].max = sync[m].max /\ sync'[m].mode = sync[m].mode
                      /\ sync'[m].od = sync[m].od /\ sync'[m].cobid = sync[m].cobid
  BY <1>7
<1>9. \A c \in Node \ {p} : Consuming(sync[c]) /\ Consuming(sync'[c])
  <2>1. \A c \in Node \ {p} : Consuming(sync[c])
    BY <1>1 DEF Hearing
  <2>2. \A c \in Node \ {p} : sync'[c].left = 0
    BY <2>1, <1>6, <1>7 DEF Consuming
  <2>3. QED
    BY <2>1, <2>2, <1>8 DEF Consuming
<1>10. CASE n # p
  <2>1. k = 0
    BY <1>6, <1>9, <1>10 DEF Consuming
  <2>2. rx' = rx
    <3>1. FramesOf(r, k) = <<>>
      BY <2>1 DEF FramesOf
    <3>2. \A m \in Node : rx[m] \o FramesOf(r, k) = rx[m]
      BY <1>2, <3>1
    <3>3. QED
      BY <1>2, <1>3, <3>2
  <2>3. sync'[p] = sync[p]
    BY <1>7, <1>10
  <2>4. ASSUME NEW c \in Node \ {p}
        PROVE  Hearing(p, c)'
    <3>1. /\ sync[c].mode = "off" => rx[c] = <<>> /\ ~sync[c].seen.known
          /\ sync[c].seen.known /\ sync[c].max = 0 => sync[c].seen.cnt = 0
          /\ Unbroken(sync[c], Append(rx[c], FrameAfter(sync[p], 0)))
      BY <1>1 DEF Hearing, Coming
    <3>2. Unbroken(sync'[c], Append(rx[c], FrameAfter(sync[p], 0)))
      BY <3>1, <1>8, UnbrokenKept
    <3>3. QED
      BY <3>1, <3>2, <2>2, <2>3, <1>8, <1>9 DEF Hearing, Coming
  <2>5. QED
    BY <2>2, <2>3, <2>4, <1>1, <1>8 DEF CntInv
<1>11. CASE n = p
  <2>1. rx'[p] = <<>>
    BY <1>1, <1>3, <1>11
  <2>2. FrameAfter(sync'[p], 0) = FrameAfter(r, k)
    <3>1. q \in SyncState /\ Counting(q)
      BY <1>2, <1>7, <1>11
    <3>2. FrameAfter(q, 0) = FrameAfter(r, k)
      BY <3>1, <1>4, <1>5, <1>7, NextAfter DEF cnt
    <3>3. QED
      BY <3>2, <1>7, <1>11
  <2>3. ASSUME NEW c \in Node \ {p}
        PROVE  Hearing(p, c)'
    <3>1. /\ sync[c].mode = "off" => rx[c] = <<>> /\ ~sync[c].seen.known
          /\ sync[c].seen.known /\ sync[c].max = 0 => sync[c].seen.cnt = 0
          /\ Unbroken(sync[c], Append(rx[c], FrameAfter(sync[p], 0)))
      BY <1>1 DEF Hearing, Coming
    <3>2. rx'[c] = IF sync[c].mode # "off" THEN rx[c] \o FramesOf(r, k) ELSE rx[c]
      BY <1>3, <1>11 DEF On
    <3>3. Unbroken(sync[c], Append(rx'[c], FrameAfter(r, k)))
      <4>1. CASE sync[c].mode # "off"
        <5>1. Unbroken(sync[c], Append(rx[c] \o FramesOf(r, k), FrameAfter(r, k)))
          BY <3>1, <1>2, <1>4, <1>5, <1>11, UnbrokenSend
        <5>2. QED
          BY <5>1, <4>1, <3>2
      <4>2. CASE sync[c].mode = "off"
        <5>1. Len(Append(<<>>, FrameAfter(r, k))) = 1
          OBVIOUS
        <5>2. QED
          BY <5>1, <4>2, <3>1, <3>2 DEF Unbroken
      <4>3. QED
        BY <4>1, <4>2
    <3>4. Unbroken(sync'[c], Append(rx'[c], FrameAfter(sync'[p], 0)))
      BY <3>3, <2>2, <1>8, UnbrokenKept
    <3>5. sync'[c].mode = "off" => rx'[c] = <<>> /\ ~sync'[c].seen.known
      BY <3>1, <3>2, <1>8
    <3>6. QED
      BY <3>1, <3>4, <3>5, <1>8, <1>9 DEF Hearing, Coming
  <2>4. QED
    BY <2>1, <2>3, <1>1, <1>8 DEF CntInv
<1>12. QED
  BY <1>8, <1>10, <1>11

LEMMA ReceiveCounts ==
  ASSUME NEW p \in Node, CntInv(p), SInv', NEW n \in Node, Receive(n)
  PROVE  /\ CntInv(p)'
         /\ \A m \in Node \ {n} : sync'[m] = sync[m]
         /\ sync[n].seen.known => Follows(sync[n].seen.cnt, sync'[n].seen.cnt)
<1> DEFINE r == sync[n]
           q == SyncRecv(r, Head(rx[n]))
           f == FrameAfter(sync[p], 0)
<1>1. /\ SInv /\ rx[p] = <<>> /\ ~sync[p].seen.known
      /\ \A c \in Node \ {p} : Hearing(p, c)
  BY DEF CntInv
<1>2. /\ sync \in [Node -> SyncState] /\ rx \in [Node -> Seq(SyncFrame)]
      /\ \A m \in Node : Counting(sync[m])
  BY <1>1 DEF SInv, TypeOK, Works
<1>3. /\ rx[n] # <<>> /\ n # p /\ sync[n].mode # "off"
      /\ sync' = [sync EXCEPT ![n] = q] /\ rx' = [rx EXCEPT ![n] = Tail(rx[n])]
  BY <1>1, <1>2 DEF Receive, On
<1>4. /\ sync'[n] = q /\ rx'[n] = Tail(rx[n])
      /\ \A m \in Node \ {n} : sync'[m] = sync[m] /\ rx'[m] = rx[m]
  BY <1>2, <1>3
<1>5. f \in SyncFrame
  BY <1>2, FramesSucceed
<1>6. /\ Consuming(r)
      /\ r.seen.known /\ r.max = 0 => r.seen.cnt = 0
      /\ Unbroken(r, Append(rx[n], f))
  BY <1>1, <1>3 DEF Hearing, Coming
<1>7. r \in SyncState
  BY <1>2
<1>8. /\ q.od = r.od /\ q.cobid = r.cobid /\ q.left = r.left /\ q.mode = r.mode
  BY <1>7 DEF SyncRecv, SyncState
<1> HIDE DEF f
<1>9. /\ Unbroken(q, Append(Tail(rx[n]), f))
      /\ q.seen.known /\ q.max = 0 => q.seen.cnt = 0
      /\ r.seen.known => Follows(r.seen.cnt, q.seen.cnt)
  BY <1>2, <1>3, <1>5, <1>6, <1>7, UnbrokenReceive
<1> HIDE DEF q
<1>10. sync'[p] = sync[p] /\ rx'[p] = rx[p]
  BY <1>3, <1>4
<1>11. Hearing(p, n)'
  BY <1>3, <1>4, <1>6, <1>8, <1>9, <1>10 DEF Hearing, Coming, Consuming, f
<1>12. ASSUME NEW c \in Node \ {p}, c # n
       PROVE  Hearing(p, c)'
  BY <1>1, <1>4, <1>10, <1>12 DEF Hearing, Coming
<1>13. CntInv(p)'
  BY <1>1, <1>10, <1>11, <1>12 DEF CntInv
<1>14. QED
  BY <1>4, <1>9, <1>13

LEMMA NodeCounts ==
  ASSUME NEW p \in Node, OnlyProducer(p), CntInv(p), SInv',
         NEW n \in Node, NodeStep(n)
  PROVE  /\ CntInv(p)'
         /\ \A m \in Node : sync[m].seen.known /\ sync'[m].seen.known =>
              Follows(sync[m].seen.cnt, sync'[m].seen.cnt)
<1>1. SInv
  BY DEF CntInv
<1>2. \A a : Follows(a, a)
  BY DEF Follows
<1>3. CASE Handled(n)
  <2>1. CntInv(p)'
    BY <1>3, HandledKeeps
  <2>2. \A m \in Node : sync'[m].seen = sync[m].seen \/ ~sync'[m].seen.known
    BY <1>3 DEF Handled, Restarted
  <2>3. QED
    BY <1>2, <2>1, <2>2
<1>4. CASE Receive(n)
  BY <1>2, <1>4, ReceiveCounts
<1>5. ASSUME NEW d \in 1 .. TickMax, Tick(n, d)
      PROVE  /\ CntInv(p)'
             /\ \A m \in Node : sync'[m].seen = sync[m].seen
  BY <1>5, TickCounts
<1>6. CASE Ticks(n)
  BY <1>2, <1>5, <1>6 DEF Ticks
<1>7. Handled(n) \/ Receive(n) \/ Ticks(n)
  BY <1>1, CreateHandles, ResetHandles, StopHandles, WriteHandles,
     LocalWriteHandles, CrashHandles DEF NodeStep
<1>8. QED
  BY <1>3, <1>4, <1>6, <1>7

\* The other nodes have the producer bit set neither in their configurations nor
\* by a write.
OneProducer == \E p \in Node : OnlyProducer(p)

\* With one producer no consumer sees a counter skip, however late the ticks are
\* and whatever resets, stops, restarts, and writes of 1005, 1006 and 1019 come
\* between: co_sync_update starts the counter again wherever it changes.
THEOREM NoCounterIsSkipped ==
  ASSUME OneProducer
  PROVE  Spec => NoSkippedCounter
<1>1. PICK p \in Node : OnlyProducer(p)
  BY DEF OneProducer
<1>2. Init /\ SInv => CntInv(p)
  <2> SUFFICES ASSUME Init, SInv
               PROVE  CntInv(p)
    OBVIOUS
  <2>1. \A n \in Node : sync[n] = Off /\ rx[n] = <<>>
    BY DEF Init
  <2>2. Consuming(Off) /\ ~Off.seen.known
    BY OffForgets
  <2>3. \A f : Len(Append(<<>>, f)) = 1
    OBVIOUS
  <2>4. \A f : Unbroken(Off, Append(<<>>, f))
    BY <2>2, <2>3 DEF Unbroken
  <2>5. QED
    BY <2>1, <2>2, <2>4 DEF CntInv, Hearing, Coming
<1> DEFINE Skips == \A n \in Node :
             sync[n].seen.known /\ sync'[n].seen.known =>
               sync'[n].seen.cnt \in {0, 1, sync[n].seen.cnt, sync[n].seen.cnt + 1}
<1>3. CntInv(p) /\ SInv' /\ [Next]_vars => CntInv(p)' /\ [Skips]_vars
  <2> SUFFICES ASSUME CntInv(p), SInv', [Next]_vars
               PROVE  CntInv(p)' /\ [Skips]_vars
    OBVIOUS
  <2>1. CASE UNCHANGED vars
    <3>1. CntInv(p)'
      BY <2>1 DEF vars, CntInv, Hearing, Coming
    <3>2. QED
      BY <2>1, <3>1
  <2>2. CASE Next
    <3>1. PICK n \in Node : NodeStep(n)
      BY <2>2 DEF Next
    <3>2. QED
      BY <1>1, <3>1, NodeCounts DEF Follows
  <2>3. QED
    BY <2>1, <2>2
<1> HIDE DEF Skips
<1>4. Spec => [][Skips]_vars
  BY <1>2, <1>3, Inductive, PTL DEF Spec
<1>5. QED
  BY <1>4 DEF NoSkippedCounter, Skips
=============================================================================
