------------------------ MODULE HeartbeatAlarmProofs ------------------------
(* That a heartbeat consumer does not cry wolf: the whole system of producer, *)
(* bus and consumer, for every heartbeat time, tick jitter and delay.         *)
EXTENDS HeartbeatProofs

\* The producer's timer is never overdue by as much as a tick.
ProducerInv ==
  /\ prod \in [on : BOOLEAN, st : St \ {"BOOTUP"}, age : 0 .. TickMax, due : Int]
  /\ prod.due + prod.age \in 1 .. Period

\* While nothing was lost, the next heartbeat is due or on its way.  The last
\* one was sent before it was heard, and set the producer's timer.
NextBeat ==
  ~gap /\ silence >= 0 =>
    /\ prod.on
    /\ wire = <<>> => silence + prod.due <= Period
    /\ wire # <<>> => silence - Head(wire).age <= Period + TickMax - 1

AlarmInv ==
  /\ ProducerInv
  /\ wire \in Seq(Frame)
  /\ gap \in BOOLEAN
  /\ silence >= 0 => cons.active
  /\ NextBeat
  /\ NoFalseAlarm
  /\ StateTold

LEMMA InitAlarm == Init => AlarmInv
<1> SUFFICES ASSUME Init PROVE AlarmInv
  OBVIOUS
<1> USE TimeAssumption
<1>1. ProducerInv
  BY DEF Init, ProducerInv, St
<1>2. NextBeat /\ (silence >= 0 => cons.active)
  BY DEF Init, NextBeat
<1>3. NoFalseAlarm /\ StateTold
  BY DEF Init, NoFalseAlarm, StateTold
<1>4. wire \in Seq(Frame)
  BY DEF Init
<1>5. gap \in BOOLEAN
  BY DEF Init
<1>6. QED
  BY <1>1, <1>2, <1>3, <1>4, <1>5 DEF AlarmInv

-----------------------------------------------------------------------------
(* The producer                                                            *)

\* The heartbeats owed bring the timer back to within a period.
LEMMA OwedBringsBack ==
  ASSUME NEW due \in Int, due <= Period
  PROVE  /\ Owed(due) \in Nat
         /\ due + Owed(due) * Period \in 1 .. Period
         /\ Owed(due) = 0 <=> due > 0
<1> USE TimeAssumption
<1>1. CASE due > 0
  <2>1. Owed(due) = 0
    BY <1>1 DEF Owed, Expired
  <2>2. QED
    BY <1>1, <2>1
<1>2. CASE due <= 0
  <2> DEFINE q == (-due) \div Period
  <2>1. q \in Nat /\ q * Period <= -due /\ -due < q * Period + Period
    BY <1>2
  <2>2. Owed(due) = q + 1
    BY <1>2 DEF Owed, Expired
  <2> HIDE DEF q
  <2>3. (q + 1) * Period = q * Period + Period
    BY <2>1
  <2>4. q * Period \in Int
    BY <2>1
  <2>5. QED
    BY <2>1, <2>2, <2>3, <2>4
<1>3. QED
  BY <1>1, <1>2

\* The first heartbeat after an empty bus comes within a period and a tick.
LEMMA Sent ==
  ASSUME AlarmInv, silence \in Int, NEW w, w \in Seq(Frame), w # <<>>, Head(w).age = 0,
         wire' = wire \o w, gap' = gap, silence' = silence, prod'.on = prod.on
  PROVE  NextBeat'
<1> USE TimeAssumption
<1>1. prod.due \in Int /\ prod.due >= 1 - TickMax
  BY DEF AlarmInv, ProducerInv
<1>2. wire' # <<>> /\ (wire # <<>> => Head(wire') = Head(wire))
      /\ (wire = <<>> => Head(wire') = Head(w))
  <2> HIDE TimeAssumption
  <2>1. wire \in Seq(Frame)
    BY DEF AlarmInv
  <2>2. QED
    BY <2>1
<1>3. QED
  BY <1>1, <1>2 DEF AlarmInv, NextBeat

-----------------------------------------------------------------------------
(* The steps                                                               *)

LEMMA BootAlarm ==
  ASSUME IInv, AlarmInv, NEW age \in 0 .. TickMax, Boot(age)
  PROVE  AlarmInv'
<1> USE TimeAssumption
<1> DEFINE f == [st |-> "BOOTUP", age |-> 0]
<1>1. f \in Frame
  BY DEF St, Frame
<1>2. wire' = wire \o <<f>> /\ wire \in Seq(Frame)
  BY DEF Boot, AlarmInv
<1>3. wire' \in Seq(Frame) /\ <<f>> \in Seq(Frame) /\ <<f>> # <<>> /\ Head(<<f>>) = f
  <2> HIDE DEF f
  <2>1. QED
    BY <1>1, <1>2
<1>4. ProducerInv'
  <2>1. Period - age \in Int /\ age \in 0 .. TickMax /\ (Period - age) + age = Period
    OBVIOUS
  <2>2. QED
    BY <2>1 DEF Boot, ProducerInv, St
<1>5. silence \in Int
  BY DEF IInv, ConsumerInv
<1>6. NextBeat'
  <2>1. CASE prod.on
    <3>1. prod'.on = prod.on /\ gap' = gap /\ silence' = silence
      BY <2>1 DEF Boot
    <3>2. Head(<<f>>).age = 0
      BY <1>3
    <3> HIDE DEF f
    <3>3. QED
      BY <1>2, <1>3, <1>5, <3>1, <3>2, Sent
  <2>2. CASE ~prod.on
    BY <2>2 DEF Boot, AlarmInv, NextBeat
  <2>3. QED
    BY <2>1, <2>2
<1>7. QED
  BY <1>3, <1>4, <1>6 DEF Boot, AlarmInv, NoFalseAlarm, StateTold

LEMMA ProducerTickAlarm ==
  ASSUME IInv, AlarmInv, ProducerTick
  PROVE  AlarmInv'
<1> USE TimeAssumption
<1> DEFINE k == Owed(prod.due)
           f == [st |-> prod.st, age |-> 0]
           b == [i \in 1 .. k |-> f]
<1>1. prod.due \in Int /\ prod.due <= Period
  BY DEF AlarmInv, ProducerInv
<1>2. k \in Nat /\ prod.due + k * Period \in 1 .. Period /\ (k = 0 <=> prod.due > 0)
  BY <1>1, OwedBringsBack
<1>3. prod' = [prod EXCEPT !.age = 0, !.due = prod.due + k * Period]
  BY DEF ProducerTick, AlarmInv, ProducerInv
<1>4. ProducerInv'
  <2> DEFINE d == prod.due + k * Period
  <2>1. d \in Int /\ d + 0 \in 1 .. Period /\ 0 \in 0 .. TickMax
    BY <1>2
  <2>2. prod' = [prod EXCEPT !.age = 0, !.due = d]
    BY <1>3
  <2> HIDE DEF d
  <2>3. QED
    BY <2>1, <2>2 DEF AlarmInv, ProducerInv
<1>5. f \in Frame
  BY DEF AlarmInv, ProducerInv, Frame
<1>6. wire' = wire \o b /\ wire \in Seq(Frame)
  BY DEF ProducerTick, AlarmInv
<1>7. silence \in Int /\ prod'.on = prod.on /\ gap' = gap /\ silence' = silence
  <2>1. silence \in Int
    BY DEF IInv, ConsumerInv
  <2>2. \A d : [prod EXCEPT !.age = 0, !.due = d].on = prod.on
    BY DEF AlarmInv, ProducerInv
  <2>3. prod'.on = prod.on
    BY <1>3, <2>2
  <2>4. QED
    BY <2>1, <2>3 DEF ProducerTick
<1>f. f.age = 0
  OBVIOUS
<1> HIDE DEF k, f
<1>8. b \in Seq(Frame) /\ Len(b) = k
  BY <1>2, <1>5
<1>9. wire' \in Seq(Frame)
  <2> HIDE DEF b
  <2>1. QED
    BY <1>6, <1>8
<1>10. NextBeat'
  <2>1. CASE k = 0
    <3>1. wire' = wire
      <4>1. b = <<>>
        BY <1>8, <2>1
      <4> HIDE DEF b
      <4>2. QED
        BY <1>6, <4>1
    <3>2. prod'.due = prod.due
      BY <1>1, <1>3, <2>1 DEF AlarmInv, ProducerInv
    <3>3. QED
      BY <1>7, <3>1, <3>2 DEF AlarmInv, NextBeat
  <2>2. CASE k # 0
    <3>1. 1 \in 1 .. k
      BY <1>2, <2>2
    <3>2. b # <<>> /\ Head(b) = f
      BY <1>8, <2>2, <3>1
    <3> HIDE DEF b
    <3>3. QED
      BY <1>6, <1>7, <1>8, <1>f, <3>2, Sent
  <2>3. QED
    BY <2>1, <2>2
<1>11. QED
  BY <1>4, <1>9, <1>10 DEF ProducerTick, AlarmInv, NoFalseAlarm, StateTold

LEMMA ReceiveAlarm ==
  ASSUME IInv, AlarmInv, Receive
  PROVE  AlarmInv'
<1> USE TimeAssumption
<1>1. wire' \in Seq(Frame) /\ Head(wire) \in Frame
  BY DEF AlarmInv, Receive
<1>2. \A f \in Frame : f.st \in St /\ f.age \in Nat
  BY DEF Frame
<1>3. CASE cons.active
  <2>1. /\ cons' = Heard(cons, Head(wire).st)
        /\ app' = Told(app, cons, Head(wire).st)
        /\ silence' = 0 /\ gap' = ~prod.on /\ prod' = prod
    BY <1>3 DEF Receive
  <2>2. cons'.st = Head(wire).st /\ cons'.state = "RESOLVED" /\ cons'.active
    BY <1>3, <2>1 DEF Heard, IInv, ConsumerInv, Consumer
  <2>3. gap' \in BOOLEAN
    BY <2>1 DEF AlarmInv, ProducerInv
  <2>4. wire' # <<>> => Head(wire') \in Frame
    BY <1>1
  <2>5. NextBeat'
    <3>1. prod.due \in Int /\ prod.due <= Period
      BY DEF AlarmInv, ProducerInv
    <3>2. wire' # <<>> => Head(wire').age \in Nat
      BY <1>2, <2>4
    <3>3. ~gap' => prod'.on
      BY <2>1
    <3>4. /\ wire' = <<>> => silence' + prod'.due <= Period
          /\ wire' # <<>> => silence' - Head(wire').age <= Period + TickMax - 1
      BY <2>1, <3>1, <3>2
    <3>5. QED
      BY <3>3, <3>4 DEF NextBeat
  <2>6. StateTold'
    BY <2>1, <2>2 DEF AlarmInv, StateTold, Told
  <2>7. NoFalseAlarm'
    BY <2>2 DEF NoFalseAlarm
  <2>8. ProducerInv'
    BY <2>1 DEF AlarmInv, ProducerInv
  <2>9. QED
    BY <1>1, <2>2, <2>3, <2>5, <2>6, <2>7, <2>8 DEF AlarmInv
<1>4. CASE ~cons.active
  <2>1. UNCHANGED <<prod, cons, app, silence, gap>>
    BY <1>4 DEF Receive
  <2>2. ~(silence' >= 0)
    BY <1>4, <2>1 DEF AlarmInv
  <2>3. QED
    BY <1>1, <2>1, <2>2 DEF AlarmInv, ProducerInv, NextBeat, NoFalseAlarm, StateTold
<1>5. QED
  BY <1>3, <1>4

\* The heart of the matter: a timeout finds that something was lost.
LEMMA ConsumerTickAlarm ==
  ASSUME IInv, AlarmInv, ConsumerTick
  PROVE  AlarmInv'
<1> USE TimeAssumption
<1>1. UNCHANGED <<prod, wire, silence, gap>>
  BY DEF ConsumerTick
<1>2. cons'.active = cons.active /\ cons'.st = cons.st /\ app'.view = app.view
  BY DEF ConsumerTick, IInv, ConsumerInv, Consumer, App
<1>3. NoFalseAlarm'
  <2>1. CASE cons.timer /\ Expired(cons.left)
    <3>1. silence \in Nat /\ silence >= Ms - TickMax
      BY <2>1 DEF IInv, ConsumerInv, Consumer, Expired
    <3>2. SUFFICES ASSUME Margin, ~gap PROVE FALSE
      BY <1>1 DEF NoFalseAlarm, Margin
    <3>3. silence >= Period + Delay + TickMax
      BY <3>1, <3>2 DEF Margin
    <3>4. CASE wire = <<>>
      BY <3>1, <3>2, <3>3, <3>4 DEF AlarmInv, NextBeat, ProducerInv
    <3>5. CASE wire # <<>>
      <4>1. Head(wire) \in Frame
        BY <3>5 DEF AlarmInv
      <4>2. Head(wire).age \in 0 .. Delay
        BY <4>1 DEF Frame
      <4>3. silence - Head(wire).age <= Period + TickMax - 1
        BY <3>1, <3>2, <3>5 DEF AlarmInv, NextBeat
      <4>4. QED
        BY <3>1, <3>3, <4>2, <4>3
    <3>6. QED
      BY <3>4, <3>5
  <2>2. CASE ~(cons.timer /\ Expired(cons.left))
    <3>1. cons'.state = cons.state
      BY <2>2 DEF ConsumerTick, IInv, ConsumerInv, Consumer
    <3>2. QED
      BY <1>1, <3>1 DEF AlarmInv, NoFalseAlarm, Margin
  <2>3. QED
    BY <2>1, <2>2
<1>4. QED
  BY <1>1, <1>2, <1>3 DEF AlarmInv, ProducerInv, NextBeat, StateTold

LEMMA AdvanceAlarm ==
  ASSUME IInv, AlarmInv, Advance
  PROVE  AlarmInv'
<1> USE TimeAssumption
<1>1. gap' = gap /\ app' = app
  BY DEF Advance
<1>2. cons'.active = cons.active /\ cons'.st = cons.st /\ cons'.state = cons.state
  BY DEF Advance, IInv, ConsumerInv, Consumer
<1>3. ProducerInv' /\ prod'.on = prod.on /\ (prod.on => prod'.due = prod.due - 1)
  <2>1. CASE prod.on
    <3>1. prod' = [prod EXCEPT !.age = prod.age + 1, !.due = prod.due - 1]
      BY <2>1 DEF Advance, AlarmInv, ProducerInv
    <3>2. /\ prod.age + 1 \in 0 .. TickMax /\ prod.due - 1 \in Int
          /\ (prod.due - 1) + (prod.age + 1) \in 1 .. Period
      BY <2>1 DEF Advance, AlarmInv, ProducerInv
    <3>3. QED
      BY <3>1, <3>2 DEF AlarmInv, ProducerInv
  <2>2. CASE ~prod.on
    BY <2>2 DEF Advance, AlarmInv, ProducerInv
  <2>3. QED
    BY <2>1, <2>2
<1>4. silence \in Int /\ silence' \in Int /\ silence' <= silence + 1
      /\ (silence' >= 0 <=> silence >= 0)
  BY DEF Advance, IInv, ConsumerInv, SilenceCap
<1>5. \A i \in DOMAIN wire : wire[i] \in Frame
  BY DEF AlarmInv
<1>6. \A f \in Frame : f.age < Delay => /\ [f EXCEPT !.age = @ + 1] \in Frame
                                       /\ [f EXCEPT !.age = @ + 1].age = f.age + 1
  BY DEF Frame
<1>7. wire' = [i \in 1 .. Len(wire) |-> [wire[i] EXCEPT !.age = @ + 1]]
      /\ Len(wire) \in Nat /\ DOMAIN wire = 1 .. Len(wire)
  BY DEF Advance, AlarmInv
<1>8. \A i \in 1 .. Len(wire) : [wire[i] EXCEPT !.age = @ + 1] \in Frame
  BY <1>5, <1>6, <1>7 DEF Advance
<1>9. wire' \in Seq(Frame) /\ Len(wire') = Len(wire)
  BY <1>7, <1>8
<1>10. wire # <<>> => Head(wire').age = Head(wire).age + 1
  <2>1. SUFFICES ASSUME wire # <<>> PROVE Head(wire').age = Head(wire).age + 1
    OBVIOUS
  <2>2. 1 \in 1 .. Len(wire)
    BY <2>1 DEF AlarmInv
  <2>3. Head(wire') = [wire[1] EXCEPT !.age = @ + 1] /\ Head(wire) = wire[1]
    BY <1>7, <1>9, <2>2
  <2>4. wire[1] \in Frame /\ wire[1].age < Delay
    BY <1>5, <1>7, <2>2 DEF Advance
  <2>5. QED
    BY <1>6, <2>3, <2>4
<1>11. NextBeat'
  <2>1. SUFFICES ASSUME ~gap, silence >= 0
                 PROVE  /\ prod'.on
                        /\ wire' = <<>> => silence' + prod'.due <= Period
                        /\ wire' # <<>> => silence' - Head(wire').age <= Period + TickMax - 1
    BY <1>1, <1>4 DEF NextBeat
  <2>2. prod.on /\ prod.due \in Int
    BY <2>1 DEF AlarmInv, NextBeat, ProducerInv
  <2>3. CASE wire = <<>>
    <3>1. wire' = <<>>
      BY <1>9, <2>3
    <3>2. silence + prod.due <= Period
      BY <2>1, <2>3 DEF AlarmInv, NextBeat
    <3>3. QED
      BY <1>3, <1>4, <2>2, <3>1, <3>2
  <2>4. CASE wire # <<>>
    <3>1. wire' # <<>>
      BY <1>9, <2>4 DEF AlarmInv
    <3>2. Head(wire) \in Frame
      BY <2>4 DEF AlarmInv
    <3>3. Head(wire).age \in Nat
      BY <3>2 DEF Frame
    <3>4. silence - Head(wire).age <= Period + TickMax - 1
      BY <2>1, <2>4 DEF AlarmInv, NextBeat
    <3>5. QED
      BY <1>3, <1>4, <1>10, <2>2, <2>4, <3>1, <3>3, <3>4
  <2>5. QED
    BY <2>3, <2>4
<1>12. QED
  BY <1>1, <1>2, <1>3, <1>4, <1>9, <1>11 DEF AlarmInv, NoFalseAlarm, Margin, StateTold

LEMMA StepAlarm == IInv /\ AlarmInv /\ [Next]_vars => AlarmInv'
<1> SUFFICES ASSUME IInv, AlarmInv, [Next]_vars PROVE AlarmInv'
  OBVIOUS
<1> USE TimeAssumption
<1>1. ASSUME NEW age \in 0 .. TickMax, Boot(age) PROVE AlarmInv'
  BY <1>1, BootAlarm
<1>2. ASSUME NEW st \in St \ {"BOOTUP"}, EnterState(st) PROVE AlarmInv'
  <2>1. ProducerInv' /\ prod'.on = prod.on /\ prod'.due = prod.due
    BY <1>2 DEF EnterState, AlarmInv, ProducerInv
  <2>2. QED
    BY <1>2, <2>1 DEF EnterState, AlarmInv, NextBeat, NoFalseAlarm, Margin, StateTold
<1>3. CASE ProducerTick
  BY <1>3, ProducerTickAlarm
<1>4. CASE Crash
  <2>1. ProducerInv'
    <3>1. Period \in Int /\ 0 \in 0 .. TickMax /\ Period + 0 \in 1 .. Period
      OBVIOUS
    <3>2. QED
      BY <1>4, <3>1 DEF Crash, AlarmInv, ProducerInv
  <2>2. QED
    BY <1>4, <2>1 DEF Crash, AlarmInv, NextBeat, NoFalseAlarm, StateTold
<1>5. CASE Lose
  <2>1. wire' \in Seq(Frame)
    BY <1>5 DEF Lose, AlarmInv
  <2>2. QED
    BY <1>5, <2>1 DEF Lose, AlarmInv, ProducerInv, NextBeat, NoFalseAlarm, StateTold
<1>6. CASE Receive
  BY <1>6, ReceiveAlarm
<1>7. CASE ConsumerTick
  BY <1>7, ConsumerTickAlarm
<1>8. ASSUME NEW on \in BOOLEAN, Configure(on) PROVE AlarmInv'
  <2>1. cons'.st = "BOOTUP" /\ cons'.state = "RESOLVED" /\ silence' = -1
    BY <1>8 DEF Configure, SetConsumer, IInv, ConsumerInv, Consumer
  <2>2. UNCHANGED <<prod, wire, app, gap>>
    BY <1>8 DEF Configure
  <2>3. NextBeat' /\ (silence' >= 0 => cons'.active)
    BY <2>1 DEF NextBeat
  <2>4. NoFalseAlarm' /\ StateTold'
    BY <2>1 DEF NoFalseAlarm, StateTold
  <2>5. QED
    BY <2>2, <2>3, <2>4 DEF AlarmInv, ProducerInv
<1>9. CASE Advance
  BY <1>9, AdvanceAlarm
<1>10. CASE UNCHANGED vars
  BY <1>10 DEF vars, AlarmInv, ProducerInv, NextBeat, NoFalseAlarm, Margin, StateTold
<1>11. QED
  BY <1>1, <1>2, <1>3, <1>4, <1>5, <1>6, <1>7, <1>8, <1>9, <1>10 DEF Next

-----------------------------------------------------------------------------
(* The theorems                                                            *)

LEMMA AlarmInvariant == Spec => [](IInv /\ AlarmInv)
<1>1. Init => IInv /\ AlarmInv
  BY InitInv, InitAlarm
<1>2. IInv /\ AlarmInv /\ [Next]_vars => (IInv /\ AlarmInv)'
  BY StepInv, StepAlarm
<1>3. QED
  BY <1>1, <1>2, PTL DEF Spec

\* The producer's times, the frames and the consumer are within their bounds:
\* no timer is ever overdue by a tick.
THEOREM TypeCorrect == Spec => []TypeOK
<1>1. IInv /\ AlarmInv => TypeOK
  <2> SUFFICES ASSUME IInv, AlarmInv PROVE TypeOK
    OBVIOUS
  <2>1. prod.due \in (1 - TickMax) .. Period
    BY TimeAssumption DEF AlarmInv, ProducerInv
  <2>2. prod \in Producer
    BY <2>1 DEF AlarmInv, ProducerInv, Producer
  <2>3. QED
    BY <2>2 DEF IInv, ConsumerInv, AlarmInv, TypeOK
<1>2. QED
  BY <1>1, AlarmInvariant, PTL

\* With a consumer time that leaves room for the period, the delay and a tick of
\* each node, a producer that is on and heard is never reported as lost.
THEOREM AlarmsAreTrue == Spec => []NoFalseAlarm
<1>1. AlarmInv => NoFalseAlarm
  BY DEF AlarmInv
<1>2. QED
  BY <1>1, AlarmInvariant, PTL

\* The application knows the state that the consumer last heard.
THEOREM StatesAreTold == Spec => []StateTold
<1>1. AlarmInv => StateTold
  BY DEF AlarmInv
<1>2. QED
  BY <1>1, AlarmInvariant, PTL
=============================================================================
