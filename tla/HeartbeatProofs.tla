-------------------------- MODULE HeartbeatProofs --------------------------
(* The accuracy of the heartbeat consumer and its refinement of the abstract  *)
(* monitor, for every heartbeat time, every tick jitter and every bus.        *)
EXTENDS Heartbeat, TLAPS

\* The consumer and the time since it heard its node.  The timer was set to Ms
\* less the age of the network time, and no tick may be later than TickMax.
ConsumerInv ==
  /\ cons \in Consumer
  /\ app \in App
  /\ silence \in -1 .. SilenceCap
  /\ cons.timer <=> silence >= 0 /\ cons.state = "RESOLVED"
  /\ cons.timer => /\ cons.left + cons.age >= 1
                   /\ silence + cons.left \in (Ms - TickMax) .. Ms
  /\ cons.state = "OCCURRED" => silence >= 0 /\ silence >= Ms - TickMax

Sender == [on : BOOLEAN, st : St, age : Int, due : Int]

Heartbeats == [st : St, age : Nat]

\* The consumer's part needs of the producer only that it sends states.
IInv ==
  /\ ConsumerInv
  /\ wire \in Seq(Heartbeats)
  /\ prod \in Sender

LEMMA InitInv == Init => IInv
<1>1. Init => ConsumerInv
  BY TimeAssumption DEF Init, ConsumerInv, Consumer, App, St, SilenceCap
<1>2. Init => wire \in Seq(Heartbeats)
  BY DEF Init
<1>3. Init => prod \in Sender
  BY TimeAssumption DEF Init, St, Sender
<1>4. QED
  BY <1>1, <1>2, <1>3 DEF IInv

\* What a heartbeat does to the consumer, whatever its age.
LEMMA HeardConsumer ==
  ASSUME ConsumerInv, NEW st \in St,
         cons' = Heard(cons, st), app' = Told(app, cons, st), silence' = 0
  PROVE  ConsumerInv'
<1>0. cons \in Consumer /\ cons.age \in 0 .. TickMax
  BY DEF ConsumerInv, Consumer
<1>a. Ms - cons.age \in (1 - TickMax) .. Ms
  BY <1>0, TimeAssumption
<1>1. cons' \in Consumer /\ cons'.timer /\ cons'.state = "RESOLVED"
      /\ cons'.left = Ms - cons'.age
  BY <1>0, <1>a DEF Consumer, Heard
<1> USE TimeAssumption
<1>2. app' \in App
  BY DEF ConsumerInv, App, Told
<1>3. QED
  BY <1>1, <1>2 DEF ConsumerInv, Consumer, SilenceCap

LEMMA TickConsumer ==
  ASSUME ConsumerInv, ConsumerTick
  PROVE  ConsumerInv'
<1> USE TimeAssumption
<1>0. 0 \in 0 .. TickMax /\ 0 \in (1 - TickMax) .. Ms
  OBVIOUS
<1>1. CASE cons.timer /\ Expired(cons.left)
  <2>0. cons' = [cons EXCEPT !.age = 0, !.timer = FALSE, !.left = 0,
                             !.state = "OCCURRED"]
    BY <1>1 DEF ConsumerTick
  <2>1. cons' \in Consumer /\ ~cons'.timer /\ cons'.state = "OCCURRED"
    BY <1>0, <2>0 DEF ConsumerInv, Consumer
  <2>2. app' \in App
    BY <1>1 DEF ConsumerInv, ConsumerTick, App
  <2>3. silence >= 0 /\ silence >= Ms - TickMax
    BY <1>1 DEF ConsumerInv, Consumer, Expired
  <2>4. QED
    BY <2>1, <2>2, <2>3 DEF ConsumerInv, ConsumerTick
<1>2. CASE ~(cons.timer /\ Expired(cons.left))
  <2>1. /\ cons' = [cons EXCEPT !.age = 0] /\ app' = app /\ silence' = silence
    BY <1>2 DEF ConsumerTick
  <2>2. cons.timer => cons.left >= 1
    BY <1>2 DEF ConsumerInv, Consumer, Expired
  <2>3. QED
    BY <2>1, <2>2 DEF ConsumerInv, Consumer
<1>3. QED
  BY <1>1, <1>2

LEMMA AdvanceConsumer ==
  ASSUME ConsumerInv, Advance
  PROVE  ConsumerInv'
<1> USE TimeAssumption
<1>1. /\ cons.age \in 0 .. TickMax - 1
      /\ cons' = [cons EXCEPT !.age = cons.age + 1,
                              !.left = IF cons.timer THEN cons.left - 1
                                                     ELSE cons.left]
      /\ app' = app
  BY DEF Advance, ConsumerInv, Consumer
<1>2. silence' = IF silence \in 0 .. SilenceCap - 1 THEN silence + 1 ELSE silence
  BY DEF Advance
<1>3. cons.timer => silence < SilenceCap
  BY DEF ConsumerInv, Consumer, SilenceCap
<1>4. cons' \in Consumer
  <2>1. cons.age + 1 \in 0 .. TickMax
    BY <1>1
  <2>2. cons.left \in (1 - TickMax) .. Ms
    BY DEF ConsumerInv, Consumer
  <2>3. cons.timer => cons.left - 1 \in (1 - TickMax) .. Ms
    BY <1>1, <2>2 DEF ConsumerInv
  <2>4. QED
    BY <1>1, <2>1, <2>2, <2>3 DEF ConsumerInv, Consumer
<1>5. silence' \in -1 .. SilenceCap
  BY <1>2 DEF ConsumerInv, SilenceCap
<1>6. cons'.timer => /\ cons'.left + cons'.age >= 1
                     /\ silence' + cons'.left \in (Ms - TickMax) .. Ms
  BY <1>1, <1>2, <1>3 DEF ConsumerInv, Consumer, SilenceCap
<1>7. cons'.state = "OCCURRED" => silence' >= 0 /\ silence' >= Ms - TickMax
  BY <1>1, <1>2 DEF ConsumerInv, Consumer, SilenceCap
<1>8. cons'.timer <=> silence' >= 0 /\ cons'.state = "RESOLVED"
  BY <1>1, <1>2 DEF ConsumerInv, Consumer, SilenceCap
<1>9. QED
  BY <1>1, <1>4, <1>5, <1>6, <1>7, <1>8 DEF ConsumerInv

LEMMA StepInv == IInv /\ [Next]_vars => IInv'
<1> SUFFICES ASSUME IInv, [Next]_vars
             PROVE  IInv'
  OBVIOUS
<1> USE TimeAssumption
<1> DEFINE F == Heartbeats
<1>0. /\ ConsumerInv /\ wire \in Seq(F)
      /\ prod \in Sender
  BY DEF IInv
<1>1. ASSUME NEW age \in 0 .. TickMax, Boot(age)
      PROVE  IInv'
  <2>1. [st |-> "BOOTUP", age |-> 0] \in F
    BY DEF St, Heartbeats
  <2>2. wire' \in Seq(F)
    BY <1>0, <1>1, <2>1 DEF Boot
  <2>3. prod' \in Sender
    <3>1. Period - age \in Int /\ age \in Int
      OBVIOUS
    <3>2. QED
      BY <1>1, <3>1 DEF Boot, Sender, St
  <2>4. QED
    BY <1>0, <1>1, <2>2, <2>3 DEF Boot, IInv, ConsumerInv
<1>2. ASSUME NEW st \in St \ {"BOOTUP"}, EnterState(st)
      PROVE  IInv'
  BY <1>0, <1>2 DEF EnterState, IInv, ConsumerInv, Sender
<1>3. CASE ProducerTick
  <2>1. Owed(prod.due) \in Nat
    BY <1>0 DEF Owed, Expired, Sender
  <2>2. [st |-> prod.st, age |-> 0] \in F
    BY <1>0 DEF Heartbeats, Sender
  <2>3. [i \in 1 .. Owed(prod.due) |-> [st |-> prod.st, age |-> 0]] \in Seq(F)
    <3> HIDE DEF F
    <3>1. QED
      BY <2>1, <2>2
  <2>4. wire' \in Seq(F)
    <3> DEFINE b == [i \in 1 .. Owed(prod.due) |-> [st |-> prod.st, age |-> 0]]
    <3>1. wire' = wire \o b
      BY <1>3 DEF ProducerTick
    <3> HIDE DEF F, b
    <3>2. b \in Seq(F)
      BY <2>3 DEF b
    <3>3. QED
      BY <1>0, <3>1, <3>2
  <2>5. prod' \in Sender
    <3> DEFINE d == prod.due + Owed(prod.due) * Period
    <3>1. d \in Int
      BY <1>0, <2>1 DEF Sender
    <3>2. prod' = [prod EXCEPT !.age = 0, !.due = d]
      BY <1>0, <1>3 DEF ProducerTick, Sender
    <3> HIDE DEF d
    <3>3. 0 \in Int
      OBVIOUS
    <3>4. QED
      BY <1>0, <3>1, <3>2, <3>3 DEF Sender
  <2>6. QED
    BY <1>0, <1>3, <2>4, <2>5 DEF ProducerTick, IInv, ConsumerInv
<1>4. CASE Crash
  <2>1. prod' = [prod EXCEPT !.on = FALSE, !.age = 0, !.due = Period]
    BY <1>4 DEF Crash
  <2>2. prod' \in Sender
    <3>1. Period \in Int /\ 0 \in Int
      OBVIOUS
    <3>2. QED
      BY <1>0, <2>1, <3>1 DEF Sender
  <2>3. QED
    BY <1>0, <1>4, <2>2 DEF Crash, IInv, ConsumerInv
<1>5. CASE Lose
  BY <1>0, <1>5 DEF Lose, IInv, ConsumerInv
<1>6. CASE Receive
  <2>0. wire' \in Seq(F) /\ Head(wire) \in F
    <3> HIDE DEF F
    <3>1. QED
      BY <1>0, <1>6 DEF Receive
  <2>1. wire' \in Seq(F) /\ Head(wire).st \in St
    BY <2>0 DEF Heartbeats
  <2>2. CASE cons.active
    BY <1>0, <1>6, <2>1, <2>2, HeardConsumer DEF Receive, IInv
  <2>3. CASE ~cons.active
    BY <1>0, <1>6, <2>1, <2>3 DEF Receive, IInv, ConsumerInv
  <2>4. QED
    BY <2>2, <2>3
<1>7. CASE ConsumerTick
  BY <1>0, <1>7, TickConsumer DEF ConsumerTick, IInv
<1>8. ASSUME NEW on \in BOOLEAN, Configure(on)
      PROVE  IInv'
  <2>1. /\ cons' \in Consumer /\ ~cons'.timer /\ cons'.state = "RESOLVED"
        /\ silence' = -1
    <3>1. 0 \in (1 - TickMax) .. Ms /\ "BOOTUP" \in St
      BY DEF St
    <3>2. QED
      BY <1>0, <1>8, <3>1 DEF Configure, SetConsumer, ConsumerInv, Consumer
  <2>2. QED
    BY <1>0, <1>8, <2>1 DEF Configure, IInv, ConsumerInv, SilenceCap
<1>9. CASE Advance
  <2>1. wire' \in Seq(F)
    <3>1. \A i \in DOMAIN wire : [wire[i] EXCEPT !.age = @ + 1] \in F
      <4>1. \A f \in F : [f EXCEPT !.age = @ + 1] \in F
        BY DEF Heartbeats
      <4>2. \A i \in DOMAIN wire : wire[i] \in F
        BY <1>0
      <4> HIDE DEF F
      <4>3. QED
        BY <4>1, <4>2
    <3>2. wire' = [i \in 1 .. Len(wire) |-> [wire[i] EXCEPT !.age = @ + 1]]
      BY <1>0, <1>9 DEF Advance
    <3>3. Len(wire) \in Nat /\ DOMAIN wire = 1 .. Len(wire)
      BY <1>0
    <3> HIDE DEF F
    <3>4. QED
      BY <3>1, <3>2, <3>3
  <2>2. prod' \in Sender
    <3>1. prod.age + 1 \in Int /\ prod.due - 1 \in Int
      BY <1>0 DEF Sender
    <3>2. QED
      BY <1>0, <1>9, <3>1 DEF Advance, Sender
  <2>3. QED
    BY <1>0, <1>9, <2>1, <2>2, AdvanceConsumer DEF IInv
<1>10. CASE UNCHANGED vars
  BY <1>0, <1>10 DEF vars, IInv, ConsumerInv
<1>11. QED
  BY <1>1, <1>2, <1>3, <1>4, <1>5, <1>6, <1>7, <1>8, <1>9, <1>10 DEF Next

\* The consumer's invariant, whatever the producer and the bus do.
THEOREM Inductive == Spec => []IInv
<1>1. QED
  BY InitInv, StepInv, PTL DEF Spec

\* A timeout is reported of a heard node only, and at most one tick early.
THEOREM TimeoutsAreNotEarly == Spec => []NeverEarly
<1>1. IInv => NeverEarly
  BY DEF IInv, ConsumerInv, NeverEarly
<1>2. QED
  BY <1>1, Inductive, PTL

\* A heard node that is silent is reported less than a tick after its time.
THEOREM TimeoutsAreNotLate == Spec => []NeverLate
<1>1. IInv => NeverLate
  <2> SUFFICES ASSUME IInv, silence >= Ms + TickMax, cons.state # "OCCURRED"
               PROVE  FALSE
    BY DEF NeverLate
  <2>1. cons.timer /\ cons.left >= 1 - TickMax
    BY TimeAssumption DEF IInv, ConsumerInv, Consumer
  <2>2. silence + cons.left <= Ms
    BY <2>1 DEF IInv, ConsumerInv
  <2>3. QED
    BY <2>1, <2>2, TimeAssumption DEF IInv, ConsumerInv, Consumer
<1>2. QED
  BY <1>1, Inductive, PTL

-----------------------------------------------------------------------------
(* Refinement                                                              *)

LEMMA ReceiveRefines ==
  ASSUME IInv, Receive
  PROVE  [Monitor!Next]_(Monitor!vars)
<1>1. CASE cons.active
  <2>1. silence' = 0 /\ cons'.state = "RESOLVED" /\ cons'.active
    BY <1>1 DEF Receive, Heard, IInv, ConsumerInv, Consumer
  <2>2. Health' = "alive"
    BY <2>1 DEF Health
  <2>3. CASE cons.state = "OCCURRED"
    <3>1. Health = "lost" /\ app'.told = "resolved"
      BY <1>1, <2>3 DEF Receive, Told, Health
    <3>2. QED
      BY <2>2, <3>1 DEF Monitor!Next, Monitor!Recover
  <2>4. CASE cons.state # "OCCURRED"
    <3>1. Health \in {"unheard", "alive"} /\ app'.told = app.told
      BY <1>1, <2>4 DEF Receive, Told, Health
    <3>2. QED
      BY <2>2, <3>1 DEF Monitor!Next, Monitor!Hear
  <2>5. QED
    BY <2>3, <2>4
<1>2. CASE ~cons.active
  BY <1>2 DEF Receive, Health, Monitor!vars
<1>3. QED
  BY <1>1, <1>2

LEMMA TickRefines ==
  ASSUME IInv, ConsumerTick
  PROVE  [Monitor!Next]_(Monitor!vars)
<1>1. CASE cons.timer /\ Expired(cons.left)
  <2>1. /\ silence >= 0 /\ cons.state = "RESOLVED"
        /\ cons'.state = "OCCURRED" /\ app'.told = "occurred"
    BY <1>1 DEF ConsumerTick, IInv, ConsumerInv, Consumer, App
  <2>2. Health = "alive" /\ Health' = "lost"
    BY <2>1 DEF Health
  <2>3. QED
    BY <2>1, <2>2 DEF Monitor!Next, Monitor!Miss
<1>2. CASE ~(cons.timer /\ Expired(cons.left))
  <2>1. /\ cons'.state = cons.state /\ cons'.active = cons.active
        /\ silence' = silence /\ app' = app
    BY <1>2 DEF ConsumerTick, IInv, ConsumerInv, Consumer
  <2>2. QED
    BY <2>1 DEF Health, Monitor!vars
<1>3. QED
  BY <1>1, <1>2

\* The consumer implements the abstract monitor: every step reports what the
\* monitor reports, or nothing.
THEOREM ConsumerImplementsMonitor == Spec => MonitorSpec
<1>1. Init => Monitor!Init
  BY DEF Init, Health, Monitor!Init
<1>2. IInv /\ [Next]_vars => [Monitor!Next]_(Monitor!vars)
  <2> SUFFICES ASSUME IInv, [Next]_vars
               PROVE  [Monitor!Next]_(Monitor!vars)
    OBVIOUS
  <2>1. CASE Receive
    BY <2>1, ReceiveRefines
  <2>2. CASE ConsumerTick
    BY <2>2, TickRefines
  <2>3. ASSUME NEW on \in BOOLEAN, Configure(on)
        PROVE  [Monitor!Next]_(Monitor!vars)
    <3>1. cons'.state = "RESOLVED" /\ silence' = -1 /\ app' = app
      BY <2>3 DEF Configure, SetConsumer, IInv, ConsumerInv, Consumer
    <3>2. Health' \in {"off", "unheard"}
      BY <3>1 DEF Health
    <3>3. QED
      BY <3>1, <3>2 DEF Monitor!Next, Monitor!Configure
  <2>4. CASE Advance
    <3>1. /\ cons'.state = cons.state /\ cons'.active = cons.active
          /\ app' = app
      BY <2>4 DEF Advance, IInv, ConsumerInv, Consumer
    <3>2. silence' >= 0 <=> silence >= 0
      BY <2>4 DEF Advance, IInv, ConsumerInv
    <3>3. QED
      BY <3>1, <3>2 DEF Health, Monitor!vars
  <2>5. CASE UNCHANGED <<cons, app, silence>>
    BY <2>5 DEF Health, Monitor!vars
  <2>6. QED
    BY <2>1, <2>2, <2>3, <2>4, <2>5 DEF Next, vars, Boot, EnterState,
       ProducerTick, Crash, Lose
<1>3. QED
  BY <1>1, <1>2, Inductive, PTL DEF Spec, MonitorSpec, Monitor!Spec
=============================================================================
