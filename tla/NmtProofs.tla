----------------------------- MODULE NmtProofs -----------------------------
(* The safety of Nmt for every number of nodes, every configuration and every *)
(* inhibit time.  A handler is a chain of operators on the record of a node,  *)
(* so the proof has one lemma per operator, then one step per action.         *)
EXTENDS Nmt, SequenceTheorems, TLAPS

\* What every reset may start from: the record is typed, no command is stuck,
\* and a running command timer is that of a node whose saved DCF makes it master.
Resettable(n, r) ==
  /\ r \in NodeState
  /\ Unstuck(r)
  /\ r.csTimer => "master" \in StoredStartup[n]
  /\ r.wait <= Inhibit[n]

\* What holds inside a handler once the role has been loaded.
RoleLoaded(n, r) ==
  /\ Resettable(n, r)
  /\ r.startup = StoredStartup[n]
  /\ r.recv000 <=> ~IsMaster(r)

\* The handler of node n may end in r.
Good(n, r) == r \in NodeState /\ NodeInv(n, r)

LEMMA CsTimerTyped ==
  ASSUME NEW n \in Node, NEW r \in NodeState
  PROVE  CsTimer(n, r) \in NodeState
<1> USE BoundAssumption
<1> DEFINE c == Head(r.buf)
<1>1. CASE r.buf = <<>> \/ r.wait > 0
  BY <1>1 DEF CsTimer, NodeState
<1>2. CASE r.buf # <<>> /\ ~(r.wait > 0)
  <2>1. c \in Command /\ Tail(r.buf) \in Seq(Command)
    BY <1>2 DEF NodeState
  <2>2. NmtFrameOf(c) \in Frame
    BY <2>1 DEF NmtFrameOf, Command, Frame, NmtFrame
  <2>3. Append(r.tx, NmtFrameOf(c)) \in Seq(Frame)
    BY <2>2 DEF NodeState
  <2>4. EstAfter(r.est, c) \in [Node -> Est]
    BY <2>1 DEF EstAfter, ExpectedAfter, NodeState, Est
  <2>5. Inhibit[n] \in Nat /\ (Tail(r.buf) # <<>>) \in BOOLEAN
    OBVIOUS
  <2>6. CsTimer(n, r) = [r EXCEPT !.buf = Tail(r.buf),
              !.tx = Append(r.tx, NmtFrameOf(c)),
              !.est = EstAfter(r.est, c),
              !.wait = Inhibit[n],
              !.csTimer = (Tail(r.buf) # <<>>)]
    BY <1>2 DEF CsTimer, NodeState
  <2> HIDE DEF c
  <2>7. QED
    BY <2>1, <2>3, <2>4, <2>5, <2>6 DEF NodeState
<1>3. QED
  BY <1>1, <1>2

\* The handlers on the way to preop leave these fields alone.
SameService(r, q) ==
  /\ q.fsm = r.fsm /\ q.st = r.st /\ q.srv = r.srv
  /\ q.od1017 = r.od1017 /\ q.hb = r.hb /\ q.listen = r.listen

LEMMA SlavesTyped ==
  ASSUME NEW r \in NodeState
  PROVE  /\ SlavesFini(r) \in NodeState
         /\ SlavesInit(r) \in NodeState
<1>1. [s \in Node |-> "none"] \in [Node -> Est]
  BY DEF Est
<1>2. SlavesFini(r) \in NodeState
  BY <1>1 DEF SlavesFini, NodeState
<1>3. QED
  BY <1>2 DEF SlavesInit, NodeState

LEMMA QueueLoaded ==
  ASSUME NEW n \in Node, NEW r, RoleLoaded(n, r), IsMaster(r),
         NEW cs \in Cs, NEW id \in Target
  PROVE  /\ RoleLoaded(n, QueueCommand(n, r, cs, id))
         /\ SameService(r, QueueCommand(n, r, cs, id))
<1> USE BoundAssumption
<1> DEFINE a == [r EXCEPT !.buf = Append(r.buf, [cs |-> cs, id |-> id])]
           q == QueueCommand(n, r, cs, id)
<1>1. r \in NodeState
  BY DEF RoleLoaded, Resettable
<1>2. CASE Len(r.buf) = BufSize
  BY <1>2 DEF QueueCommand, SameService
<1>3. CASE Len(r.buf) # BufSize
  <2>1. q = CsTimer(n, a)
    BY <1>3, <1>1 DEF QueueCommand
  <2>2. [cs |-> cs, id |-> id] \in Command
    BY DEF Command
  <2>3. a \in NodeState
    <3>1. r.buf \in Seq(Command)
      BY <1>1 DEF NodeState
    <3>2. Append(r.buf, [cs |-> cs, id |-> id]) \in Seq(Command)
      BY <2>2, <3>1
    <3>3. QED
      BY <1>1, <3>2 DEF NodeState
  <2>4. q \in NodeState
    BY <2>1, <2>3, CsTimerTyped
  <2>5. a.buf # <<>> /\ a.wait = r.wait /\ a.startup = r.startup
        /\ a.recv000 = r.recv000
    BY <1>1, <2>2 DEF NodeState
  <2>6. SameService(r, q) /\ q.startup = r.startup /\ q.recv000 = r.recv000
    BY <1>1, <2>1, <2>3, <2>5 DEF SameService, CsTimer, NodeState
  <2>7. Unstuck(q) /\ q.wait <= Inhibit[n]
    <3>1. CASE r.wait > 0
      BY <3>1, <2>1, <2>3, <2>5, <1>1
      DEF CsTimer, NodeState, Unstuck, RoleLoaded, Resettable
    <3>2. CASE ~(r.wait > 0)
      <4>1. r.buf = <<>>
        BY <3>2 DEF RoleLoaded, Resettable, Unstuck
      <4>2. Tail(a.buf) = <<>>
        BY <4>1, <1>1, <2>2 DEF NodeState
      <4>3. q.buf = <<>> /\ q.wait = Inhibit[n]
        BY <4>2, <3>2, <2>1, <2>3, <2>5 DEF CsTimer, NodeState
      <4>4. QED
        BY <4>3 DEF Unstuck
    <3>3. QED
      BY <3>1, <3>2
  <2>8. "master" \in StoredStartup[n]
    BY DEF RoleLoaded, IsMaster
  <2>9. QED
    BY <2>4, <2>6, <2>7, <2>8 DEF RoleLoaded, Resettable, IsMaster
<1>4. QED
  BY <1>2, <1>3

LEMMA StartGood ==
  ASSUME NEW n \in Node, NEW r, RoleLoaded(n, r), r.hb = r.od1017,
         r.listen <=> IsMaster(r)
  PROVE  Good(n, EnterStart(r)) /\ EnterStart(r).fsm = "start"
<1>1. r \in NodeState
  BY DEF RoleLoaded, Resettable
<1>2. StartSrv \in SUBSET Service
  BY DEF StartSrv, PreopSrv, Service
<1>3. EnterStart(r) \in NodeState
  BY <1>1, <1>2 DEF EnterStart, SrvSet, NodeState, Fsm, St
<1>4. NodeInv(n, EnterStart(r))
  BY <1>1 DEF EnterStart, SrvSet, NodeState, RoleLoaded, Resettable, NodeInv,
     InRole, Serving, Unstuck, Producing, Coherent, IsMaster, Running, Operating
<1>5. QED
  BY <1>1, <1>3, <1>4 DEF Good, EnterStart, SrvSet, NodeState

LEMMA StopGood ==
  ASSUME NEW n \in Node, NEW r, RoleLoaded(n, r), r.hb = r.od1017,
         r.listen <=> IsMaster(r)
  PROVE  Good(n, EnterStop(r)) /\ EnterStop(r).fsm = "stop"
<1>1. r \in NodeState
  BY DEF RoleLoaded, Resettable
<1>2. EnterStop(r) \in NodeState
  BY <1>1 DEF EnterStop, SrvSet, StopSrv, NodeState, Fsm, St
<1>3. NodeInv(n, EnterStop(r))
  BY <1>1 DEF EnterStop, SrvSet, NodeState, RoleLoaded, Resettable, NodeInv,
     InRole, Serving, Unstuck, Producing, Coherent, IsMaster, Running, Operating
<1>4. QED
  BY <1>1, <1>2, <1>3 DEF Good, EnterStop, SrvSet, NodeState

LEMMA StartupGood ==
  ASSUME NEW n \in Node, NEW r, RoleLoaded(n, r), r.hb = r.od1017,
         r.listen <=> IsMaster(r),
         r.fsm = "preop", r.st = "PREOP", r.srv = PreopSrv
  PROVE  Good(n, StartupSlave(r)) /\ StartupSlave(r).fsm \in Operating
<1>1. Good(n, r)
  BY DEF Good, NodeState, RoleLoaded, Resettable, NodeInv, InRole, Serving,
     Unstuck, Producing, Coherent, IsMaster, Running, Operating
<1>2. QED
  BY <1>1, StartGood DEF StartupSlave, Operating

LEMMA PreopGood ==
  ASSUME NEW n \in Node, NEW r, RoleLoaded(n, r), r.hb = r.od1017
  PROVE  Good(n, EnterPreop(n, r)) /\ EnterPreop(n, r).fsm \in Operating
<1> DEFINE p == [SrvSet(SlavesFini(r), PreopSrv) EXCEPT !.fsm = "preop",
                                                       !.st = "PREOP"]
           i == SlavesInit(p)
           q == QueueCommand(n, i, "RESET_COMM", 0)
<1>1. r \in NodeState /\ SlavesFini(r) \in NodeState
  BY SlavesTyped DEF RoleLoaded, Resettable
<1>2. p \in NodeState
  BY <1>1 DEF SrvSet, PreopSrv, Service, NodeState, Fsm, St
<1>3. /\ RoleLoaded(n, p) /\ p.hb = p.od1017 /\ ~p.listen
      /\ p.fsm = "preop" /\ p.st = "PREOP" /\ p.srv = PreopSrv
  BY <1>1, <1>2 DEF SlavesFini, SrvSet, NodeState, RoleLoaded, Resettable,
     Unstuck, IsMaster
<1>4. CASE ~IsMaster(p)
  <2>1. EnterPreop(n, r) = StartupSlave(p)
    BY <1>4 DEF EnterPreop
  <2> HIDE DEF p
  <2>2. QED
    BY <2>1, <1>3, <1>4, StartupGood
<1>5. CASE IsMaster(p)
  <2>1. EnterPreop(n, r) = StartupSlave(q)
    BY <1>5 DEF EnterPreop, StartupMaster
  <2> HIDE DEF p
  <2>2. i \in NodeState
    BY <1>2, SlavesTyped
  <2>3. /\ RoleLoaded(n, i) /\ i.hb = i.od1017 /\ i.listen /\ IsMaster(i)
        /\ i.fsm = "preop" /\ i.st = "PREOP" /\ i.srv = PreopSrv
    BY <1>2, <1>3, <1>5, <2>2 DEF SlavesInit, SlavesFini, NodeState, RoleLoaded,
       Resettable, Unstuck, IsMaster
  <2> HIDE DEF i
  <2>4. RoleLoaded(n, q) /\ SameService(i, q)
    BY <2>3, QueueLoaded DEF Cs, Target
  <2>5. IsMaster(q)
    BY <2>3, <2>4 DEF RoleLoaded, IsMaster
  <2> HIDE DEF q
  <2>6. QED
    BY <2>1, <2>3, <2>4, <2>5, StartupGood DEF SameService
<1>6. QED
  BY <1>4, <1>5

-----------------------------------------------------------------------------
(* The resets                                                              *)

LEMMA GoodFacts ==
  ASSUME NEW n \in Node, NEW r, Good(n, r)
  PROVE  /\ Resettable(n, r)
         /\ r.fsm \in Running => RoleLoaded(n, r)
         /\ r.fsm \in Operating => /\ r.hb = r.od1017
                                   /\ r.listen <=> IsMaster(r)
BY DEF Good, NodeInv, Resettable, RoleLoaded, InRole, Unstuck, Producing,
   Coherent, IsMaster, Running, Operating

LEMMA BootupGood ==
  ASSUME NEW n \in Node, NEW r, RoleLoaded(n, r),
         ~r.listen, r.srv = {}, ~r.hb
  PROVE  Good(n, EnterBootup(n, r)) /\ EnterBootup(n, r).fsm \in Running
<1> DEFINE f == [kind |-> "ec", id |-> n, st |-> "BOOTUP"]
           e == [EcSet(r, r.od1017) EXCEPT !.tx = Append(r.tx, f)]
<1>1. r \in NodeState
  BY DEF RoleLoaded, Resettable
<1>2. CASE n \in Unconfigured
  <2>1. EnterBootup(n, r) = [r EXCEPT !.fsm = "bootup"]
    BY <1>2 DEF EnterBootup
  <2>2. EnterBootup(n, r) \in NodeState
    BY <1>1, <2>1 DEF NodeState, Fsm
  <2>3. NodeInv(n, EnterBootup(n, r))
    BY <1>1, <2>1 DEF NodeState, RoleLoaded, Resettable, NodeInv, InRole,
       Serving, StopSrv, Unstuck, Producing, Coherent, IsMaster, Running,
       Operating
  <2>4. QED
    BY <1>1, <2>1, <2>2, <2>3 DEF Good, NodeState, Running
<1>3. CASE n \notin Unconfigured
  <2>1. Append(r.tx, f) \in Seq(Frame)
    <3>1. f \in Frame
      BY DEF Frame, EcFrame, St
    <3>2. r.tx \in Seq(Frame)
      BY <1>1 DEF NodeState
    <3>3. QED
      BY <3>1, <3>2
  <2>2. EnterBootup(n, r) = EnterPreop(n, e)
    BY <1>1, <1>3 DEF EnterBootup, EcSet, NodeState
  <2> HIDE DEF f
  <2>3. RoleLoaded(n, e) /\ e.hb = e.od1017
    BY <1>1, <2>1 DEF EcSet, NodeState, RoleLoaded, Resettable, Unstuck, IsMaster
  <2> HIDE DEF e
  <2>4. QED
    BY <2>2, <2>3, PreopGood DEF Running
<1>4. QED
  BY <1>2, <1>3

LEMMA ResetCommGood ==
  ASSUME NEW n \in Node, NEW r, Resettable(n, r)
  PROVE  Good(n, EnterResetComm(n, r)) /\ EnterResetComm(n, r).fsm \in Running
<1> USE StoredAssumption
<1> DEFINE l == [EcSet(SrvSet(SlavesFini(r), {}), FALSE) EXCEPT
                   !.od1F80 = StoredStartup[n], !.od1017 = StoredProducer[n],
                   !.startup = StoredStartup[n],
                   !.st = "RESET_COMM",
                   !.recv000 = ("master" \notin StoredStartup[n])]
<1>1. r \in NodeState /\ SlavesFini(r) \in NodeState
  BY SlavesTyped DEF Resettable
<1>2. l \in NodeState
  BY <1>1 DEF EcSet, SrvSet, NodeState, St
<1>3. RoleLoaded(n, l) /\ ~l.listen /\ l.srv = {} /\ ~l.hb
  BY <1>1, <1>2 DEF EcSet, SrvSet, SlavesFini, NodeState, RoleLoaded,
     Resettable, Unstuck, IsMaster
<1>4. EnterResetComm(n, r) = EnterBootup(n, l)
  BY DEF EnterResetComm
<1> HIDE DEF l
<1>5. QED
  BY <1>3, <1>4, BootupGood

LEMMA ResetNodeGood ==
  ASSUME NEW n \in Node, NEW r, Resettable(n, r)
  PROVE  Good(n, EnterResetNode(n, r)) /\ EnterResetNode(n, r).fsm \in Running
<1> DEFINE l == [EcSet(SrvSet(SlavesFini(r), {}), FALSE) EXCEPT
                   !.recv000 = FALSE, !.st = "RESET_NODE"]
<1>1. r \in NodeState /\ SlavesFini(r) \in NodeState
  BY SlavesTyped DEF Resettable
<1>2. Resettable(n, l)
  BY <1>1 DEF EcSet, SrvSet, SlavesFini, NodeState, Resettable, Unstuck, St
<1>3. EnterResetNode(n, r) = EnterResetComm(n, l)
  BY DEF EnterResetNode
<1> HIDE DEF l
<1>4. QED
  BY <1>2, <1>3, ResetCommGood

-----------------------------------------------------------------------------
(* The handlers                                                            *)

LEMMA OnCsGood ==
  ASSUME NEW n \in Node, NEW r, Good(n, r), r.fsm # "off", NEW cs \in Cs
  PROVE  Good(n, OnCs(n, r, cs))
<1>1. CASE cs = "RESET_NODE"
  BY <1>1, GoodFacts, ResetNodeGood DEF OnCs
<1>2. CASE cs = "RESET_COMM" /\ r.fsm # "init"
  BY <1>2, GoodFacts, ResetCommGood DEF OnCs
<1>3. CASE cs = "START" /\ r.fsm \in {"preop", "stop"}
  BY <1>3, GoodFacts, StartGood DEF OnCs, Operating, Running
<1>4. CASE cs = "STOP" /\ r.fsm \in {"preop", "start"}
  BY <1>4, GoodFacts, StopGood DEF OnCs, Operating, Running
<1>5. CASE cs = "ENTER_PREOP" /\ r.fsm \in {"start", "stop"}
  BY <1>5, GoodFacts, PreopGood DEF OnCs, Operating, Running
<1>6. CASE /\ cs # "RESET_NODE" /\ ~(cs = "RESET_COMM" /\ r.fsm # "init")
           /\ ~(cs = "START" /\ r.fsm \in {"preop", "stop"})
           /\ ~(cs = "STOP" /\ r.fsm \in {"preop", "start"})
           /\ ~(cs = "ENTER_PREOP" /\ r.fsm \in {"start", "stop"})
  BY <1>6 DEF OnCs
<1>7. QED
  BY <1>1, <1>2, <1>3, <1>4, <1>5, <1>6

LEMMA QueueGood ==
  ASSUME NEW n \in Node, NEW r, Good(n, r), IsMaster(r),
         NEW cs \in Cs, NEW id \in Target
  PROVE  Good(n, QueueCommand(n, r, cs, id))
<1> DEFINE q == QueueCommand(n, r, cs, id)
<1>1. r.fsm \in Running /\ RoleLoaded(n, r)
  BY GoodFacts DEF Good, NodeInv, Coherent, IsMaster
<1>2. RoleLoaded(n, q) /\ SameService(r, q)
  BY <1>1, QueueLoaded
<1> HIDE DEF q
<1>3. NodeInv(n, q)
  BY <1>1, <1>2 DEF Good, NodeInv, InRole, Serving, Unstuck, Producing, Coherent,
     RoleLoaded, Resettable, SameService, IsMaster, Running
<1>4. QED
  BY <1>2, <1>3 DEF Good, RoleLoaded, Resettable, q

LEMMA CsReqGood ==
  ASSUME NEW n \in Node, NEW r, Good(n, r), r.fsm # "off",
         NEW cs \in Cs, NEW id \in Target
  PROVE  Good(n, CsReq(n, r, cs, id))
BY OnCsGood, QueueGood DEF CsReq

LEMMA DispatchGood ==
  ASSUME NEW n \in Node, NEW r, Good(n, r), r.fsm # "off", NEW f \in Frame
  PROVE  Good(n, Dispatch(n, r, f))
<1>1. CASE f.kind = "nmt"
  <2>1. f.cs \in Cs
    BY <1>1 DEF Frame, NmtFrame, EcFrame
  <2>2. Good(n, Recv000(n, r, f))
    BY <2>1, OnCsGood DEF Recv000
  <2>3. QED
    BY <1>1, <2>2 DEF Dispatch
<1>2. CASE f.kind = "ec"
  <2>1. f.id \in Node
    BY <1>2 DEF Frame, NmtFrame, EcFrame
  <2>2. Recv700(r, f) \in NodeState
    BY <2>1 DEF Recv700, Good, NodeState, Est
  <2>3. NodeInv(n, Recv700(r, f))
    BY DEF Recv700, Good, NodeState, NodeInv, InRole, Serving, Unstuck,
       Producing, Coherent, IsMaster
  <2>4. QED
    BY <1>2, <2>2, <2>3 DEF Dispatch, Good
<1>3. QED
  BY <1>1, <1>2 DEF Dispatch

-----------------------------------------------------------------------------
(* The steps of the bus                                                    *)

LEMMA CreatedGood ==
  ASSUME NEW n \in Node
  PROVE  /\ Good(n, Off)
         /\ Good(n, [Created EXCEPT !.od1F80 = StoredStartup[n],
                                    !.od1017 = StoredProducer[n]])
<1> USE StoredAssumption, BoundAssumption
<1> DEFINE c == [Created EXCEPT !.od1F80 = StoredStartup[n],
                                !.od1017 = StoredProducer[n]]
<1>1. Created \in NodeState
  <2>1. [s \in Node |-> "none"] \in [Node -> Est]
    BY DEF Est
  <2>2. QED
    BY <2>1 DEF Created, NodeState, Fsm, St
<1>2. Off \in NodeState /\ c \in NodeState
  BY <1>1 DEF Off, NodeState, Fsm
<1>3. NodeInv(n, Off)
  BY DEF Off, Created, NodeInv, InRole, Serving, StopSrv, Unstuck, Producing,
     Coherent, IsMaster, Running, Operating
<1>4. NodeInv(n, c)
  BY DEF Created, NodeInv, InRole, Serving, StopSrv, Unstuck, Producing,
     Coherent, IsMaster, Running, Operating
<1>5. QED
  BY <1>2, <1>3, <1>4 DEF Good

LEMMA ApplyInv ==
  ASSUME IInv, NEW n \in Node, NEW r, Good(n, r),
         NEW queues \in [Node -> Seq(Frame)], Apply(n, r, queues)
  PROVE  IInv'
<1> DEFINE d == [r EXCEPT !.tx = <<>>]
<1>1. Good(n, d)
  <2>1. r \in NodeState
    BY DEF Good
  <2>2. d \in NodeState
    <3>1. <<>> \in Seq(Frame)
      OBVIOUS
    <3>2. QED
      BY <2>1, <3>1 DEF NodeState
  <2>3. NodeInv(n, d)
    BY <2>1 DEF Good, NodeState, NodeInv, InRole, Serving, Unstuck, Producing,
       Coherent, IsMaster
  <2>4. QED
    BY <2>2, <2>3 DEF Good
<1>2. nmt' = [nmt EXCEPT ![n] = d]
  BY DEF Apply
<1>3. r.tx \in Seq(Frame)
  BY DEF Good, NodeState
<1> HIDE DEF d
<1>4. nmt' \in [Node -> NodeState]
  BY <1>1, <1>2 DEF IInv, TypeOK, Good
<1>5. rx' \in [Node -> Seq(Frame)]
  <2>1. \A m \in Node : queues[m] \in Seq(Frame)
    OBVIOUS
  <2>2. \A m \in Node : queues[m] \o r.tx \in Seq(Frame)
    BY <1>3, <2>1
  <2>3. QED
    BY <2>1, <2>2 DEF Apply
<1>6. \A m \in Node : NodeInv(m, nmt'[m])
  BY <1>1, <1>2 DEF IInv, TypeOK, Good
<1>7. QED
  BY <1>4, <1>5, <1>6 DEF IInv, TypeOK, NodeInv, InRole, Serving, Unstuck,
     Producing, Coherent

LEMMA NodeStepInv ==
  ASSUME IInv, NEW n \in Node, NodeStep(n)
  PROVE  IInv'
<1>1. /\ nmt \in [Node -> NodeState] /\ rx \in [Node -> Seq(Frame)]
      /\ \A m \in Node : NodeInv(m, nmt[m])
  BY DEF IInv, TypeOK
<1>2. Good(n, nmt[n])
  BY <1>1 DEF Good
<1>3. CASE Create(n)
  BY <1>1, <1>3, CreatedGood DEF Create, IInv, TypeOK, Good
<1>4. CASE Crash(n)
  <2>1. <<>> \in Seq(Frame)
    OBVIOUS
  <2>2. rx' \in [Node -> Seq(Frame)]
    BY <1>1, <1>4, <2>1 DEF Crash
  <2>3. nmt' \in [Node -> NodeState] /\ \A m \in Node : NodeInv(m, nmt'[m])
    BY <1>1, <1>4, CreatedGood DEF Crash, Good
  <2>4. QED
    BY <2>2, <2>3 DEF IInv, TypeOK, NodeInv, InRole, Serving, Unstuck, Producing,
       Coherent
<1>5. CASE \E cs \in Cs : LocalCommand(n, cs)
  BY <1>1, <1>2, <1>5, OnCsGood, ApplyInv DEF LocalCommand, On
<1>6. CASE \E cs \in Cs, id \in Target : Request(n, cs, id)
  BY <1>1, <1>2, <1>6, CsReqGood, ApplyInv DEF Request, On
<1>7. CASE Receive(n)
  <2>1. Head(rx[n]) \in Frame /\ Tail(rx[n]) \in Seq(Frame)
    BY <1>1, <1>7 DEF Receive
  <2>2. Good(n, Dispatch(n, nmt[n], Head(rx[n])))
    BY <1>2, <1>7, <2>1, DispatchGood DEF Receive, On
  <2>3. [rx EXCEPT ![n] = Tail(@)] \in [Node -> Seq(Frame)]
    BY <1>1, <2>1
  <2>4. QED
    BY <1>7, <2>2, <2>3, ApplyInv DEF Receive
<1>8. CASE Heartbeat(n)
  <2> DEFINE f == [kind |-> "ec", id |-> n, st |-> nmt[n].st]
             r == [nmt[n] EXCEPT !.tx = <<f>>]
  <2>1. f \in Frame /\ nmt[n] \in NodeState
    BY <1>1 DEF Frame, EcFrame, NodeState
  <2>2. <<f>> \in Seq(Frame)
    BY <2>1
  <2> HIDE DEF f
  <2>3. Good(n, r)
    BY <1>2, <2>1, <2>2 DEF Good, NodeState, NodeInv, InRole, Serving, Unstuck,
       Producing, Coherent, IsMaster
  <2>4. Apply(n, r, rx)
    BY <1>8 DEF Heartbeat, f
  <2>5. QED
    BY <1>1, <2>3, <2>4, ApplyInv
<1>9. CASE Tick(n)
  <2> DEFINE r == [nmt[n] EXCEPT !.wait = @ - 1]
             q == CsTimer(n, r)
  <2>1. nmt[n] \in NodeState /\ nmt[n].wait \in Nat /\ nmt[n].wait > 0
    BY <1>1, <1>9 DEF Tick, NodeState
  <2>2. r \in NodeState
    BY <2>1 DEF NodeState
  <2>3. Inhibit[n] \in Nat \ {0}
    BY <1>2, <2>1, BoundAssumption DEF Good, NodeInv, Coherent
  <2>4. CASE r.csTimer /\ r.wait = 0
    <3>1. q \in NodeState
      BY <2>2, CsTimerTyped
    <3>2. /\ SameService(r, q) /\ q.startup = r.startup /\ q.recv000 = r.recv000
          /\ q.wait <= Inhibit[n] /\ Unstuck(q)
      <4> HIDE DEF r
      <4>1. CASE r.buf = <<>>
        BY <2>2, <2>3, <2>4, <4>1 DEF CsTimer, NodeState, SameService, Unstuck
      <4>2. CASE r.buf # <<>>
        <5>1. q.wait = Inhibit[n] /\ (q.buf # <<>> => q.csTimer)
          BY <2>2, <2>4, <4>2 DEF CsTimer, NodeState
        <5>2. SameService(r, q) /\ q.startup = r.startup /\ q.recv000 = r.recv000
          BY <2>2, <2>4, <4>2 DEF CsTimer, NodeState, SameService
        <5>3. Unstuck(q) /\ q.wait <= Inhibit[n]
          <6> HIDE DEF q
          <6>1. QED
            BY <2>3, <5>1 DEF Unstuck
        <5>4. QED
          BY <5>2, <5>3
      <4>3. QED
        BY <4>1, <4>2
    <3>3. /\ SameService(nmt[n], r) /\ r.startup = nmt[n].startup
          /\ r.recv000 = nmt[n].recv000 /\ nmt[n].csTimer
      BY <2>1, <2>4 DEF NodeState, SameService
    <3> HIDE DEF r, q
    <3>4. NodeInv(n, q)
      BY <1>2, <3>2, <3>3 DEF Good, NodeInv, InRole, Serving, Producing, Coherent,
         SameService, IsMaster
    <3>5. QED
      BY <1>1, <1>9, <2>4, <3>1, <3>4, ApplyInv DEF Good, Tick, r, q
  <2>5. CASE ~(r.csTimer /\ r.wait = 0)
    <3>1. NodeInv(n, r)
      BY <1>2, <2>1, <2>2, <2>3, <2>5 DEF Good, NodeState, NodeInv, InRole,
         Serving, Unstuck, Producing, Coherent, IsMaster
    <3>2. Apply(n, r, rx)
      BY <1>9, <2>5 DEF Tick
    <3>3. QED
      BY <1>1, <2>2, <3>1, <3>2, ApplyInv DEF Good
  <2>6. QED
    BY <2>4, <2>5
<1>10. CASE \E on \in ClientProducer : WriteProducer(n, on)
  <2> PICK on \in ClientProducer : WriteProducer(n, on)
    BY <1>10
  <2> DEFINE r == EcSet([nmt[n] EXCEPT !.od1017 = on], on)
  <2>1. on \in BOOLEAN /\ nmt[n] \in NodeState
    BY <1>1, BoundAssumption
  <2>2. r \in NodeState
    BY <2>1 DEF EcSet, NodeState
  <2>3. NodeInv(n, r)
    BY <1>2, <2>1 DEF WriteProducer, Good, EcSet, NodeState, NodeInv, InRole,
       Serving, StopSrv, Unstuck, Producing, Coherent, IsMaster, Operating
  <2>4. QED
    BY <1>1, <2>2, <2>3, ApplyInv DEF WriteProducer, Good
<1>11. CASE \E bits \in ClientStartup : WriteStartup(n, bits)
  <2> PICK bits \in ClientStartup : WriteStartup(n, bits)
    BY <1>11
  <2> DEFINE r == [nmt[n] EXCEPT !.od1F80 = bits]
  <2>1. bits \in SUBSET Bit /\ nmt[n] \in NodeState
    BY <1>1, BoundAssumption
  <2>2. r \in NodeState
    BY <2>1 DEF NodeState
  <2>3. NodeInv(n, r)
    BY <1>2, <2>1 DEF Good, NodeState, NodeInv, InRole, Serving, Unstuck,
       Producing, Coherent, IsMaster
  <2>4. QED
    BY <1>1, <2>2, <2>3, ApplyInv DEF WriteStartup, Good
<1>12. QED
  BY <1>3, <1>4, <1>5, <1>6, <1>7, <1>8, <1>9, <1>10, <1>11 DEF NodeStep

\* IInv is inductive, also on a bus that loses frames.
THEOREM Inductive == Spec => []IInv
<1>1. Init => IInv
  <2>1. <<>> \in Seq(Frame)
    OBVIOUS
  <2>2. Init => TypeOK /\ \A n \in Node : NodeInv(n, nmt[n])
    BY <2>1, CreatedGood DEF Init, TypeOK, Good
  <2>3. QED
    BY <2>2 DEF IInv
<1>2. IInv /\ [Next]_vars => IInv'
  <2> SUFFICES ASSUME IInv, [Next]_vars
               PROVE  IInv'
    OBVIOUS
  <2>1. ASSUME NEW n \in Node, NodeStep(n)
        PROVE  IInv'
    BY <2>1, NodeStepInv
  <2>2. ASSUME NEW n \in Node, Lose(n)
        PROVE  IInv'
    BY <2>2 DEF Lose, IInv, TypeOK
  <2>3. CASE UNCHANGED vars
    BY <2>3 DEF vars, IInv, TypeOK
  <2>4. QED
    BY <2>1, <2>2, <2>3 DEF Next
<1>3. QED
  BY <1>1, <1>2, PTL DEF Spec

\* Every field of every node and every queue keeps its type.
THEOREM TypeCorrect == Spec => []TypeOK
<1>1. IInv => TypeOK
  BY DEF IInv
<1>2. QED
  BY <1>1, Inductive, PTL

\* The three assertions on the role of a node in co_nmt.c never fail.
THEOREM RolesAreRespected == Spec => []RolesRespected
<1>1. IInv => RolesRespected
  BY DEF IInv, NodeInv, RolesRespected
<1>2. QED
  BY <1>1, Inductive, PTL

\* The enabled services and the reported state follow the state machine.
THEOREM ServicesAreThoseOfTheState == Spec => []ServicesMatchState
<1>1. IInv => ServicesMatchState
  BY DEF IInv, NodeInv, ServicesMatchState
<1>2. QED
  BY <1>1, Inductive, PTL

\* A buffered command of the master always has a timer that will send it.
THEOREM CommandsAreSent == Spec => []NoStuckCommand
<1>1. IInv => NoStuckCommand
  BY DEF IInv, NodeInv, NoStuckCommand
<1>2. QED
  BY <1>1, Inductive, PTL

\* Heartbeat production follows object 1017.
THEOREM ProducersFollowTheObject == Spec => []ProducerFollowsObject
<1>1. IInv => ProducerFollowsObject
  BY DEF IInv, NodeInv, ProducerFollowsObject
<1>2. QED
  BY <1>1, Inductive, PTL

-----------------------------------------------------------------------------
(* What a handler sends.  The two properties about masters and slaves relate  *)
(* the records of two nodes and the frames between them; they hold on a       *)
(* lossless bus, whose configuration names one master.                        *)

IsMasterNode(n) == "master" \in StoredStartup[n]

OneMaster == \A m, s \in Node : IsMasterNode(m) /\ IsMasterNode(s) => m = s

Lossless == Init /\ [][NextLossless]_vars

\* No handler is running between two steps.
Idle == \A n \in Node : nmt[n].tx = <<>>

BootFrame(n) == [kind |-> "ec", id |-> n, st |-> "BOOTUP"]

\* The error control frames of a node carry its node-ID, and only the master
\* sends commands.
Own(n, tx) ==
  \A f \in Range(tx) : IF f.kind = "ec" THEN f.id = n ELSE IsMasterNode(n)

NothingExpected(r) == \A s \in Node : r.est[s] = "none"

\* Node n has entered the pre-operational state: it expects nothing of any
\* slave, and a master without inhibit time has told all of them to reset.
Entered(n, q) ==
  /\ NothingExpected(q)
  /\ Own(n, q.tx)
  /\ n \notin Unconfigured
  /\ IsMaster(q) /\ Inhibit[n] = 0 => NmtFrameOf(ResetAll) \in Range(q.tx)

\* Node n has run through a reset: it operates only after its boot-up message.
Restarted(n, q) ==
  /\ NothingExpected(q)
  /\ Own(n, q.tx)
  /\ q.fsm \in Operating => Entered(n, q) /\ BootFrame(n) \in Range(q.tx)

\* From r to q the first command of the buffer may have been sent.
SendsOne(r, q) ==
  /\ q.boot = r.boot
  /\ \/ q.tx = r.tx /\ q.est = r.est
     \/ \E c \in Command : /\ q.tx = Append(r.tx, NmtFrameOf(c))
                           /\ q.est = EstAfter(r.est, c)

LEMMA RangeOfAppend ==
  ASSUME NEW S, NEW q \in Seq(S), NEW e \in S
  PROVE  Range(Append(q, e)) = Range(q) \cup {e}
<1> DEFINE t == Append(q, e)
<1>1. /\ t \in Seq(S) /\ Len(t) = Len(q) + 1 /\ t[Len(q) + 1] = e
      /\ \A i \in 1 .. Len(q) : t[i] = q[i]
  BY AppendProperties
<1>2. DOMAIN t = 1 .. Len(q) + 1 /\ DOMAIN q = 1 .. Len(q) /\ Len(q) \in Nat
  BY <1>1, LenProperties
<1> HIDE DEF t
<1>3. QED
  BY <1>1, <1>2 DEF Range, t

LEMMA RangeOfConcat ==
  ASSUME NEW S, NEW q \in Seq(S), NEW t \in Seq(S)
  PROVE  Range(q \o t) = Range(q) \cup Range(t)
<1> DEFINE u == q \o t
<1>1. /\ Len(u) = Len(q) + Len(t)
      /\ \A i \in 1 .. Len(u) : u[i] = IF i <= Len(q) THEN q[i] ELSE t[i - Len(q)]
      /\ u \in Seq(S)
  BY ConcatProperties
<1>2. /\ DOMAIN u = 1 .. Len(q) + Len(t) /\ DOMAIN q = 1 .. Len(q)
      /\ DOMAIN t = 1 .. Len(t) /\ Len(q) \in Nat /\ Len(t) \in Nat
  BY <1>1, LenProperties
<1> HIDE DEF u
<1>3. Range(q) \subseteq Range(u)
  BY <1>1, <1>2 DEF Range
<1>4. ASSUME NEW i \in DOMAIN t
      PROVE  t[i] \in Range(u)
  <2>1. i + Len(q) \in DOMAIN u /\ u[i + Len(q)] = t[i]
    BY <1>1, <1>2, <1>4
  <2>2. QED
    BY <2>1 DEF Range
<1>5. ASSUME NEW i \in DOMAIN u
      PROVE  u[i] \in Range(q) \cup Range(t)
  <2>1. CASE i <= Len(q)
    <3>1. i \in DOMAIN q /\ u[i] = q[i]
      BY <1>1, <1>2, <1>5, <2>1
    <3>2. QED
      BY <3>1 DEF Range
  <2>2. CASE ~(i <= Len(q))
    <3>1. i - Len(q) \in DOMAIN t /\ u[i] = t[i - Len(q)]
      BY <1>1, <1>2, <1>5, <2>2
    <3>2. QED
      BY <3>1 DEF Range
  <2>3. QED
    BY <2>1, <2>2
<1>6. QED
  BY <1>3, <1>4, <1>5 DEF Range, u

LEMMA RangeOfTail ==
  ASSUME NEW S, NEW q \in Seq(S), q # <<>>
  PROVE  Range(q) = {Head(q)} \cup Range(Tail(q))
<1>1. /\ Head(q) \in S /\ Tail(q) \in Seq(S) /\ Len(Tail(q)) = Len(q) - 1
      /\ Head(q) = q[1] /\ \A i \in 1 .. Len(Tail(q)) : Tail(q)[i] = q[i + 1]
  BY HeadTailProperties
<1>2. /\ DOMAIN q = 1 .. Len(q) /\ DOMAIN Tail(q) = 1 .. Len(q) - 1
      /\ Len(q) \in Nat /\ Len(q) >= 1
  BY <1>1, LenProperties, EmptySeq
<1> DEFINE t == Tail(q)
           h == Head(q)
<1>3. Range(t) \subseteq Range(q)
  BY <1>1, <1>2 DEF Range
<1>4. h \in Range(q)
  BY <1>1, <1>2 DEF Range
<1>5. ASSUME NEW i \in DOMAIN q, i # 1
      PROVE  q[i] \in Range(t)
  <2>1. i - 1 \in 1 .. Len(t) /\ i - 1 \in DOMAIN t /\ t[i - 1] = q[(i - 1) + 1]
    BY <1>1, <1>2, <1>5
  <2>2. (i - 1) + 1 = i
    BY <1>2
  <2>3. QED
    BY <2>1, <2>2 DEF Range
<1>6. Range(q) \subseteq {h} \cup Range(t)
  BY <1>1, <1>5 DEF Range
<1>7. QED
  BY <1>3, <1>4, <1>6

LEMMA CsTimerSends ==
  ASSUME NEW n \in Node, NEW r \in NodeState
  PROVE  /\ SendsOne(r, CsTimer(n, r))
         /\ SameService(r, CsTimer(n, r))
         /\ r.buf # <<>> /\ r.wait = 0
              => CsTimer(n, r).tx = Append(r.tx, NmtFrameOf(Head(r.buf)))
<1> DEFINE q == CsTimer(n, r)
           c == Head(r.buf)
<1>1. CASE r.buf = <<>> \/ r.wait > 0
  BY <1>1 DEF CsTimer, NodeState, SendsOne, SameService
<1>2. CASE r.buf # <<>> /\ ~(r.wait > 0)
  <2>1. c \in Command
    BY <1>2 DEF NodeState
  <2>2. /\ q.tx = Append(r.tx, NmtFrameOf(c)) /\ q.est = EstAfter(r.est, c)
        /\ q.boot = r.boot /\ SameService(r, q)
    BY <1>2 DEF CsTimer, NodeState, SameService
  <2> HIDE DEF q, c
  <2>3. QED
    BY <2>1, <2>2 DEF SendsOne, q, c
<1>3. QED
  BY <1>1, <1>2

LEMMA QueueSends ==
  ASSUME NEW n \in Node, NEW r \in NodeState, NEW cs \in Cs, NEW id \in Target
  PROVE  /\ SendsOne(r, QueueCommand(n, r, cs, id))
         /\ SameService(r, QueueCommand(n, r, cs, id))
         /\ r.buf = <<>> /\ r.wait = 0
              => QueueCommand(n, r, cs, id).tx
                   = Append(r.tx, NmtFrameOf([cs |-> cs, id |-> id]))
<1> USE BoundAssumption
<1> DEFINE c == [cs |-> cs, id |-> id]
           a == [r EXCEPT !.buf = Append(r.buf, c)]
           q == QueueCommand(n, r, cs, id)
<1>1. CASE Len(r.buf) = BufSize
  BY <1>1 DEF QueueCommand, SendsOne, SameService
<1>2. CASE Len(r.buf) # BufSize
  <2>1. q = CsTimer(n, a)
    BY <1>2 DEF QueueCommand, NodeState
  <2>2. c \in Command /\ r.buf \in Seq(Command)
    BY DEF Command, NodeState
  <2>3. Append(r.buf, c) \in Seq(Command)
    BY <2>2
  <2>4. a \in NodeState
    BY <2>3 DEF NodeState
  <2>5. /\ a.tx = r.tx /\ a.est = r.est /\ a.boot = r.boot /\ a.wait = r.wait
        /\ SameService(r, a) /\ a.buf = Append(r.buf, c)
    BY DEF NodeState, SameService
  <2>6. r.buf = <<>> => a.buf # <<>> /\ Head(a.buf) = c
    BY <2>2, <2>5
  <2> HIDE DEF a, q, c
  <2>7. QED
    BY <2>1, <2>4, <2>5, <2>6, CsTimerSends DEF SendsOne, SameService, q, c
<1>3. QED
  BY <1>1, <1>2

LEMMA SendsNothingExpected ==
  ASSUME NEW n \in Node, NEW r \in NodeState, NEW q, SendsOne(r, q),
         NothingExpected(r)
  PROVE  NothingExpected(q) /\ Range(r.tx) \subseteq Range(q.tx)
<1>1. CASE q.tx = r.tx /\ q.est = r.est
  BY <1>1 DEF NothingExpected
<1>2. CASE \E c \in Command : /\ q.tx = Append(r.tx, NmtFrameOf(c))
                              /\ q.est = EstAfter(r.est, c)
  <2> PICK c \in Command : /\ q.tx = Append(r.tx, NmtFrameOf(c))
                           /\ q.est = EstAfter(r.est, c)
    BY <1>2
  <2>1. r.tx \in Seq(Frame) /\ NmtFrameOf(c) \in Frame
    BY DEF NodeState, NmtFrameOf, Command, Frame, NmtFrame
  <2>2. NothingExpected(q)
    BY DEF NothingExpected, EstAfter
  <2>3. QED
    BY <2>1, <2>2, RangeOfAppend
<1>3. QED
  BY <1>1, <1>2 DEF SendsOne

LEMMA SendsOwn ==
  ASSUME NEW n \in Node, NEW r \in NodeState, NEW q, SendsOne(r, q),
         IsMasterNode(n), Own(n, r.tx)
  PROVE  Own(n, q.tx)
<1>1. CASE q.tx = r.tx
  BY <1>1
<1>2. CASE \E c \in Command : q.tx = Append(r.tx, NmtFrameOf(c))
  <2> PICK c \in Command : q.tx = Append(r.tx, NmtFrameOf(c))
    BY <1>2
  <2>1. /\ r.tx \in Seq(Frame) /\ NmtFrameOf(c) \in Frame
        /\ NmtFrameOf(c).kind = "nmt"
    BY DEF NodeState, NmtFrameOf, Command, Frame, NmtFrame
  <2>2. QED
    BY <2>1, RangeOfAppend DEF Own
<1>3. QED
  BY <1>1, <1>2 DEF SendsOne

LEMMA PreopSends ==
  ASSUME NEW n \in Node, NEW r, RoleLoaded(n, r), Own(n, r.tx),
         n \notin Unconfigured
  PROVE  /\ Entered(n, EnterPreop(n, r))
         /\ Range(r.tx) \subseteq Range(EnterPreop(n, r).tx)
<1> DEFINE p == [SrvSet(SlavesFini(r), PreopSrv) EXCEPT !.fsm = "preop",
                                                       !.st = "PREOP"]
           i == SlavesInit(p)
           q == QueueCommand(n, i, "RESET_COMM", 0)
           e == EnterPreop(n, r)
<1>1. r \in NodeState /\ SlavesFini(r) \in NodeState
  BY SlavesTyped DEF RoleLoaded, Resettable
<1>2. p \in NodeState
  BY <1>1 DEF SrvSet, PreopSrv, Service, NodeState, Fsm, St
<1>3. /\ p.tx = r.tx /\ NothingExpected(p) /\ p.buf = r.buf /\ p.wait = r.wait
      /\ p.startup = r.startup
  BY <1>1, <1>2 DEF SlavesFini, SrvSet, NodeState, NothingExpected
<1>4. ASSUME NEW x \in NodeState
      PROVE  LET y == StartupSlave(x) IN
             y.tx = x.tx /\ y.est = x.est /\ y.startup = x.startup
  BY DEF StartupSlave, EnterStart, SrvSet, NodeState
<1>5. CASE ~IsMaster(p)
  <2>1. e = StartupSlave(p)
    BY <1>5 DEF EnterPreop
  <2> HIDE DEF p, e
  <2>2. QED
    BY <1>2, <1>3, <1>4, <1>5, <2>1 DEF Entered, NothingExpected, IsMaster, e
<1>6. CASE IsMaster(p)
  <2>1. e = StartupSlave(q)
    BY <1>6 DEF EnterPreop, StartupMaster
  <2>2. i \in NodeState
    BY <1>2, SlavesTyped
  <2>3. /\ i.tx = r.tx /\ NothingExpected(i) /\ i.buf = r.buf /\ i.wait = r.wait
        /\ i.startup = r.startup
    BY <1>2, <1>3, <2>2 DEF SlavesInit, SlavesFini, NodeState, NothingExpected
  <2>4. RoleLoaded(n, i) /\ IsMaster(i)
    BY <1>1, <1>2, <1>3, <1>6, <2>2, <2>3 DEF RoleLoaded, Resettable, Unstuck, IsMaster,
       SlavesInit, SlavesFini, SrvSet, NodeState
  <2>5. "RESET_COMM" \in Cs /\ 0 \in Target
    BY DEF Cs, Target
  <2> HIDE DEF p, i
  <2>6. SendsOne(i, q)
    BY <2>2, <2>5, QueueSends
  <2>7. RoleLoaded(n, q) /\ q \in NodeState
    BY <2>4, <2>5, QueueLoaded DEF RoleLoaded, Resettable
  <2>8. Inhibit[n] = 0 => i.buf = <<>> /\ i.wait = 0
    BY <2>2, <2>4 DEF RoleLoaded, Resettable, Unstuck, NodeState
  <2>9. Inhibit[n] = 0 => q.tx = Append(r.tx, NmtFrameOf(ResetAll))
    BY <2>2, <2>3, <2>5, <2>8, QueueSends DEF ResetAll
  <2> HIDE DEF q, e
  <2>10. NothingExpected(q) /\ Range(r.tx) \subseteq Range(q.tx)
    BY <2>2, <2>3, <2>6, SendsNothingExpected
  <2>11. Own(n, q.tx)
    BY <2>2, <2>3, <2>4, <2>6, SendsOwn DEF RoleLoaded, IsMaster, IsMasterNode
  <2>12. r.tx \in Seq(Frame) /\ NmtFrameOf(ResetAll) \in Frame
    BY <1>1 DEF NodeState, NmtFrameOf, ResetAll, Frame, NmtFrame, Cs, Target
  <2>13. Inhibit[n] = 0 => NmtFrameOf(ResetAll) \in Range(q.tx)
    <3>1. Range(Append(r.tx, NmtFrameOf(ResetAll)))
            = Range(r.tx) \cup {NmtFrameOf(ResetAll)}
      BY <2>12, RangeOfAppend
    <3>2. QED
      BY <2>9, <3>1
  <2>14. e.tx = q.tx /\ e.est = q.est
    BY <1>4, <2>1, <2>7
  <2>15. QED
    BY <2>10, <2>11, <2>13, <2>14 DEF Entered, NothingExpected, e
<1>7. QED
  BY <1>5, <1>6

LEMMA BootupSends ==
  ASSUME NEW n \in Node, NEW r, RoleLoaded(n, r), NothingExpected(r),
         Own(n, r.tx)
  PROVE  Restarted(n, EnterBootup(n, r))
<1> DEFINE e == [EcSet(r, r.od1017) EXCEPT !.tx = Append(r.tx, BootFrame(n))]
<1>1. r \in NodeState
  BY DEF RoleLoaded, Resettable
<1>2. CASE n \in Unconfigured
  BY <1>1, <1>2 DEF EnterBootup, NodeState, Restarted, NothingExpected, Operating
<1>3. CASE n \notin Unconfigured
  <2>1. BootFrame(n) \in Frame /\ r.tx \in Seq(Frame)
    BY <1>1 DEF BootFrame, Frame, EcFrame, St, NodeState
  <2>2. Append(r.tx, BootFrame(n)) \in Seq(Frame)
    BY <2>1
  <2>3. EnterBootup(n, r) = EnterPreop(n, e)
    BY <1>1, <1>3 DEF EnterBootup, EcSet, NodeState, BootFrame
  <2>4. RoleLoaded(n, e) /\ e.tx = Append(r.tx, BootFrame(n))
    BY <1>1, <2>2 DEF EcSet, NodeState, RoleLoaded, Resettable, Unstuck, IsMaster
  <2>5. Range(e.tx) = Range(r.tx) \cup {BootFrame(n)}
    BY <2>1, <2>4, RangeOfAppend
  <2>6. Own(n, e.tx)
    BY <2>5 DEF Own, BootFrame
  <2> HIDE DEF e
  <2>7. Entered(n, EnterPreop(n, e)) /\ Range(e.tx) \subseteq Range(EnterPreop(n, e).tx)
    BY <1>3, <2>4, <2>6, PreopSends
  <2>8. QED
    BY <2>3, <2>5, <2>7 DEF Restarted, Entered
<1>4. QED
  BY <1>2, <1>3

LEMMA ResetCommSends ==
  ASSUME NEW n \in Node, NEW r, Resettable(n, r), Own(n, r.tx)
  PROVE  Restarted(n, EnterResetComm(n, r))
<1> USE StoredAssumption
<1> DEFINE l == [EcSet(SrvSet(SlavesFini(r), {}), FALSE) EXCEPT
                   !.od1F80 = StoredStartup[n], !.od1017 = StoredProducer[n],
                   !.startup = StoredStartup[n],
                   !.st = "RESET_COMM",
                   !.recv000 = ("master" \notin StoredStartup[n])]
<1>1. r \in NodeState /\ SlavesFini(r) \in NodeState
  BY SlavesTyped DEF Resettable
<1>2. l \in NodeState
  BY <1>1 DEF EcSet, SrvSet, NodeState, St
<1>3. RoleLoaded(n, l)
  BY <1>1, <1>2 DEF EcSet, SrvSet, SlavesFini, NodeState, RoleLoaded,
     Resettable, Unstuck, IsMaster
<1>4. NothingExpected(l) /\ l.tx = r.tx
  BY <1>1, <1>2 DEF EcSet, SrvSet, SlavesFini, NodeState, NothingExpected
<1>5. EnterResetComm(n, r) = EnterBootup(n, l)
  BY DEF EnterResetComm
<1> HIDE DEF l
<1>6. QED
  BY <1>3, <1>4, <1>5, BootupSends

LEMMA ResetNodeSends ==
  ASSUME NEW n \in Node, NEW r, Resettable(n, r), Own(n, r.tx)
  PROVE  Restarted(n, EnterResetNode(n, r))
<1> DEFINE l == [EcSet(SrvSet(SlavesFini(r), {}), FALSE) EXCEPT
                   !.recv000 = FALSE, !.st = "RESET_NODE"]
<1>1. r \in NodeState /\ SlavesFini(r) \in NodeState
  BY SlavesTyped DEF Resettable
<1>2. Resettable(n, l) /\ l.tx = r.tx
  BY <1>1 DEF EcSet, SrvSet, SlavesFini, NodeState, Resettable, Unstuck, St
<1>3. EnterResetNode(n, r) = EnterResetComm(n, l)
  BY DEF EnterResetNode
<1> HIDE DEF l
<1>4. QED
  BY <1>2, <1>3, ResetCommSends

Resets == {"RESET_NODE", "RESET_COMM"}

\* The handler has sent nothing and left the records of the slaves alone.
Kept(r, q) ==
  /\ q.tx = r.tx /\ q.est = r.est /\ q.boot = r.boot /\ q.listen = r.listen
  /\ q.fsm \in Operating <=> r.fsm \in Operating

LEMMA OnCsSends ==
  ASSUME NEW n \in Node, NEW r, Good(n, r), Own(n, r.tx),
         r.fsm \in Operating => n \notin Unconfigured,
         NEW cs \in Cs
  PROVE  LET q == OnCs(n, r, cs) IN
         /\ \/ Restarted(n, q)
            \/ Entered(n, q) /\ r.fsm \in Operating
            \/ Kept(r, q)
         /\ cs \in Resets /\ r.fsm \in Operating => Restarted(n, q)
         /\ cs \in {"START", "STOP"} /\ r.fsm \in Operating => q.st = cs
<1> DEFINE q == OnCs(n, r, cs)
<1>1. r \in NodeState /\ Serving(r)
  BY DEF Good, NodeInv
<1>2. CASE cs = "RESET_NODE"
  <2>1. Restarted(n, q)
    BY <1>2, GoodFacts, ResetNodeSends DEF OnCs
  <2>2. QED
    BY <1>2, <2>1
<1>3. CASE cs = "RESET_COMM"
  <2>1. CASE r.fsm # "init"
    <3>1. Restarted(n, q)
      BY <1>3, <2>1, GoodFacts, ResetCommSends DEF OnCs
    <3>2. QED
      BY <1>3, <3>1
  <2>2. CASE r.fsm = "init"
    BY <1>3, <2>2 DEF OnCs, Kept, Operating
  <2>3. QED
    BY <2>1, <2>2
<1>4. CASE cs = "START"
  BY <1>1, <1>4 DEF OnCs, EnterStart, SrvSet, NodeState, Kept, Operating, Serving,
     Resets
<1>5. CASE cs = "STOP"
  BY <1>1, <1>5 DEF OnCs, EnterStop, SrvSet, NodeState, Kept, Operating, Serving,
     Resets
<1>6. CASE cs = "ENTER_PREOP"
  <2>1. CASE r.fsm \in {"start", "stop"}
    <3>1. r.fsm \in Operating /\ RoleLoaded(n, r) /\ q = EnterPreop(n, r)
      BY <1>6, <2>1, GoodFacts DEF OnCs, Operating, Running
    <3>2. Entered(n, q)
      BY <3>1, PreopSends
    <3>3. QED
      BY <1>6, <3>1, <3>2 DEF Resets
  <2>2. CASE r.fsm \notin {"start", "stop"}
    BY <1>6, <2>2 DEF OnCs, Kept, Resets
  <2>3. QED
    BY <2>1, <2>2
<1>7. QED
  BY <1>2, <1>3, <1>4, <1>5, <1>6 DEF Cs

-----------------------------------------------------------------------------
(* What holds of every node and of the frames under way to it               *)

\* A node that does not listen to slaves expects nothing of them, nobody
\* expects anything of itself, and a node without node-ID never operates.
NodeEst(n, r) ==
  /\ ~r.listen => NothingExpected(r)
  /\ r.est[n] = "none"
  /\ r.fsm \in Operating => n \notin Unconfigured
  /\ Own(n, r.tx)

\* Inductive, besides IInv: the bus brings no node its own frames.
LinkInv ==
  /\ IInv
  /\ Idle
  /\ \A n \in Node : NodeEst(n, nmt[n])
  /\ \A n \in Node : \A f \in Range(rx[n]) : f.kind = "ec" => f.id # n

\* What a handler of node n may end in.
Ends(n, q) == q \in NodeState /\ NodeEst(n, q)

LEMMA OwnNothing ==
  ASSUME NEW n
  PROVE  Own(n, <<>>)
<1>1. DOMAIN <<>> = {}
  OBVIOUS
<1>2. QED
  BY <1>1 DEF Own, Range

\* After the handler of node n, the state of the bus.
LEMMA ApplyState ==
  ASSUME LinkInv, NEW n \in Node, NEW q \in NodeState,
         NEW queue \in Seq(Frame), Apply(n, q, [rx EXCEPT ![n] = queue])
  PROVE  /\ nmt'[n] = [q EXCEPT !.tx = <<>>]
         /\ \A m \in Node : m # n => nmt'[m] = nmt[m]
         /\ rx'[n] = queue
         /\ \A m \in Node : m # n /\ On(m) => rx'[m] = rx[m] \o q.tx
         /\ \A m \in Node : m # n /\ ~On(m) => rx'[m] = rx[m]
         /\ \A m \in Node : m # n /\ On(m) => Range(rx'[m]) = Range(rx[m]) \cup Range(q.tx)
<1>1. nmt \in [Node -> NodeState] /\ rx \in [Node -> Seq(Frame)]
  BY DEF LinkInv, IInv, TypeOK
<1>2. q.tx \in Seq(Frame)
  BY DEF NodeState
<1>3. \A m \in Node : nmt'[m] = IF m = n THEN [q EXCEPT !.tx = <<>>] ELSE nmt[m]
  BY <1>1 DEF Apply
<1>4. \A m \in Node : rx'[m] = IF m = n THEN queue
                               ELSE IF On(m) THEN rx[m] \o q.tx ELSE rx[m]
  BY <1>1 DEF Apply
<1>5. \A m \in Node : Range(rx[m] \o q.tx) = Range(rx[m]) \cup Range(q.tx)
  BY <1>1, <1>2, RangeOfConcat
<1>6. QED
  BY <1>3, <1>4, <1>5

LEMMA ApplyLink ==
  ASSUME LinkInv, IInv', NEW n \in Node, NEW q, Ends(n, q),
         NEW queue \in Seq(Frame), Range(queue) \subseteq Range(rx[n]),
         Apply(n, q, [rx EXCEPT ![n] = queue])
  PROVE  LinkInv'
<1>1. q \in NodeState
  BY DEF Ends
<1>2. /\ nmt'[n] = [q EXCEPT !.tx = <<>>]
      /\ \A m \in Node : m # n => nmt'[m] = nmt[m]
      /\ rx'[n] = queue
      /\ \A m \in Node : m # n /\ ~On(m) => rx'[m] = rx[m]
      /\ \A m \in Node : m # n /\ On(m) => Range(rx'[m]) = Range(rx[m]) \cup Range(q.tx)
  BY <1>1, ApplyState
<1>3. /\ nmt'[n].tx = <<>> /\ nmt'[n].listen = q.listen /\ nmt'[n].est = q.est
      /\ nmt'[n].fsm = q.fsm
  BY <1>1, <1>2 DEF NodeState
<1>4. Idle'
  BY <1>2, <1>3 DEF LinkInv, Idle
<1>5. ASSUME NEW m \in Node
      PROVE  NodeEst(m, nmt'[m])
  <2>1. CASE m = n
    BY <1>3, <2>1, OwnNothing DEF Ends, NodeEst, NothingExpected
  <2>2. CASE m # n
    BY <1>2, <2>2 DEF LinkInv
  <2>3. QED
    BY <2>1, <2>2
<1>6. ASSUME NEW m \in Node, NEW f \in Range(rx'[m]), f.kind = "ec"
      PROVE  f.id # m
  BY <1>2, <1>6 DEF LinkInv, Ends, NodeEst, Own
<1>7. QED
  BY <1>4, <1>5, <1>6 DEF LinkInv, NodeEst, NothingExpected, Own

LEMMA LinkFacts ==
  ASSUME LinkInv, NEW n \in Node
  PROVE  /\ nmt[n] \in NodeState /\ rx[n] \in Seq(Frame)
         /\ rx \in [Node -> Seq(Frame)]
         /\ Good(n, nmt[n]) /\ NodeEst(n, nmt[n])
         /\ nmt[n].tx = <<>>
         /\ rx = [rx EXCEPT ![n] = rx[n]]
         /\ IsMaster(nmt[n]) => IsMasterNode(n) /\ On(n)
         /\ On(n) => (nmt[n].fsm \in Operating /\ IsMasterNode(n) => IsMaster(nmt[n]))
<1>1. nmt \in [Node -> NodeState] /\ rx \in [Node -> Seq(Frame)]
  BY DEF LinkInv, IInv, TypeOK
<1>2. QED
  BY <1>1 DEF LinkInv, IInv, Good, NodeInv, Coherent, Idle, IsMaster, IsMasterNode,
     On, Running, Operating

LEMMA OnCsEnds ==
  ASSUME NEW n \in Node, NEW r, Good(n, r), Ends(n, r), r.fsm # "off",
         NEW cs \in Cs
  PROVE  Ends(n, OnCs(n, r, cs))
<1> DEFINE q == OnCs(n, r, cs)
<1>1. \/ Restarted(n, q)
      \/ Entered(n, q) /\ r.fsm \in Operating
      \/ Kept(r, q)
  BY OnCsSends DEF Ends, NodeEst
<1>2. q \in NodeState
  BY OnCsGood DEF Good
<1> HIDE DEF q
<1>3. NodeEst(n, q)
  BY <1>1 DEF Restarted, Entered, Kept, Ends, NodeEst, NothingExpected
<1>4. QED
  BY <1>2, <1>3 DEF Ends, q

\* From r to q a timer or a request of the application may have sent a command;
\* only the master does.
Requested(n, r, q) ==
  /\ q \in NodeState
  /\ SameService(r, q)
  /\ \/ q.tx = r.tx /\ q.est = r.est /\ q.boot = r.boot
     \/ IsMasterNode(n) /\ SendsOne(r, q)

LEMMA RequestedEnds ==
  ASSUME NEW n \in Node, NEW r, Ends(n, r), NEW q, Requested(n, r, q)
  PROVE  Ends(n, q) /\ q.boot = r.boot
<1>1. r \in NodeState /\ NodeEst(n, r)
  BY DEF Ends
<1>2. CASE q.tx = r.tx /\ q.est = r.est /\ q.boot = r.boot
  BY <1>1, <1>2 DEF Ends, NodeEst, NothingExpected, Requested, SameService
<1>3. CASE IsMasterNode(n) /\ SendsOne(r, q)
  <2>1. Own(n, q.tx)
    BY <1>1, <1>3, SendsOwn DEF NodeEst
  <2>2. q.est[n] = "none" /\ (NothingExpected(r) => NothingExpected(q))
    BY <1>1, <1>3 DEF SendsOne, EstAfter, NodeEst, NothingExpected
  <2>3. QED
    BY <1>1, <1>3, <2>1, <2>2 DEF Ends, NodeEst, SameService, Requested, SendsOne
<1>4. QED
  BY <1>2, <1>3 DEF Requested

LEMMA RequestOutcome ==
  ASSUME LinkInv, NEW n \in Node, On(n), NEW cs \in Cs, NEW id \in Target
  PROVE  LET q == CsReq(n, nmt[n], cs, id) IN
         \/ q = OnCs(n, nmt[n], cs) /\ IsMasterNode(n)
         \/ Requested(n, nmt[n], q)
<1> DEFINE r == nmt[n]
<1>1. r \in NodeState /\ Good(n, r)
  BY LinkFacts
<1>2. CASE ~IsMaster(r)
  BY <1>1, <1>2 DEF CsReq, Requested, SameService
<1>3. CASE IsMaster(r)
  <2>1. IsMasterNode(n)
    BY <1>3, LinkFacts
  <2>2. QueueCommand(n, r, cs, id) \in NodeState
    BY <1>1, <1>3, QueueGood DEF Good
  <2>3. Requested(n, r, QueueCommand(n, r, cs, id))
    BY <1>1, <2>1, <2>2, QueueSends DEF Requested
  <2>4. QED
    BY <1>3, <2>1, <2>3 DEF CsReq
<1>4. QED
  BY <1>2, <1>3

LEMMA TickOutcome ==
  ASSUME LinkInv, NEW n \in Node, Tick(n)
  PROVE  \E q : Requested(n, nmt[n], q) /\ Apply(n, q, rx)
<1> DEFINE r == [nmt[n] EXCEPT !.wait = @ - 1]
           q == CsTimer(n, r)
<1>1. nmt[n] \in NodeState /\ Good(n, nmt[n]) /\ nmt[n].wait > 0
  BY LinkFacts DEF Tick
<1>2. r \in NodeState
  BY <1>1 DEF NodeState
<1>3. /\ SameService(nmt[n], r) /\ r.tx = nmt[n].tx /\ r.est = nmt[n].est
      /\ r.boot = nmt[n].boot /\ r.csTimer = nmt[n].csTimer
  BY <1>1 DEF NodeState, SameService
<1>4. CASE r.csTimer /\ r.wait = 0
  <2>1. IsMasterNode(n)
    BY <1>1, <1>3, <1>4, LinkFacts DEF Good, NodeInv, InRole
  <2>2. Apply(n, q, rx)
    BY <1>4 DEF Tick
  <2>3. q \in NodeState /\ SendsOne(r, q) /\ SameService(r, q)
    BY <1>2, CsTimerTyped, CsTimerSends
  <2> HIDE DEF r, q
  <2>4. Requested(n, nmt[n], q)
    BY <1>3, <2>1, <2>3 DEF Requested, SendsOne, SameService
  <2>5. QED
    BY <2>2, <2>4
<1>5. CASE ~(r.csTimer /\ r.wait = 0)
  <2>1. Apply(n, r, rx)
    BY <1>5 DEF Tick
  <2>2. Requested(n, nmt[n], r)
    BY <1>2, <1>3 DEF Requested
  <2>3. QED
    BY <2>1, <2>2
<1>6. QED
  BY <1>4, <1>5

\* From r to q a node has produced a heartbeat, or taken over an SDO write.
Wrote(n, r, q) ==
  /\ q \in NodeState
  /\ q.fsm = r.fsm /\ q.st = r.st /\ q.listen = r.listen
  /\ q.est = r.est /\ q.boot = r.boot
  /\ \A f \in Range(q.tx) : f.kind = "ec" /\ f.id = n

LEMMA WroteEnds ==
  ASSUME NEW n \in Node, NEW r, Ends(n, r), NEW q, Wrote(n, r, q)
  PROVE  Ends(n, q)
BY DEF Ends, NodeEst, Wrote, NothingExpected, Own

LEMMA WriteOutcome ==
  ASSUME LinkInv, NEW n \in Node,
         \/ Heartbeat(n)
         \/ \E on \in ClientProducer : WriteProducer(n, on)
         \/ \E bits \in ClientStartup : WriteStartup(n, bits)
  PROVE  \E q : Wrote(n, nmt[n], q) /\ Apply(n, q, rx)
<1>1. nmt[n] \in NodeState /\ nmt[n].tx = <<>>
  BY LinkFacts
<1>2. Range(<<>>) = {}
  BY DEF Range
<1>3. CASE Heartbeat(n)
  <2> DEFINE f == [kind |-> "ec", id |-> n, st |-> nmt[n].st]
             q == [nmt[n] EXCEPT !.tx = <<f>>]
  <2>1. f \in Frame /\ f.kind = "ec" /\ f.id = n
    BY <1>1 DEF Frame, EcFrame, NodeState
  <2>2. Apply(n, q, rx)
    BY <1>3 DEF Heartbeat
  <2> HIDE DEF f
  <2>3. <<f>> \in Seq(Frame) /\ Range(<<f>>) = {f}
    BY <2>1 DEF Range
  <2>4. Wrote(n, nmt[n], q)
    BY <1>1, <2>1, <2>3 DEF Wrote, NodeState
  <2>5. QED
    BY <2>2, <2>4
<1>4. CASE \E on \in ClientProducer : WriteProducer(n, on)
  <2> PICK on \in ClientProducer : WriteProducer(n, on)
    BY <1>4
  <2> DEFINE q == EcSet([nmt[n] EXCEPT !.od1017 = on], on)
  <2>1. on \in BOOLEAN
    BY BoundAssumption
  <2>2. Wrote(n, nmt[n], q)
    BY <1>1, <1>2, <2>1 DEF Wrote, EcSet, NodeState
  <2>3. QED
    BY <2>2 DEF WriteProducer
<1>5. CASE \E bits \in ClientStartup : WriteStartup(n, bits)
  <2> PICK bits \in ClientStartup : WriteStartup(n, bits)
    BY <1>5
  <2> DEFINE q == [nmt[n] EXCEPT !.od1F80 = bits]
  <2>1. bits \in SUBSET Bit
    BY BoundAssumption
  <2>2. Wrote(n, nmt[n], q)
    BY <1>1, <1>2, <2>1 DEF Wrote, NodeState
  <2>3. QED
    BY <2>2 DEF WriteStartup
<1>6. QED
  BY <1>3, <1>4, <1>5

\* What becomes of the first frame in the queue of node n.
LEMMA ReceiveOutcome ==
  ASSUME LinkInv, NEW n \in Node, Receive(n)
  PROVE  LET f == Head(rx[n])
             q == Dispatch(n, nmt[n], f) IN
         /\ f \in Frame /\ Tail(rx[n]) \in Seq(Frame)
         /\ Range(rx[n]) = {f} \cup Range(Tail(rx[n]))
         /\ Apply(n, q, [rx EXCEPT ![n] = Tail(rx[n])])
         /\ \/ /\ f.kind = "nmt" /\ nmt[n].recv000 /\ f.id \in {0, n}
               /\ f.cs \in Cs /\ q = OnCs(n, nmt[n], f.cs)
            \/ /\ f.kind = "ec" /\ nmt[n].listen /\ f.st = "BOOTUP" /\ f.id # n
               /\ f = BootFrame(f.id) /\ f.id \in Node
               /\ q = [nmt[n] EXCEPT !.est[f.id] = "PREOP",
                                     !.boot = nmt[n].boot \cup {f.id}]
            \/ /\ q = nmt[n]
               /\ f.kind = "nmt" /\ nmt[n].recv000 =>
                    f.id # 0 /\ (f.id = n => n \in Unconfigured)
               /\ f.kind = "ec" /\ nmt[n].listen => f.st # "BOOTUP"
<1> DEFINE f == Head(rx[n])
           t == Tail(rx[n])
           r == nmt[n]
           q == Dispatch(n, r, f)
<1>1. rx[n] \in Seq(Frame) /\ rx[n] # <<>> /\ r \in NodeState
  BY LinkFacts DEF Receive
<1>2. f \in Frame /\ t \in Seq(Frame)
  BY <1>1
<1>3. Range(rx[n]) = {f} \cup Range(t)
  BY <1>1, RangeOfTail
<1>4. Apply(n, q, [rx EXCEPT ![n] = t])
  BY DEF Receive
<1>5. f.kind = "ec" => f.id # n
  BY <1>3 DEF LinkInv
<1>6. CASE f.kind = "nmt"
  <2>1. f.cs \in Cs
    BY <1>2, <1>6 DEF Frame, NmtFrame, EcFrame
  <2>2. CASE r.recv000 /\ (f.id = 0 \/ (f.id = n /\ n \notin Unconfigured))
    <3>1. q = OnCs(n, r, f.cs)
      BY <1>6, <2>2 DEF Dispatch, Recv000
    <3>2. QED
      BY <1>2, <1>3, <1>4, <1>6, <2>1, <2>2, <3>1
  <2>3. CASE ~(r.recv000 /\ (f.id = 0 \/ (f.id = n /\ n \notin Unconfigured)))
    <3>1. q = r
      BY <1>6, <2>3 DEF Dispatch, Recv000
    <3>2. QED
      BY <1>2, <1>3, <1>4, <1>6, <2>3, <3>1
  <2>4. QED
    BY <2>2, <2>3
<1>7. CASE f.kind = "ec"
  <2>1. f.id \in Node
    BY <1>2, <1>7 DEF Frame, NmtFrame, EcFrame
  <2>2. CASE r.listen /\ f.st = "BOOTUP"
    <3>1. f = BootFrame(f.id)
      BY <1>2, <1>7, <2>2 DEF Frame, NmtFrame, EcFrame, BootFrame
    <3>2. q = [r EXCEPT !.est[f.id] = "PREOP", !.boot = r.boot \cup {f.id}]
      BY <1>7, <2>2 DEF Dispatch, Recv700
    <3>3. QED
      BY <1>2, <1>3, <1>4, <1>5, <1>7, <2>1, <2>2, <3>1, <3>2
  <2>3. CASE ~(r.listen /\ f.st = "BOOTUP")
    <3>1. q = r
      BY <1>7, <2>3 DEF Dispatch, Recv700
    <3>2. QED
      BY <1>2, <1>3, <1>4, <1>7, <2>3, <3>1
  <2>4. QED
    BY <2>2, <2>3
<1>8. QED
  BY <1>2, <1>6, <1>7 DEF Frame, NmtFrame, EcFrame

LEMMA ReceiveEnds ==
  ASSUME LinkInv, NEW n \in Node, Receive(n)
  PROVE  Ends(n, Dispatch(n, nmt[n], Head(rx[n])))
<1> DEFINE f == Head(rx[n])
           r == nmt[n]
           q == Dispatch(n, r, f)
<1>1. Ends(n, r) /\ Good(n, r) /\ r.fsm # "off"
  BY LinkFacts DEF Ends, Receive, On
<1>2. f \in Frame /\ q \in NodeState
  BY <1>1, ReceiveOutcome, DispatchGood DEF Good
<1>3. CASE f.cs \in Cs /\ q = OnCs(n, r, f.cs)
  BY <1>1, <1>3, OnCsEnds
<1>4. CASE /\ r.listen /\ f.id # n /\ f.id \in Node
           /\ q = [r EXCEPT !.est[f.id] = "PREOP", !.boot = r.boot \cup {f.id}]
  <2>1. q.listen /\ q.est[n] = r.est[n] /\ q.fsm = r.fsm /\ q.tx = r.tx
    BY <1>1, <1>4 DEF Ends, NodeState
  <2>2. QED
    BY <1>1, <1>2, <2>1 DEF Ends, NodeEst
<1>5. CASE q = r
  BY <1>1, <1>5
<1>6. QED
  BY <1>3, <1>4, <1>5, ReceiveOutcome

LEMMA SwitchLink ==
  ASSUME LinkInv, IInv', NEW n \in Node, Create(n) \/ Crash(n)
  PROVE  LinkInv'
<1>1. nmt \in [Node -> NodeState] /\ rx \in [Node -> Seq(Frame)]
  BY DEF LinkInv, IInv, TypeOK
<1>2. /\ \A m \in Node : m # n => nmt'[m] = nmt[m]
      /\ nmt'[n].fsm \in {"off", "init"} /\ nmt'[n].tx = <<>>
      /\ nmt'[n].est = [s \in Node |-> "none"]
  BY <1>1 DEF Create, Crash, Off, Created
<1>3. Range(<<>>) = {}
  BY DEF Range
<1>4. \A m \in Node : rx'[m] = rx[m] \/ rx'[m] = <<>>
  BY <1>1 DEF Create, Crash
<1>5. ASSUME NEW m \in Node
      PROVE  NodeEst(m, nmt'[m])
  BY <1>2, OwnNothing DEF LinkInv, NodeEst, NothingExpected, Operating
<1>6. QED
  BY <1>2, <1>3, <1>4, <1>5 DEF LinkInv, Idle, NodeEst, NothingExpected, Own

LEMMA LinkStep ==
  ASSUME LinkInv, NEW n \in Node, NodeStep(n)
  PROVE  LinkInv'
<1>1. IInv'
  BY NodeStepInv DEF LinkInv
<1>2. /\ Ends(n, nmt[n]) /\ Good(n, nmt[n]) /\ rx[n] \in Seq(Frame)
      /\ rx = [rx EXCEPT ![n] = rx[n]]
  BY LinkFacts DEF Ends
<1>3. ASSUME NEW q, Ends(n, q), Apply(n, q, rx)
      PROVE  LinkInv'
  BY <1>1, <1>2, <1>3, ApplyLink
<1>4. CASE Create(n) \/ Crash(n)
  BY <1>1, <1>4, SwitchLink
<1>5. CASE \E cs \in Cs : LocalCommand(n, cs)
  BY <1>2, <1>3, <1>5, OnCsEnds DEF LocalCommand, On
<1>6. CASE \E cs \in Cs, id \in Target : Request(n, cs, id)
  <2> PICK cs \in Cs, id \in Target : Request(n, cs, id)
    BY <1>6
  <2>1. Ends(n, CsReq(n, nmt[n], cs, id))
    BY <1>2, RequestOutcome, RequestedEnds, OnCsEnds DEF Request, On
  <2>2. QED
    BY <1>3, <2>1 DEF Request
<1>7. CASE Receive(n)
  <2>1. Ends(n, Dispatch(n, nmt[n], Head(rx[n])))
    BY <1>7, ReceiveEnds
  <2>2. QED
    BY <1>1, <1>7, <2>1, ReceiveOutcome, ApplyLink
<1>8. CASE Tick(n)
  BY <1>2, <1>3, <1>8, TickOutcome, RequestedEnds
<1>9. CASE \/ Heartbeat(n)
           \/ \E on \in ClientProducer : WriteProducer(n, on)
           \/ \E bits \in ClientStartup : WriteStartup(n, bits)
  BY <1>2, <1>3, <1>9, WriteOutcome, WroteEnds
<1>10. QED
  BY <1>4, <1>5, <1>6, <1>7, <1>8, <1>9 DEF NodeStep

-----------------------------------------------------------------------------
(* NoSlaveMissed: what is recorded of a slave, or under way                 *)

\* Inductive: a master in operation has recorded the boot-up of a slave in
\* operation, or the frame that leads to it is in one of their queues.
Heard(m, s) ==
  /\ m # s /\ IsMasterNode(m)
  /\ nmt[m].fsm \in Operating /\ nmt[s].fsm \in Operating
  => \/ s \in nmt[m].boot
     \/ BootFrame(s) \in Range(rx[m])
     \/ NmtFrameOf(ResetAll) \in Range(rx[s])

HeardInv == LinkInv /\ \A m, s \in Node : Heard(m, s)

\* The inhibit time of the master is 0, so that its buffer stays empty.
NoInhibit == \A n \in Node : IsMasterNode(n) => Inhibit[n] = 0

\* What the handler of node n, ending in q with the receive queue queue, owes
\* to the other role.
Reported(n, q, queue) ==
  q.fsm \in Operating =>
    /\ \/ IsMasterNode(n)
       \/ BootFrame(n) \in Range(q.tx)
       \/ /\ nmt[n].fsm \in Operating
          /\ NmtFrameOf(ResetAll) \in Range(rx[n])
               => NmtFrameOf(ResetAll) \in Range(queue)
    /\ \/ ~IsMasterNode(n)
       \/ NmtFrameOf(ResetAll) \in Range(q.tx)
       \/ /\ nmt[n].fsm \in Operating
          /\ nmt[n].boot \subseteq q.boot
          /\ \A s \in Node : BootFrame(s) \in Range(rx[n])
               => BootFrame(s) \in Range(queue) \/ s \in q.boot

LEMMA ApplyHeard ==
  ASSUME HeardInv, OneMaster, NEW n \in Node, NEW q \in NodeState,
         NEW queue \in Seq(Frame), Apply(n, q, [rx EXCEPT ![n] = queue]),
         Reported(n, q, queue)
  PROVE  \A m, s \in Node : Heard(m, s)'
<1>1. /\ nmt'[n] = [q EXCEPT !.tx = <<>>]
      /\ \A m \in Node : m # n => nmt'[m] = nmt[m]
      /\ rx'[n] = queue
      /\ \A m \in Node : m # n /\ On(m) => Range(rx'[m]) = Range(rx[m]) \cup Range(q.tx)
  BY ApplyState DEF HeardInv
<1>2. \A m \in Node : nmt[m].fsm \in Operating => On(m)
  BY DEF On, Operating
<1>3. nmt'[n].fsm = q.fsm /\ nmt'[n].boot = q.boot
  BY <1>1 DEF NodeState
<1>4. ASSUME NEW m \in Node, NEW s \in Node, m # s, IsMasterNode(m),
             nmt'[m].fsm \in Operating, nmt'[s].fsm \in Operating
      PROVE  \/ s \in nmt'[m].boot
             \/ BootFrame(s) \in Range(rx'[m])
             \/ NmtFrameOf(ResetAll) \in Range(rx'[s])
  <2>1. ~IsMasterNode(s)
    BY <1>4 DEF OneMaster
  <2>2. CASE n = m
    BY <1>1, <1>2, <1>3, <1>4, <2>2 DEF Reported, HeardInv, Heard
  <2>3. CASE n = s
    BY <1>1, <1>2, <1>3, <1>4, <2>1, <2>3 DEF Reported, HeardInv, Heard
  <2>4. CASE n # m /\ n # s
    BY <1>1, <1>2, <1>4, <2>4 DEF HeardInv, Heard
  <2>5. QED
    BY <2>2, <2>3, <2>4
<1>5. QED
  BY <1>4 DEF Heard

\* A handler that receives nothing, resets nothing and enters no state.
LEMMA ApplyQuiet ==
  ASSUME HeardInv, OneMaster, NEW n \in Node, NEW q \in NodeState,
         Apply(n, q, rx), q.boot = nmt[n].boot,
         q.fsm \in Operating => nmt[n].fsm \in Operating
  PROVE  \A m, s \in Node : Heard(m, s)'
<1>1. rx[n] \in Seq(Frame) /\ rx = [rx EXCEPT ![n] = rx[n]]
  BY LinkFacts DEF HeardInv
<1>2. Reported(n, q, rx[n])
  BY DEF Reported
<1>3. QED
  BY <1>1, <1>2, ApplyHeard

LEMMA OnCsReported ==
  ASSUME NEW n \in Node, Good(n, nmt[n]), Own(n, nmt[n].tx), NoInhibit,
         nmt[n].fsm \in Operating => n \notin Unconfigured,
         nmt[n].fsm # "off",
         NEW cs \in Cs
  PROVE  Reported(n, OnCs(n, nmt[n], cs), rx[n])
<1> DEFINE q == OnCs(n, nmt[n], cs)
<1>1. \/ Restarted(n, q)
      \/ Entered(n, q) /\ nmt[n].fsm \in Operating
      \/ Kept(nmt[n], q)
  BY OnCsSends
<1>2. Good(n, q)
  BY OnCsGood
<1>3. q.fsm \in Operating /\ IsMasterNode(n) => IsMaster(q) /\ Inhibit[n] = 0
  BY <1>2 DEF Good, NodeInv, Coherent, NoInhibit, IsMasterNode, IsMaster, Running
<1> HIDE DEF q
<1>4. QED
  BY <1>1, <1>3 DEF Reported, Restarted, Entered, Kept, q

LEMMA SwitchHeard ==
  ASSUME HeardInv, NEW n \in Node, Create(n) \/ Crash(n)
  PROVE  \A m, s \in Node : Heard(m, s)'
<1>1. nmt \in [Node -> NodeState] /\ rx \in [Node -> Seq(Frame)]
  BY DEF HeardInv, LinkInv, IInv, TypeOK
<1>2. /\ \A m \in Node : m # n => nmt'[m] = nmt[m] /\ rx'[m] = rx[m]
      /\ nmt'[n].fsm \in {"off", "init"}
  BY <1>1 DEF Create, Crash, Off, Created
<1>3. QED
  BY <1>2 DEF HeardInv, Heard, Operating

LEMMA ReceiveHeard ==
  ASSUME HeardInv, OneMaster, NoInhibit, NEW n \in Node, Receive(n)
  PROVE  \A m, s \in Node : Heard(m, s)'
<1> DEFINE f == Head(rx[n])
           t == Tail(rx[n])
           r == nmt[n]
           q == Dispatch(n, r, f)
<1>1. /\ LinkInv /\ Good(n, r) /\ Ends(n, r) /\ r.fsm # "off"
      /\ r.fsm \in Operating => n \notin Unconfigured
  BY LinkFacts DEF Ends, Receive, On, HeardInv, NodeEst
<1>2. /\ f \in Frame /\ t \in Seq(Frame) /\ q \in NodeState
      /\ Range(rx[n]) = {f} \cup Range(t)
      /\ Apply(n, q, [rx EXCEPT ![n] = t])
  BY <1>1, ReceiveOutcome, ReceiveEnds DEF Ends
<1>3. CASE /\ f.kind = "nmt" /\ r.recv000
           /\ f.cs \in Cs /\ q = OnCs(n, r, f.cs)
  <2>1. ~IsMaster(r)
    BY <1>1, <1>3 DEF Good, NodeInv, InRole
  <2>2. Reported(n, q, rx[n])
    BY <1>1, <1>3, OnCsReported DEF Ends, NodeEst
  <2>3. f.cs \in Resets /\ r.fsm \in Operating => Restarted(n, q)
    BY <1>1, <1>3, OnCsSends DEF Ends, NodeEst
  <2>4. f = NmtFrameOf(ResetAll) => f.cs \in Resets
    BY DEF NmtFrameOf, ResetAll, Resets
  <2>5. r.fsm \in Operating => ~IsMasterNode(n)
    BY <1>1, <2>1, LinkFacts DEF On
  <2>6. BootFrame(n).kind = "ec" /\ \A s \in Node : f # BootFrame(s)
    BY <1>3 DEF BootFrame
  <2> HIDE DEF f, t, r, q
  <2>7. Reported(n, q, t)
    BY <1>2, <2>2, <2>3, <2>4, <2>5, <2>6 DEF Reported, Restarted, r
  <2>8. QED
    BY <1>2, <2>7, ApplyHeard
<1>4. CASE /\ f = BootFrame(f.id) /\ f.id \in Node
           /\ q = [r EXCEPT !.est[f.id] = "PREOP", !.boot = r.boot \cup {f.id}]
  <2>1. q.fsm = r.fsm /\ q.boot = r.boot \cup {f.id}
    BY <1>1, <1>4 DEF Ends, NodeState
  <2>2. f # NmtFrameOf(ResetAll) /\ \A s \in Node : f = BootFrame(s) => s = f.id
    BY <1>4 DEF NmtFrameOf, BootFrame
  <2>3. Reported(n, q, t)
    BY <1>2, <2>1, <2>2 DEF Reported
  <2>4. QED
    BY <1>2, <2>3, ApplyHeard
<1>5. CASE /\ q = r
           /\ f.kind = "nmt" /\ r.recv000 => f.id # 0
           /\ f.kind = "ec" /\ r.listen => f.st # "BOOTUP"
  <2>1. r.fsm \in Operating => /\ r.recv000 <=> ~IsMasterNode(n)
                               /\ r.listen <=> IsMasterNode(n)
    BY <1>1, LinkFacts DEF Good, NodeInv, InRole, On, Operating, Running
  <2>2. f = NmtFrameOf(ResetAll) => f.kind = "nmt" /\ f.id = 0
    BY DEF NmtFrameOf, ResetAll
  <2>3. \A s \in Node : f = BootFrame(s) => f.kind = "ec" /\ f.st = "BOOTUP"
    BY DEF BootFrame
  <2>4. Reported(n, q, t)
    BY <1>2, <1>5, <2>1, <2>2, <2>3 DEF Reported
  <2>5. QED
    BY <1>2, <2>4, ApplyHeard
<1>6. QED
  BY <1>1, <1>3, <1>4, <1>5, ReceiveOutcome

LEMMA HeardStep ==
  ASSUME HeardInv, OneMaster, NoInhibit, NEW n \in Node, NodeStep(n)
  PROVE  HeardInv'
<1>1. LinkInv'
  BY LinkStep DEF HeardInv
<1>2. /\ LinkInv /\ Ends(n, nmt[n]) /\ Good(n, nmt[n]) /\ rx[n] \in Seq(Frame)
      /\ rx = [rx EXCEPT ![n] = rx[n]] /\ Own(n, nmt[n].tx)
      /\ nmt[n].fsm \in Operating => n \notin Unconfigured
  BY LinkFacts DEF Ends, HeardInv, NodeEst
<1>3. ASSUME NEW cs \in Cs, On(n), Apply(n, OnCs(n, nmt[n], cs), rx)
      PROVE  \A m, s \in Node : Heard(m, s)'
  <2>1. OnCs(n, nmt[n], cs) \in NodeState
    BY <1>2, <1>3, OnCsGood DEF Good, On
  <2>2. Reported(n, OnCs(n, nmt[n], cs), rx[n])
    BY <1>2, <1>3, OnCsReported DEF On
  <2>3. QED
    BY <1>2, <1>3, <2>1, <2>2, ApplyHeard
<1>4. ASSUME NEW q, Requested(n, nmt[n], q) \/ Wrote(n, nmt[n], q), Apply(n, q, rx)
      PROVE  \A m, s \in Node : Heard(m, s)'
  <2>1. /\ q \in NodeState /\ q.boot = nmt[n].boot
        /\ q.fsm \in Operating => nmt[n].fsm \in Operating
    BY <1>2, <1>4, RequestedEnds DEF Requested, Wrote, SameService
  <2>2. QED
    BY <1>4, <2>1, ApplyQuiet
<1>5. CASE Create(n) \/ Crash(n)
  BY <1>1, <1>5, SwitchHeard DEF HeardInv
<1>6. CASE \E cs \in Cs : LocalCommand(n, cs)
  BY <1>1, <1>3, <1>6 DEF LocalCommand, HeardInv
<1>7. CASE \E cs \in Cs, id \in Target : Request(n, cs, id)
  <2> PICK cs \in Cs, id \in Target : Request(n, cs, id)
    BY <1>7
  <2>1. \A m, s \in Node : Heard(m, s)'
    BY <1>2, <1>3, <1>4, RequestOutcome DEF Request
  <2>2. QED
    BY <1>1, <2>1 DEF HeardInv
<1>8. CASE Receive(n)
  BY <1>1, <1>8, ReceiveHeard DEF HeardInv
<1>9. CASE Tick(n)
  BY <1>1, <1>2, <1>4, <1>9, TickOutcome DEF HeardInv
<1>10. CASE \/ Heartbeat(n)
            \/ \E on \in ClientProducer : WriteProducer(n, on)
            \/ \E bits \in ClientStartup : WriteStartup(n, bits)
  BY <1>1, <1>2, <1>4, <1>10, WriteOutcome DEF HeardInv
<1>11. QED
  BY <1>5, <1>6, <1>7, <1>8, <1>9, <1>10 DEF NodeStep

LEMMA InitLink == Init => LinkInv
<1>1. \A n \in Node : NodeInv(n, Off) /\ Off \in NodeState
  BY CreatedGood DEF Good
<1>2. <<>> \in Seq(Frame) /\ Range(<<>>) = {}
  BY DEF Range
<1>3. Init => IInv
  BY <1>1, <1>2 DEF Init, IInv, TypeOK
<1>4. \A n \in Node : Off.tx = <<>> /\ Off.est[n] = "none" /\ Off.fsm = "off"
  BY DEF Off, Created
<1>5. Init => Idle /\ \A n \in Node : NodeEst(n, nmt[n])
  BY <1>4, OwnNothing DEF Init, Idle, NodeEst, NothingExpected, Operating
<1>6. QED
  BY <1>2, <1>3, <1>5 DEF Init, LinkInv

\* On a lossless bus with one master, whose inhibit time is 0, a master in
\* operation hears of every slave in operation (co_nmt.c:3512), however many
\* nodes there are, whatever their DCFs say, and however often nodes are reset,
\* switched off and on.
THEOREM MasterHearsOfSlaves ==
  ASSUME OneMaster, NoInhibit
  PROVE  Lossless => []NoSlaveMissed
<1>1. Init => HeardInv
  <2>1. Init => \A s \in Node : nmt[s].fsm = "off"
    BY DEF Init, Off, Created
  <2>2. QED
    BY <2>1, InitLink DEF HeardInv, Heard, Operating
<1>2. HeardInv /\ [NextLossless]_vars => HeardInv'
  <2> SUFFICES ASSUME HeardInv, [NextLossless]_vars
               PROVE  HeardInv'
    OBVIOUS
  <2>1. ASSUME NEW n \in Node, NodeStep(n)
        PROVE  HeardInv'
    BY <2>1, HeardStep
  <2>2. CASE UNCHANGED vars
    BY <2>2 DEF vars, HeardInv, Heard, LinkInv, IInv, TypeOK, Idle, NodeEst,
       NothingExpected, Own
  <2>3. QED
    BY <2>1, <2>2 DEF NextLossless
<1>3. HeardInv => NoSlaveMissed
  <2> SUFFICES ASSUME HeardInv, NEW m \in Node, NEW s \in Node, m # s,
                      nmt[m].fsm \in Operating, IsMaster(nmt[m]),
                      nmt[s].fsm \in Operating
               PROVE  s \in nmt[m].boot \/ BootPending(m, s)
                      \/ NmtFrameOf(ResetAll) \in Range(rx[s])
    BY DEF NoSlaveMissed
  <2>1. IsMasterNode(m)
    BY LinkFacts DEF HeardInv
  <2>2. QED
    BY <2>1 DEF HeardInv, Heard, BootPending, BootFrame
<1>4. QED
  BY <1>1, <1>2, <1>3, PTL DEF Lossless

-----------------------------------------------------------------------------
(* EstAgrees: the last command under way to a slave                         *)

\* The command f is addressed to node s.
Addresses(f, s) == f.kind = "nmt" /\ f.id \in {0, s}

Settled(queue, s) == \A i \in DOMAIN queue : ~Addresses(queue[i], s)

\* The last command to s in the queue is e.
LastCommand(queue, s, e) ==
  \E i \in DOMAIN queue :
    /\ Addresses(queue[i], s) /\ queue[i].cs = e
    /\ \A j \in DOMAIN queue : j > i => ~Addresses(queue[j], s)

\* Node s in state st, with this receive queue, ends up in state e.
Tracks(st, queue, s, e) ==
  \/ Settled(queue, s) /\ st = e
  \/ LastCommand(queue, s, e)

\* Inductive: a slave that the master started or stopped is on its way there,
\* unless a boot-up message will correct the master.
Matched(m, s) ==
  /\ nmt[m].est[s] \in {"START", "STOP"}
  /\ nmt[s].fsm \in Operating
  /\ BootFrame(s) \notin Range(rx[m])
  => Tracks(nmt[s].st, rx[s], s, nmt[m].est[s])

MatchedInv == LinkInv /\ \A m, s \in Node : Matched(m, s)

\* The application of a slave resets it, and leaves START, STOP and
\* ENTER_PREOP to the master.
SlavesOnlyReset == \A n \in Node : IsMasterNode(n) \/ LocalCs[n] \subseteq Resets

LEMMA TracksConcat ==
  ASSUME NEW queue \in Seq(Frame), NEW tx \in Seq(Frame), NEW s, NEW e, NEW st
  PROVE  /\ Tracks(st, queue, s, e) /\ (\A f \in Range(tx) : ~Addresses(f, s))
              => Tracks(st, queue \o tx, s, e)
         /\ LastCommand(tx, s, e) => Tracks(st, queue \o tx, s, e)
<1> DEFINE u == queue \o tx
<1>1. /\ Len(u) = Len(queue) + Len(tx)
      /\ \A i \in 1 .. Len(u) :
            u[i] = IF i <= Len(queue) THEN queue[i] ELSE tx[i - Len(queue)]
      /\ u \in Seq(Frame)
  BY ConcatProperties
<1>2. /\ DOMAIN u = 1 .. Len(queue) + Len(tx) /\ DOMAIN queue = 1 .. Len(queue)
      /\ DOMAIN tx = 1 .. Len(tx) /\ Len(queue) \in Nat /\ Len(tx) \in Nat
  BY <1>1, LenProperties
<1> HIDE DEF u
<1>3. ASSUME NEW i \in DOMAIN queue
      PROVE  i \in DOMAIN u /\ u[i] = queue[i]
  BY <1>1, <1>2, <1>3
<1>4. ASSUME NEW i \in DOMAIN u, i \notin DOMAIN queue
      PROVE  i - Len(queue) \in DOMAIN tx /\ u[i] = tx[i - Len(queue)]
  BY <1>1, <1>2, <1>4
<1>5. ASSUME NEW i \in DOMAIN tx
      PROVE  /\ i + Len(queue) \in DOMAIN u /\ u[i + Len(queue)] = tx[i]
  BY <1>1, <1>2, <1>5
<1>6. ASSUME \A f \in Range(tx) : ~Addresses(f, s), Tracks(st, queue, s, e)
      PROVE  Tracks(st, u, s, e)
  <2>1. \A i \in DOMAIN u : i \notin DOMAIN queue => ~Addresses(u[i], s)
    BY <1>4, <1>6 DEF Range
  <2>2. CASE Settled(queue, s) /\ st = e
    BY <1>3, <2>1, <2>2 DEF Settled, Tracks
  <2>3. CASE LastCommand(queue, s, e)
    BY <1>3, <2>1, <2>3 DEF LastCommand, Tracks
  <2>4. QED
    BY <1>6, <2>2, <2>3 DEF Tracks
<1>7. ASSUME LastCommand(tx, s, e)
      PROVE  LastCommand(u, s, e)
  <2> PICK i \in DOMAIN tx :
        /\ Addresses(tx[i], s) /\ tx[i].cs = e
        /\ \A j \in DOMAIN tx : j > i => ~Addresses(tx[j], s)
    BY <1>7 DEF LastCommand
  <2> DEFINE k == i + Len(queue)
  <2>1. k \in DOMAIN u /\ u[k] = tx[i]
    BY <1>5
  <2>2. ASSUME NEW j \in DOMAIN u, j > k
        PROVE  ~Addresses(u[j], s)
    <3>1. j \notin DOMAIN queue /\ j - Len(queue) > i
      BY <1>2, <2>2
    <3>2. QED
      BY <1>4, <3>1
  <2>3. QED
    BY <2>1, <2>2 DEF LastCommand
<1>8. QED
  BY <1>6, <1>7 DEF Tracks, u

LEMMA TracksTail ==
  ASSUME NEW queue \in Seq(Frame), queue # <<>>, NEW s, NEW e, NEW st,
         Tracks(st, queue, s, e)
  PROVE  IF Addresses(Head(queue), s)
         THEN \/ LastCommand(Tail(queue), s, e)
              \/ Settled(Tail(queue), s) /\ Head(queue).cs = e
         ELSE Tracks(st, Tail(queue), s, e)
<1> DEFINE f == Head(queue)
           t == Tail(queue)
<1>1. /\ f \in Frame /\ t \in Seq(Frame) /\ Len(t) = Len(queue) - 1
      /\ f = queue[1] /\ \A i \in 1 .. Len(t) : t[i] = queue[i + 1]
  BY HeadTailProperties
<1>2. /\ DOMAIN queue = 1 .. Len(queue) /\ DOMAIN t = 1 .. Len(queue) - 1
      /\ Len(queue) \in Nat /\ Len(queue) >= 1
  BY <1>1, LenProperties, EmptySeq
<1> HIDE DEF f, t
<1>3. ASSUME NEW i \in DOMAIN queue, i # 1
      PROVE  i - 1 \in DOMAIN t /\ t[i - 1] = queue[i]
  <2>1. i - 1 \in 1 .. Len(t) /\ (i - 1) + 1 = i
    BY <1>1, <1>2, <1>3
  <2>2. QED
    BY <1>1, <1>2, <2>1
<1>4. ASSUME NEW i \in DOMAIN t
      PROVE  i + 1 \in DOMAIN queue /\ t[i] = queue[i + 1]
  BY <1>1, <1>2, <1>4
<1>5. 1 \in DOMAIN queue
  BY <1>2
<1>6. CASE Settled(queue, s) /\ st = e
  BY <1>1, <1>4, <1>5, <1>6 DEF Settled, Tracks, f, t
<1>7. CASE LastCommand(queue, s, e)
  <2> PICK i \in DOMAIN queue :
        /\ Addresses(queue[i], s) /\ queue[i].cs = e
        /\ \A j \in DOMAIN queue : j > i => ~Addresses(queue[j], s)
    BY <1>7 DEF LastCommand
  <2>1. CASE i = 1
    <3>1. \A j \in DOMAIN t : j + 1 > i
      BY <1>2, <2>1
    <3>2. Settled(t, s)
      BY <1>4, <3>1 DEF Settled
    <3>3. Addresses(f, s) /\ f.cs = e
      BY <1>1, <2>1
    <3>4. QED
      BY <3>2, <3>3 DEF f, t
  <2>2. CASE i # 1
    <3>1. i - 1 \in DOMAIN t /\ t[i - 1] = queue[i]
      BY <1>3, <2>2
    <3>2. \A j \in DOMAIN t : j > i - 1 => j + 1 > i
      BY <1>2, <2>2
    <3>3. LastCommand(t, s, e)
      BY <1>4, <3>1, <3>2 DEF LastCommand
    <3>4. QED
      BY <3>3 DEF Tracks, f, t
  <2>3. QED
    BY <2>1, <2>2
<1>8. QED
  BY <1>6, <1>7 DEF Tracks

\* What the handler of node n owes as the master of slave s.
Ordered(n, q, queue, s) ==
  q.est[s] \in {"START", "STOP"} =>
    /\ \/ /\ q.est[s] = nmt[n].est[s]
          /\ \A f \in Range(q.tx) : ~Addresses(f, s)
       \/ LastCommand(q.tx, s, q.est[s])
    /\ BootFrame(s) \in Range(rx[n]) => BootFrame(s) \in Range(queue)

\* What it owes as a slave.
Obeyed(n, q, queue) ==
  ~IsMasterNode(n) /\ q.fsm \in Operating =>
    \/ BootFrame(n) \in Range(q.tx)
    \/ /\ nmt[n].fsm \in Operating
       /\ \A e \in {"START", "STOP"} :
            Tracks(nmt[n].st, rx[n], n, e) => Tracks(q.st, queue, n, e)

LEMMA ApplyMatched ==
  ASSUME MatchedInv, LinkInv', OneMaster, NEW n \in Node, NEW q, Ends(n, q),
         NEW queue \in Seq(Frame), Apply(n, q, [rx EXCEPT ![n] = queue]),
         \A s \in Node \ {n} : Ordered(n, q, queue, s),
         Obeyed(n, q, queue)
  PROVE  \A m, s \in Node : Matched(m, s)'
<1>1. q \in NodeState /\ q.tx \in Seq(Frame) /\ Own(n, q.tx) /\ LinkInv
      /\ rx \in [Node -> Seq(Frame)]
  BY DEF Ends, NodeEst, NodeState, MatchedInv, LinkInv, IInv, TypeOK
<1>2. /\ nmt'[n] = [q EXCEPT !.tx = <<>>]
      /\ \A m \in Node : m # n => nmt'[m] = nmt[m]
      /\ rx'[n] = queue
      /\ \A m \in Node : m # n /\ On(m) => rx'[m] = rx[m] \o q.tx
      /\ \A m \in Node : m # n /\ On(m) => Range(rx'[m]) = Range(rx[m]) \cup Range(q.tx)
  BY <1>1, ApplyState
<1>3. nmt'[n].fsm = q.fsm /\ nmt'[n].st = q.st /\ nmt'[n].est = q.est
  BY <1>1, <1>2 DEF NodeState
<1>4. SUFFICES ASSUME NEW m \in Node, NEW s \in Node,
                      nmt'[m].est[s] \in {"START", "STOP"},
                      nmt'[s].fsm \in Operating,
                      BootFrame(s) \notin Range(rx'[m])
               PROVE  Tracks(nmt'[s].st, rx'[s], s, nmt'[m].est[s])
  BY DEF Matched
<1>5. m # s
  BY <1>4 DEF LinkInv, NodeEst
<1>6. CASE n = m
  <2>1. On(s) /\ nmt'[s] = nmt[s] /\ rx'[s] = rx[s] \o q.tx
    BY <1>2, <1>4, <1>5, <1>6 DEF On, Operating
  <2>2. Ordered(n, q, queue, s) /\ q.est[s] \in {"START", "STOP"}
    BY <1>3, <1>4, <1>5, <1>6
  <2>3. BootFrame(s) \notin Range(rx[m])
    BY <1>2, <1>4, <1>6, <2>2 DEF Ordered
  <2>4. CASE LastCommand(q.tx, s, q.est[s])
    BY <1>1, <1>3, <1>6, <2>1, <2>4, TracksConcat
  <2>5. CASE /\ q.est[s] = nmt[n].est[s]
             /\ \A f \in Range(q.tx) : ~Addresses(f, s)
    <3>1. Tracks(nmt[s].st, rx[s], s, q.est[s])
      BY <1>4, <1>6, <2>1, <2>2, <2>3, <2>5 DEF MatchedInv, Matched
    <3>2. QED
      BY <1>1, <1>3, <1>6, <2>1, <2>5, <3>1, TracksConcat
  <2>6. QED
    BY <2>2, <2>4, <2>5 DEF Ordered
<1>7. CASE n # m
  <2>1. nmt'[m] = nmt[m] /\ IsMasterNode(m) /\ On(m)
    <3>1. nmt'[m] = nmt[m] /\ nmt[m].listen
      BY <1>1, <1>2, <1>4, <1>7 DEF LinkInv, NodeEst, NothingExpected
    <3>2. QED
      BY <1>1, <3>1, LinkFacts DEF Good, NodeInv, InRole
  <2>2. ~IsMasterNode(n)
    BY <1>7, <2>1 DEF OneMaster
  <2>3. BootFrame(s) \notin Range(rx[m]) /\ BootFrame(s) \notin Range(q.tx)
    BY <1>2, <1>4, <1>7, <2>1
  <2>4. CASE n = s
    <3>1. nmt[n].fsm \in Operating
      BY <1>3, <1>4, <2>2, <2>3, <2>4 DEF Obeyed
    <3>2. Tracks(nmt[s].st, rx[s], s, nmt[m].est[s])
      BY <1>4, <2>1, <2>3, <2>4, <3>1 DEF MatchedInv, Matched
    <3>3. Tracks(q.st, queue, n, nmt[m].est[s])
      BY <1>3, <1>4, <2>1, <2>2, <2>3, <2>4, <3>2 DEF Obeyed
    <3>4. QED
      BY <1>2, <1>3, <2>1, <2>4, <3>3
  <2>5. CASE n # s
    <3>1. nmt'[s] = nmt[s] /\ On(s) /\ rx'[s] = rx[s] \o q.tx
      BY <1>2, <1>4, <2>5 DEF On, Operating
    <3>2. Tracks(nmt[s].st, rx[s], s, nmt[m].est[s])
      BY <1>4, <2>1, <2>3, <3>1 DEF MatchedInv, Matched
    <3>3. \A f \in Range(q.tx) : ~Addresses(f, s)
      BY <1>1, <2>2 DEF Own, Addresses
    <3>4. QED
      BY <1>1, <2>1, <3>1, <3>2, <3>3, TracksConcat
  <2>6. QED
    BY <2>4, <2>5
<1>8. QED
  BY <1>6, <1>7

LEMMA SendsOrdered ==
  ASSUME NEW n \in Node, NEW s \in Node, nmt[n].tx = <<>>, NEW q,
         \/ q.tx = <<>> /\ q.est = nmt[n].est
         \/ SendsOne(nmt[n], q)
  PROVE  Ordered(n, q, rx[n], s)
<1>1. CASE q.tx = <<>> /\ q.est = nmt[n].est
  BY <1>1 DEF Ordered, Range
<1>2. CASE SendsOne(nmt[n], q)
  <2>1. CASE q.tx = <<>> /\ q.est = nmt[n].est
    BY <2>1 DEF Ordered, Range
  <2>2. CASE \E c \in Command : /\ q.tx = Append(<<>>, NmtFrameOf(c))
                                /\ q.est = EstAfter(nmt[n].est, c)
    <3> PICK c \in Command : /\ q.tx = Append(<<>>, NmtFrameOf(c))
                             /\ q.est = EstAfter(nmt[n].est, c)
      BY <2>2
    <3> DEFINE f == NmtFrameOf(c)
    <3>1. /\ DOMAIN q.tx = {1} /\ q.tx[1] = f /\ Range(q.tx) = {f}
      BY DEF Range
    <3>2. f.kind = "nmt" /\ f.cs = c.cs /\ f.id = c.id
      BY DEF NmtFrameOf
    <3>3. q.est[s] = IF c.id \in {0, s} /\ nmt[n].est[s] # "none"
                     THEN ExpectedAfter(c.cs) ELSE nmt[n].est[s]
      BY DEF EstAfter
    <3> HIDE DEF f
    <3>4. CASE c.id \in {0, s} /\ nmt[n].est[s] # "none"
      <4>1. q.est[s] \in {"START", "STOP"} => c.cs = q.est[s]
        BY <3>3, <3>4 DEF ExpectedAfter
      <4>2. Addresses(f, s)
        BY <3>2, <3>4 DEF Addresses
      <4>3. q.est[s] \in {"START", "STOP"} => LastCommand(q.tx, s, q.est[s])
        BY <3>1, <3>2, <4>1, <4>2 DEF LastCommand
      <4>4. QED
        BY <4>3 DEF Ordered
    <3>5. CASE nmt[n].est[s] = "none"
      BY <3>3, <3>5 DEF Ordered
    <3>6. CASE c.id \notin {0, s}
      <4>1. ~Addresses(f, s)
        BY <3>2, <3>6 DEF Addresses
      <4>2. QED
        BY <3>1, <3>3, <3>6, <4>1 DEF Ordered
    <3>7. QED
      BY <3>4, <3>5, <3>6
  <2>3. QED
    BY <1>2, <2>1, <2>2 DEF SendsOne
<1>3. QED
  BY <1>1, <1>2

LEMMA OnCsOrdered ==
  ASSUME NEW n \in Node, LinkInv, nmt[n].fsm # "off", NEW cs \in Cs,
         NEW s \in Node
  PROVE  Ordered(n, OnCs(n, nmt[n], cs), rx[n], s)
<1> DEFINE q == OnCs(n, nmt[n], cs)
<1>1. \/ NothingExpected(q)
      \/ Kept(nmt[n], q)
  BY OnCsSends, LinkFacts DEF NodeEst, Restarted, Entered
<1> HIDE DEF q
<1>2. CASE NothingExpected(q)
  BY <1>2 DEF NothingExpected, Ordered, q
<1>3. CASE Kept(nmt[n], q)
  BY <1>3, LinkFacts, SendsOrdered DEF Kept, q
<1>4. QED
  BY <1>1, <1>2, <1>3

\* A handler that receives nothing and leaves the state machine alone.
LEMMA QuietObeyed ==
  ASSUME NEW n \in Node, NEW q, q.st = nmt[n].st, q.fsm = nmt[n].fsm
  PROVE  Obeyed(n, q, rx[n])
BY DEF Obeyed

LEMMA ResetObeyed ==
  ASSUME NEW n \in Node, LinkInv, nmt[n].fsm # "off", NEW cs \in Cs,
         IsMasterNode(n) \/ cs \in Resets
  PROVE  Obeyed(n, OnCs(n, nmt[n], cs), rx[n])
<1> DEFINE q == OnCs(n, nmt[n], cs)
<1>1. /\ \/ Restarted(n, q)
         \/ nmt[n].fsm \in Operating
         \/ Kept(nmt[n], q)
      /\ cs \in Resets /\ nmt[n].fsm \in Operating => Restarted(n, q)
  BY OnCsSends, LinkFacts DEF NodeEst
<1> HIDE DEF q
<1>2. QED
  BY <1>1 DEF Obeyed, Restarted, Kept, q

LEMMA ReceiveMatched ==
  ASSUME MatchedInv, LinkInv', OneMaster, NEW n \in Node, Receive(n)
  PROVE  \A m, s \in Node : Matched(m, s)'
<1> DEFINE f == Head(rx[n])
           t == Tail(rx[n])
           r == nmt[n]
           q == Dispatch(n, r, f)
<1>1. /\ LinkInv /\ Good(n, r) /\ NodeEst(n, r) /\ r.fsm # "off"
      /\ r \in NodeState /\ rx[n] # <<>> /\ rx[n] \in Seq(Frame) /\ r.tx = <<>>
  BY LinkFacts DEF Receive, On, MatchedInv
<1>2. /\ f \in Frame /\ t \in Seq(Frame) /\ Ends(n, q)
      /\ Range(rx[n]) = {f} \cup Range(t)
      /\ Apply(n, q, [rx EXCEPT ![n] = t])
  BY <1>1, ReceiveOutcome, ReceiveEnds
<1>3. r.fsm \in Operating => /\ r.recv000 <=> ~IsMasterNode(n)
                             /\ r.listen <=> IsMasterNode(n)
  BY <1>1, LinkFacts DEF Good, NodeInv, InRole, On, Operating, Running
<1>4. ~Addresses(f, n) =>
        \A e \in {"START", "STOP"} :
          Tracks(r.st, rx[n], n, e) => Tracks(r.st, t, n, e)
  BY <1>1, TracksTail
<1>5. CASE /\ f.kind = "nmt" /\ r.recv000 /\ f.id \in {0, n}
           /\ f.cs \in Cs /\ q = OnCs(n, r, f.cs)
  <2>1. \A s \in Node : f # BootFrame(s)
    BY <1>5 DEF BootFrame
  <2>2. \A s \in Node \ {n} : Ordered(n, q, rx[n], s)
    BY <1>1, <1>5, OnCsOrdered
  <2>3. \A s \in Node \ {n} : Ordered(n, q, t, s)
    BY <1>2, <2>1, <2>2 DEF Ordered
  <2>4. /\ \/ Restarted(n, q)
           \/ r.fsm \in Operating
           \/ Kept(r, q)
        /\ f.cs \in Resets /\ r.fsm \in Operating => Restarted(n, q)
        /\ f.cs \in {"START", "STOP"} /\ r.fsm \in Operating => q.st = f.cs
    BY <1>1, <1>5, OnCsSends DEF NodeEst
  <2>5. Addresses(f, n)
    BY <1>5 DEF Addresses
  <2>6. \A e \in {"START", "STOP"} : Tracks(r.st, rx[n], n, e) =>
           LastCommand(t, n, e) \/ (Settled(t, n) /\ f.cs = e)
    BY <1>1, <2>5, TracksTail
  <2> HIDE DEF f, t, r, q
  <2>7. r.fsm \in Operating =>
          \A e \in {"START", "STOP"} :
            Tracks(r.st, rx[n], n, e) => Tracks(q.st, t, n, e)
    BY <2>4, <2>6 DEF Tracks
  <2>8. Obeyed(n, q, t)
    BY <2>4, <2>7 DEF Obeyed, Restarted, Kept, r
  <2>9. QED
    BY <1>2, <2>3, <2>8, ApplyMatched
<1>6. CASE /\ f.kind = "ec" /\ r.listen /\ f = BootFrame(f.id) /\ f.id \in Node
           /\ q = [r EXCEPT !.est[f.id] = "PREOP", !.boot = r.boot \cup {f.id}]
  <2>1. /\ q.est = [r.est EXCEPT ![f.id] = "PREOP"] /\ q.tx = <<>>
        /\ q.st = r.st /\ q.fsm = r.fsm /\ r.est \in [Node -> Est]
    BY <1>1, <1>6 DEF NodeState
  <2>2. \A s \in Node : f = BootFrame(s) => s = f.id
    BY <1>6 DEF BootFrame
  <2>3. ASSUME NEW s \in Node \ {n}
        PROVE  Ordered(n, q, t, s)
    <3>1. Range(q.tx) = {}
      BY <2>1 DEF Range
    <3>2. q.est[s] = IF s = f.id THEN "PREOP" ELSE r.est[s]
      BY <2>1, <2>3
    <3> HIDE DEF f, t, q
    <3>3. QED
      BY <1>2, <2>2, <3>1, <3>2 DEF Ordered
  <2>4. Obeyed(n, q, t)
    BY <1>4, <1>6, <2>1 DEF Obeyed, Addresses
  <2>5. QED
    BY <1>2, <2>3, <2>4, ApplyMatched
<1>7. CASE /\ q = r
           /\ f.kind = "nmt" /\ r.recv000 =>
                f.id # 0 /\ (f.id = n => n \in Unconfigured)
           /\ f.kind = "ec" /\ r.listen => f.st # "BOOTUP"
  <2>1. \A s \in Node : f = BootFrame(s) => f.kind = "ec" /\ f.st = "BOOTUP"
    BY DEF BootFrame
  <2>2. ASSUME NEW s \in Node \ {n}
        PROVE  Ordered(n, q, t, s)
    <3>1. Ordered(n, q, rx[n], s)
      BY <1>1, <1>7, SendsOrdered
    <3>2. r.listen \/ r.est[s] = "none"
      BY <1>1 DEF NodeEst, NothingExpected
    <3>3. QED
      BY <1>2, <1>7, <2>1, <3>1, <3>2 DEF Ordered
  <2>3. Obeyed(n, q, t)
    BY <1>1, <1>3, <1>4, <1>7 DEF Obeyed, Addresses, NodeEst
  <2>4. QED
    BY <1>2, <2>2, <2>3, ApplyMatched
<1>8. QED
  BY <1>1, <1>5, <1>6, <1>7, ReceiveOutcome

LEMMA SwitchMatched ==
  ASSUME MatchedInv, NEW n \in Node, Create(n) \/ Crash(n)
  PROVE  \A m, s \in Node : Matched(m, s)'
<1>1. nmt \in [Node -> NodeState] /\ rx \in [Node -> Seq(Frame)]
  BY DEF MatchedInv, LinkInv, IInv, TypeOK
<1>2. /\ \A m \in Node : m # n => nmt'[m] = nmt[m] /\ rx'[m] = rx[m]
      /\ nmt'[n].fsm \in {"off", "init"}
      /\ nmt'[n].est = [s \in Node |-> "none"]
  BY <1>1 DEF Create, Crash, Off, Created
<1>3. QED
  BY <1>2 DEF MatchedInv, Matched, Operating

LEMMA MatchedStep ==
  ASSUME MatchedInv, OneMaster, SlavesOnlyReset, NEW n \in Node, NodeStep(n)
  PROVE  MatchedInv'
<1>1. LinkInv'
  BY LinkStep DEF MatchedInv
<1>2. /\ LinkInv /\ Ends(n, nmt[n]) /\ Good(n, nmt[n]) /\ rx[n] \in Seq(Frame)
      /\ rx = [rx EXCEPT ![n] = rx[n]] /\ nmt[n].tx = <<>>
  BY LinkFacts DEF Ends, MatchedInv
<1>3. ASSUME NEW cs \in Cs, On(n), Apply(n, OnCs(n, nmt[n], cs), rx),
             IsMasterNode(n) \/ cs \in Resets
      PROVE  \A m, s \in Node : Matched(m, s)'
  <2>1. Ends(n, OnCs(n, nmt[n], cs))
    BY <1>2, <1>3, OnCsEnds DEF On
  <2>2. /\ \A s \in Node \ {n} : Ordered(n, OnCs(n, nmt[n], cs), rx[n], s)
        /\ Obeyed(n, OnCs(n, nmt[n], cs), rx[n])
    BY <1>2, <1>3, OnCsOrdered, ResetObeyed DEF On
  <2>3. QED
    BY <1>1, <1>2, <1>3, <2>1, <2>2, ApplyMatched
<1>4. ASSUME NEW q, Requested(n, nmt[n], q), Apply(n, q, rx)
      PROVE  \A m, s \in Node : Matched(m, s)'
  <2>1. Ends(n, q)
    BY <1>2, <1>4, RequestedEnds
  <2>2. \A s \in Node \ {n} : Ordered(n, q, rx[n], s)
    BY <1>2, <1>4, SendsOrdered DEF Requested
  <2>3. Obeyed(n, q, rx[n])
    BY <1>4, QuietObeyed DEF Requested, SameService
  <2>4. QED
    BY <1>1, <1>2, <1>4, <2>1, <2>2, <2>3, ApplyMatched
<1>5. ASSUME NEW q, Wrote(n, nmt[n], q), Apply(n, q, rx)
      PROVE  \A m, s \in Node : Matched(m, s)'
  <2>1. Ends(n, q)
    BY <1>2, <1>5, WroteEnds
  <2>2. \A s \in Node \ {n} : Ordered(n, q, rx[n], s)
    BY <1>5 DEF Wrote, Ordered, Addresses
  <2>3. Obeyed(n, q, rx[n])
    BY <1>5, QuietObeyed DEF Wrote
  <2>4. QED
    BY <1>1, <1>2, <1>5, <2>1, <2>2, <2>3, ApplyMatched
<1>6. CASE Create(n) \/ Crash(n)
  BY <1>1, <1>6, SwitchMatched DEF MatchedInv
<1>7. CASE \E cs \in Cs : LocalCommand(n, cs)
  BY <1>1, <1>3, <1>7 DEF LocalCommand, SlavesOnlyReset, MatchedInv
<1>8. CASE \E cs \in Cs, id \in Target : Request(n, cs, id)
  <2> PICK cs \in Cs, id \in Target : Request(n, cs, id)
    BY <1>8
  <2>1. \A m, s \in Node : Matched(m, s)'
    BY <1>2, <1>3, <1>4, RequestOutcome DEF Request
  <2>2. QED
    BY <1>1, <2>1 DEF MatchedInv
<1>9. CASE Receive(n)
  BY <1>1, <1>9, ReceiveMatched DEF MatchedInv
<1>10. CASE Tick(n)
  BY <1>1, <1>2, <1>4, <1>10, TickOutcome DEF MatchedInv
<1>11. CASE \/ Heartbeat(n)
            \/ \E on \in ClientProducer : WriteProducer(n, on)
            \/ \E bits \in ClientStartup : WriteStartup(n, bits)
  BY <1>1, <1>2, <1>5, <1>11, WriteOutcome DEF MatchedInv
<1>12. QED
  BY <1>6, <1>7, <1>8, <1>9, <1>10, <1>11 DEF NodeStep

\* On a lossless bus with one master, where the applications of the slaves do
\* not start and stop their node themselves, a slave that the master believes
\* started or stopped is in that state as soon as no command and no boot-up
\* message between the two is under way, whatever the inhibit time.
THEOREM MasterKnowsItsSlaves ==
  ASSUME OneMaster, SlavesOnlyReset
  PROVE  Lossless => []EstAgrees
<1>1. Init => MatchedInv
  <2>1. Init => \A s \in Node : nmt[s].fsm = "off"
    BY DEF Init, Off, Created
  <2>2. QED
    BY <2>1, InitLink DEF MatchedInv, Matched, Operating
<1>2. MatchedInv /\ [NextLossless]_vars => MatchedInv'
  <2> SUFFICES ASSUME MatchedInv, [NextLossless]_vars
               PROVE  MatchedInv'
    OBVIOUS
  <2>1. ASSUME NEW n \in Node, NodeStep(n)
        PROVE  MatchedInv'
    BY <2>1, MatchedStep
  <2>2. CASE UNCHANGED vars
    BY <2>2 DEF vars, MatchedInv, Matched, LinkInv, IInv, TypeOK, Idle, NodeEst,
       NothingExpected, Own
  <2>3. QED
    BY <2>1, <2>2 DEF NextLossless
<1>3. MatchedInv => EstAgrees
  <2> SUFFICES ASSUME MatchedInv, NEW m \in Node, NEW s \in Node,
                      nmt[m].est[s] \in {"START", "STOP"},
                      nmt[s].fsm \in Operating,
                      ~NmtPending(s), ~BootPending(m, s)
               PROVE  nmt[s].st = nmt[m].est[s]
    BY DEF EstAgrees
  <2>1. Tracks(nmt[s].st, rx[s], s, nmt[m].est[s])
    BY DEF MatchedInv, Matched, BootPending, BootFrame
  <2>2. ~LastCommand(rx[s], s, nmt[m].est[s])
    BY DEF LastCommand, Addresses, NmtPending, Range
  <2>3. QED
    BY <2>1, <2>2 DEF Tracks
<1>4. QED
  BY <1>1, <1>2, <1>3, PTL DEF Lossless
=============================================================================
