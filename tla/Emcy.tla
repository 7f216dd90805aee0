-------------------------------- MODULE Emcy --------------------------------
(* The EMCY producer of co_emcy.c on one node, over the NMT states that start *)
(* and stop it, the objects that steer it and the errors that feed it.        *)
(*                                                                            *)
(* In the component only receive errors raise emergencies: of RPDOs while PDO *)
(* runs, and of SYNC from the first start of the SYNC service on, because     *)
(* co_sync_stop leaves its receiver registered.  Nothing in the component     *)
(* pops an error, and nothing reacts to an EMCY message of another node.      *)
EXTENDS Naturals, SequencesExt

CONSTANTS
  MaxMsg,    \* CO_EMCY_MAX_NMSG: the errors the stack can hold
  BufSize,   \* the frames the buffer can hold, CO_EMCY_CAN_BUF_SIZE - 1
  HistLen,   \* the error fields of 1003
  Inhibits,  \* the values of the inhibit time 1015, in network ticks
  Stored,    \* 1014 and 1015 in the concise DCF
  MaxErr     \* bound: the errors that occur

ASSUME SizeAssumption ==
  /\ MaxMsg \in Nat \ {0}
  /\ BufSize \in Nat \ {0}
  /\ HistLen \in Nat
  /\ MaxErr \in Nat
ASSUME ObjectAssumption ==
  /\ Inhibits \subseteq Nat
  /\ Stored \in [valid : BOOLEAN, inhibit : Inhibits]

VARIABLES
  emcy,  \* the EMCY service of the node and its objects
  bus,   \* history: the errors of the EMCY frames sent, in order
  last   \* history: the number of the last error that occurred

vars == <<emcy, bus, last>>

Error == 1 .. MaxErr   \* errors are numbered as they occur

EmcyState ==
  [st      : {"created", "preop", "start", "stop"}, \* NMT state of the node
   valid   : BOOLEAN,         \* 1014: the COB-ID exists
   inhibit : Nat,             \* 1015
   reg     : BOOLEAN,         \* 1001: is an error bit set
   hist    : Seq(Error),      \* 1003
   stack   : Seq(Error),      \* emcy->msgs, the latest first
   buf     : Seq(Error),      \* emcy->buf
   wait    : Nat,             \* ticks until emcy->inhibit, 0 if it has passed
   due     : Nat,             \* ticks until emcy->timer is due, 0: not running
   restored : BOOLEAN,        \* history: were 1001 and 1003 restored under the
                              \* errors on the stack
   cut     : BOOLEAN]         \* history: was the timer of the frames in the
                              \* buffer stopped

Running(r) == r.st \in {"preop", "start"}  \* ~emcy->stopped

-----------------------------------------------------------------------------
(* The service: an operator maps the record and the frames sent so far        *)

\* What a handler leaves: the record and the frames it sent.
Done(r, tx) == [r |-> r, tx |-> tx]

\* Mutants: the frame that waits is not timed; the latest error goes first.
FlushUntimed(r) ==
  IF r.buf = <<>> THEN Done(r, <<>>)
  ELSE IF r.wait > 0 THEN Done([r EXCEPT !.due = r.wait, !.cut = FALSE], <<>>)
  ELSE IF r.inhibit = 0 THEN Done([r EXCEPT !.buf = <<>>, !.cut = FALSE], r.buf)
  ELSE Done([r EXCEPT !.buf = Tail(@), !.wait = r.inhibit, !.cut = FALSE],
            <<Head(r.buf)>>)
FlushLatest(r) ==
  IF r.buf = <<>> THEN Done(r, <<>>)
  ELSE IF r.wait > 0 THEN Done([r EXCEPT !.due = r.wait, !.cut = FALSE], <<>>)
  ELSE IF r.inhibit = 0 THEN Done([r EXCEPT !.buf = <<>>, !.cut = FALSE], r.buf)
  ELSE Done([r EXCEPT !.buf = Front(@), !.wait = r.inhibit, !.cut = FALSE,
                      !.due = IF Len(r.buf) = 1 THEN @ ELSE r.inhibit],
            <<Last(r.buf)>>)

\* co_emcy_flush: without an inhibit time all frames go out, with one the first
\* does and the timer is set for the others.
Flush(r) ==
  IF r.buf = <<>> THEN Done(r, <<>>)
  ELSE IF r.wait > 0 THEN Done([r EXCEPT !.due = r.wait, !.cut = FALSE], <<>>)
  ELSE IF r.inhibit = 0 THEN Done([r EXCEPT !.buf = <<>>, !.cut = FALSE], r.buf)
  ELSE Done([r EXCEPT !.buf = Tail(@),
                      !.wait = r.inhibit,
                      !.due = IF Tail(r.buf) = <<>> THEN @ ELSE r.inhibit,
                      !.cut = FALSE],
            <<Head(r.buf)>>)

Send(r, e) ==
  LET s == [r EXCEPT !.reg = TRUE] IN
  IF ~s.valid \/ Len(s.buf) = BufSize THEN Done(s, <<>>)
  ELSE Flush([s EXCEPT !.buf = Append(@, e)])

\* Mutant: a full 1003 keeps its errors.
Set1003First(r) ==
  [r EXCEPT !.hist = IF Len(r.stack) <= HistLen THEN r.stack ELSE @,
            !.restored = FALSE]

\* The errors of the stack that 1003 has room for.
Latest(stack) ==
  SubSeq(stack, 1, IF Len(stack) < HistLen THEN Len(stack) ELSE HistLen)

\* co_emcy_set_1003
Set1003(r) == [r EXCEPT !.hist = Latest(r.stack), !.restored = FALSE]

\* Mutant: the stack is not checked for room.
PushUnbounded(r, e) == Send(Set1003([r EXCEPT !.stack = <<e>> \o @]), e)

Push(r, e) ==
  IF Len(r.stack) = MaxMsg THEN Done(r, <<>>)
  ELSE Send(Set1003([r EXCEPT !.stack = <<e>> \o @]), e)

\* The buffer is neither sent nor timed again, and the inhibit time ends.
EmcyStart(r) == IF Running(r) THEN r ELSE [r EXCEPT !.wait = 0]

\* The timer is stopped; a service that was stopped before keeps its timer.
EmcyStop(r) ==
  IF ~Running(r) THEN r
  ELSE [r EXCEPT !.due = 0, !.cut = @ \/ r.buf # <<>>]

-----------------------------------------------------------------------------
(* The actions                                                             *)

Step(d) ==
  /\ emcy' = d.r
  /\ bus' = bus \o d.tx

\* A receive error reaches co_nmt_on_err: of SYNC, or of an RPDO.
RaiseError(source) ==
  /\ last < MaxErr
  /\ source = "sync" => emcy.st # "created"
  /\ source = "rpdo" => emcy.st = "start"
  /\ last' = last + 1
  /\ Step(Push(emcy, last'))

\* A communication reset of a node with a node-ID runs on into st.
Reset(st) ==
  /\ st \in {"preop", "start"}
  /\ LET r == [EmcyStop(emcy) EXCEPT
                 !.st = "stop",
                 !.valid = Stored.valid, !.inhibit = Stored.inhibit,
                 !.reg = FALSE, !.hist = <<>>,
                 !.restored = emcy.stack # <<>>]
     IN emcy' = [EmcyStart(r) EXCEPT !.st = st]
  /\ UNCHANGED <<bus, last>>

EnterStop ==
  /\ Running(emcy)
  /\ emcy' = [EmcyStop(emcy) EXCEPT !.st = "stop"]
  /\ UNCHANGED <<bus, last>>

\* From any state of operation to another in which the service runs.
EnterRunning(st) ==
  /\ emcy.st \in {"preop", "start", "stop"} \ {st}
  /\ st \in {"preop", "start"}
  /\ emcy' = [EmcyStart(emcy) EXCEPT !.st = st]
  /\ UNCHANGED <<bus, last>>

\* An SDO client writes 0 to 1003; 1001 stays as it is and nothing is sent.
Clear1003 ==
  /\ Running(emcy)
  /\ emcy' = Set1003([emcy EXCEPT !.stack = <<>>])
  /\ UNCHANGED <<bus, last>>

\* Both are read when they are needed: an SDO client or the application.
Write1014(valid) ==
  /\ emcy.valid # valid
  /\ emcy' = [emcy EXCEPT !.valid = valid]
  /\ UNCHANGED <<bus, last>>

Write1015(inhibit) ==
  /\ emcy.inhibit # inhibit
  /\ emcy' = [emcy EXCEPT !.inhibit = inhibit]
  /\ UNCHANGED <<bus, last>>

\* Mutant: the timer expires without a flush.
TickSilent ==
  /\ emcy.wait > 0 \/ emcy.due > 0
  /\ Step(Done([emcy EXCEPT !.wait = IF @ = 0 THEN 0 ELSE @ - 1,
                            !.due = IF @ = 0 THEN 0 ELSE @ - 1], <<>>))
  /\ UNCHANGED last

\* One tick of the network time; the timer calls co_emcy_flush.
Tick ==
  /\ emcy.wait > 0 \/ emcy.due > 0
  /\ LET r == [emcy EXCEPT !.wait = IF @ = 0 THEN 0 ELSE @ - 1,
                           !.due = IF @ = 0 THEN 0 ELSE @ - 1]
     IN Step(IF emcy.due = 1 THEN Flush(r) ELSE Done(r, <<>>))
  /\ UNCHANGED last

-----------------------------------------------------------------------------
(* Specification                                                           *)

Created ==
  [st |-> "created", valid |-> Stored.valid, inhibit |-> Stored.inhibit,
   reg |-> FALSE, hist |-> <<>>, stack |-> <<>>, buf |-> <<>>, wait |-> 0,
   due |-> 0, restored |-> FALSE, cut |-> FALSE]

Init == emcy = Created /\ bus = <<>> /\ last = 0

Next ==
  \/ \E source \in {"sync", "rpdo"} : RaiseError(source)
  \/ \E st \in {"preop", "start"} : Reset(st)
  \/ EnterStop
  \/ \E st \in {"preop", "start"} : EnterRunning(st)
  \/ Clear1003
  \/ \E valid \in BOOLEAN : Write1014(valid)
  \/ \E inhibit \in Inhibits : Write1015(inhibit)
  \/ Tick

\* The scheduler calls tick cyclically.
Spec == Init /\ [][Next]_vars /\ WF_vars(Tick)

-----------------------------------------------------------------------------
(* Properties                                                              *)

TypeOK ==
  /\ emcy \in EmcyState
  /\ Len(emcy.stack) <= MaxMsg
  /\ Len(emcy.buf) <= BufSize
  /\ bus \in Seq(Error)
  /\ last \in 0 .. MaxErr

\* "Update the pre-defined error field." (co_emcy.c:426): 1003 holds the latest
\* errors of the stack and 1001 tells that there are some, over errors, clears
\* and changes of state, except where a reset restored the two objects.
HistoryMirrorsStack ==
  ~emcy.restored =>
    /\ Len(emcy.hist) <= HistLen
    /\ IsPrefix(emcy.hist, emcy.stack)
    /\ Len(emcy.hist) < HistLen => emcy.hist = emcy.stack
    /\ emcy.stack # <<>> => emcy.reg

Timed(r) == r.buf # <<>> => r.due > 0 \/ r.cut

\* Frames in the buffer have a timer that will send them, unless the service
\* was stopped over them and has sent nothing since.
PendingIsTimed == Timed(emcy)

Increasing(s) == \A i, j \in DOMAIN s : i < j => s[i] < s[j]

\* EMCY messages are sent in the order of the errors, none twice, over every
\* change of the inhibit time, stop and reset.
InOrder == Increasing(bus \o emcy.buf)

\* Inductive: 1003 is what co_emcy_set_1003 last made of the stack, and no
\* message tells of an error that has not occurred.
Mirrors(r) ==
  ~r.restored => r.hist = Latest(r.stack) /\ (r.stack # <<>> => r.reg)

UpTo(s, n) == \A i \in DOMAIN s : s[i] <= n

EInv ==
  /\ TypeOK
  /\ Mirrors(emcy)
  /\ Timed(emcy)
  /\ InOrder
  /\ UpTo(bus \o emcy.buf, last)

\* A buffered message is eventually sent or cut off by a stop of the service.
Delivered ==
  \A e \in Error :
    e \in Range(emcy.buf) ~> (e \in Range(bus) \/ emcy.cut)

\* "pending EMCY messages that will be send once the inhibit time has elapsed"
\* (co_emcy.c:847): while the service runs, none is left without a timer.
NoneStranded == Running(emcy) /\ emcy.buf # <<>> => emcy.due > 0
=============================================================================
