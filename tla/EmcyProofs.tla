----------------------------- MODULE EmcyProofs -----------------------------
(* The stack, the objects and the buffer of the EMCY service agree, and its   *)
(* messages leave in the order of the errors, for every length of stack,      *)
(* buffer and history and every inhibit time.                                 *)
EXTENDS Emcy, SequenceTheorems, TLAPS

-----------------------------------------------------------------------------
(* Sequences of errors                                                     *)

\* Frames that go out in two parts are those that go out together.
LEMMA Associative ==
  ASSUME NEW S, NEW b \in Seq(S), NEW t \in Seq(S), NEW u \in Seq(S)
  PROVE  (b \o t) \o u = b \o (t \o u)
  OBVIOUS

\* The latest errors of a stack are a sequence of errors.
LEMMA LatestType ==
  ASSUME NEW stack \in Seq(Error)
  PROVE  /\ Latest(stack) \in Seq(Error)
         /\ Len(Latest(stack)) <= HistLen
         /\ IsPrefix(Latest(stack), stack)
         /\ Len(Latest(stack)) < HistLen => Latest(stack) = stack
<1> DEFINE n == IF Len(stack) < HistLen THEN Len(stack) ELSE HistLen
<1>1. n \in Nat /\ n <= Len(stack) /\ n <= HistLen
  BY SizeAssumption, LenProperties
<1>2. Latest(stack) = SubSeq(stack, 1, n)
  BY DEF Latest
<1>3. \A i \in 1 .. n : stack[i] \in Error
  BY <1>1, ElementOfSeq
<1>. HIDE DEF n
<1>4. SubSeq(stack, 1, n) \in Seq(Error) /\ Len(SubSeq(stack, 1, n)) = n
  BY <1>1, <1>3, SubSeqProperties, SMT
<1>5. SubSeq(SubSeq(stack, 1, n), 1, n) = SubSeq(stack, 1, n)
  BY <1>4, SubSeqFull
<1>6. IsPrefix(Latest(stack), stack)
  BY <1>1, <1>2, <1>4, <1>5 DEF IsPrefix
<1>7. n < HistLen => n = Len(stack)
  BY SizeAssumption, LenProperties DEF n
<1>8. n < HistLen => SubSeq(stack, 1, n) = stack
  BY <1>7, SubSeqFull
<1>. QED
  BY <1>1, <1>2, <1>4, <1>6, <1>8

\* An error later than all others keeps a sequence increasing.
LEMMA IncreasingAppend ==
  ASSUME NEW s \in Seq(Error), NEW n \in Nat, n + 1 \in Error,
         Increasing(s), UpTo(s, n)
  PROVE  /\ Increasing(Append(s, n + 1))
         /\ UpTo(Append(s, n + 1), n + 1)
<1> DEFINE t == Append(s, n + 1)
<1>1. /\ Len(t) = Len(s) + 1
      /\ \A i \in 1 .. Len(s) : t[i] = s[i]
      /\ t[Len(s) + 1] = n + 1
      /\ t \in Seq(Error)
  BY AppendProperties
<1>2. DOMAIN t = 1 .. Len(s) + 1 /\ DOMAIN s = 1 .. Len(s) /\ Len(s) \in Nat
  BY <1>1, LenProperties
<1>3. ASSUME NEW i \in 1 .. Len(s) PROVE s[i] \in Nat /\ s[i] <= n
  <2>1. s[i] \in Error
    BY <1>3, ElementOfSeq
  <2>2. s[i] <= n
    BY <1>2, <1>3 DEF UpTo
  <2>. QED
    BY <2>1, <2>2, SizeAssumption DEF Error
<1>. HIDE DEF t
<1>4. ASSUME NEW i \in 1 .. Len(s) + 1, NEW j \in 1 .. Len(s) + 1, i < j
      PROVE  t[i] < t[j]
  <2>1. i \in 1 .. Len(s)
    BY <1>2, <1>4
  <2>2. CASE j \in 1 .. Len(s)
    <3>1. s[i] < s[j]
      BY <1>2, <1>4, <2>1, <2>2 DEF Increasing
    <3>. QED
      BY <3>1, <1>1, <2>1, <2>2
  <2>3. CASE j = Len(s) + 1
    <3>1. s[i] \in Nat /\ s[i] <= n
      BY <1>3, <2>1
    <3>2. t[i] = s[i] /\ t[j] = n + 1
      BY <1>1, <2>1, <2>3
    <3>. QED
      BY <3>1, <3>2
  <2>. QED
    BY <2>2, <2>3, <1>2
<1>5. UpTo(t, n + 1)
  BY <1>1, <1>2, <1>3 DEF UpTo
<1>6. Increasing(t)
  BY <1>2, <1>4 DEF Increasing
<1>. QED
  BY <1>5, <1>6 DEF t

-----------------------------------------------------------------------------
(* The handlers                                                            *)

Kept(r, s) ==
  /\ s.st = r.st /\ s.valid = r.valid /\ s.inhibit = r.inhibit
  /\ s.hist = r.hist /\ s.stack = r.stack /\ s.restored = r.restored

\* A flush sends a first part of the buffer and times the rest.
LEMMA FlushResult ==
  ASSUME NEW r \in EmcyState
  PROVE  LET d == Flush(r) IN
           /\ d.r \in EmcyState /\ d.tx \in Seq(Error)
           /\ Kept(r, d.r) /\ d.r.reg = r.reg
           /\ d.tx \o d.r.buf = r.buf
           /\ Len(d.r.buf) <= Len(r.buf)
           /\ Timed(d.r)
<1>1. r.buf \in Seq(Error) /\ Len(r.buf) \in Nat
  BY LenProperties DEF EmcyState
<1>2. <<>> \in Seq(Error) /\ Len(<<>>) = 0
  BY EmptySeq
<1>3. <<>> \o r.buf = r.buf /\ r.buf \o <<>> = r.buf
  BY <1>1, ConcatEmptySeq
<1>4. CASE r.buf = <<>>
  BY <1>1, <1>2, <1>3, <1>4 DEF Flush, Done, Kept, Timed
<1>5. CASE r.buf # <<>> /\ r.wait > 0
  <2> DEFINE s == [r EXCEPT !.due = r.wait, !.cut = FALSE]
  <2>1. Flush(r) = Done(s, <<>>)
    BY <1>5 DEF Flush
  <2>2. s \in EmcyState /\ Kept(r, s) /\ s.reg = r.reg /\ s.buf = r.buf
    BY DEF EmcyState, Kept
  <2>3. Timed(s)
    BY <1>5 DEF Timed, EmcyState
  <2>. HIDE DEF s
  <2>. QED
    BY <2>1, <2>2, <2>3, <1>1, <1>2, <1>3 DEF Done
<1>6. CASE r.buf # <<>> /\ ~(r.wait > 0) /\ r.inhibit = 0
  <2> DEFINE s == [r EXCEPT !.buf = <<>>, !.cut = FALSE]
  <2>1. Flush(r) = Done(s, r.buf)
    BY <1>6 DEF Flush
  <2>2. s \in EmcyState /\ Kept(r, s) /\ s.reg = r.reg /\ s.buf = <<>>
    BY <1>2 DEF EmcyState, Kept
  <2>3. Timed(s)
    BY <2>2 DEF Timed
  <2>4. Flush(r).r = s /\ Flush(r).tx = r.buf
    BY <2>1 DEF Done
  <2>. HIDE DEF s
  <2>5. r.buf \o s.buf = r.buf /\ Len(s.buf) <= Len(r.buf)
    BY <2>2, <1>1, <1>2, <1>3
  <2>. QED
    BY <2>2, <2>3, <2>4, <2>5, <1>1
<1>7. CASE r.buf # <<>> /\ ~(r.wait > 0) /\ r.inhibit # 0
  <2> DEFINE s == [r EXCEPT !.buf = Tail(@),
                            !.wait = r.inhibit,
                            !.due = IF Tail(r.buf) = <<>> THEN @ ELSE r.inhibit,
                            !.cut = FALSE]
  <2>1. Flush(r) = Done(s, <<Head(r.buf)>>)
    BY <1>7 DEF Flush
  <2>2. /\ Head(r.buf) \in Error /\ Tail(r.buf) \in Seq(Error)
        /\ Len(Tail(r.buf)) = Len(r.buf) - 1
    BY <1>1, <1>7, HeadTailProperties
  <2>3. <<Head(r.buf)>> \in Seq(Error)
    BY <2>2
  <2>4. <<Head(r.buf)>> \o Tail(r.buf) = r.buf
    BY <1>1, <1>7, <2>2
  <2>5. s \in EmcyState /\ Kept(r, s) /\ s.reg = r.reg /\ s.buf = Tail(r.buf)
    BY <2>2 DEF EmcyState, Kept
  <2>6. Timed(s)
    BY <1>7 DEF Timed, EmcyState
  <2>7. Flush(r).r = s /\ Flush(r).tx = <<Head(r.buf)>>
    BY <2>1 DEF Done
  <2>8. Len(Tail(r.buf)) <= Len(r.buf)
    BY <2>2, <1>1
  <2>. HIDE DEF s
  <2>. QED
    BY <2>3, <2>4, <2>5, <2>6, <2>7, <2>8
<1>. QED
  BY <1>4, <1>5, <1>6, <1>7

\* An error is appended to the buffer, or it is not sent at all.
LEMMA SendResult ==
  ASSUME NEW r \in EmcyState, NEW e \in Error, Len(r.buf) <= BufSize, Timed(r)
  PROVE  LET d == Send(r, e) IN
           /\ d.r \in EmcyState /\ d.tx \in Seq(Error)
           /\ Kept(r, d.r) /\ d.r.reg
           /\ d.tx \o d.r.buf \in {r.buf, Append(r.buf, e)}
           /\ Len(d.r.buf) <= BufSize
           /\ Timed(d.r)
<1> DEFINE s == [r EXCEPT !.reg = TRUE]
<1>1. s \in EmcyState /\ Kept(r, s) /\ s.reg /\ s.buf = r.buf /\ Timed(s)
  BY DEF EmcyState, Kept, Timed
<1>2. r.buf \in Seq(Error) /\ Len(r.buf) \in Nat
  BY LenProperties DEF EmcyState
<1>3. CASE ~s.valid \/ Len(s.buf) = BufSize
  <2>1. Send(r, e) = Done(s, <<>>)
    BY <1>3 DEF Send
  <2>2. <<>> \o s.buf = r.buf /\ <<>> \in Seq(Error)
    BY <1>1, <1>2, ConcatEmptySeq, EmptySeq
  <2>. HIDE DEF s
  <2>. QED
    BY <2>1, <2>2, <1>1 DEF Done
<1>4. CASE ~(~s.valid \/ Len(s.buf) = BufSize)
  <2> DEFINE q == [s EXCEPT !.buf = Append(@, e)]
  <2>1. Send(r, e) = Flush(q)
    BY <1>4 DEF Send
  <2>2. /\ Append(r.buf, e) \in Seq(Error)
        /\ Len(Append(r.buf, e)) = Len(r.buf) + 1
    BY <1>2, AppendProperties
  <2>3. /\ q \in EmcyState /\ Kept(r, q) /\ q.reg = TRUE
        /\ q.buf = Append(r.buf, e)
    BY <2>2 DEF EmcyState, Kept
  <2>4. Len(r.buf) < BufSize
    BY <1>1, <1>2, <1>4, SizeAssumption
  <2>. HIDE DEF q
  <2>5. LET d == Flush(q) IN
          /\ d.r \in EmcyState /\ d.tx \in Seq(Error)
          /\ Kept(q, d.r) /\ d.r.reg = q.reg
          /\ d.tx \o d.r.buf = q.buf
          /\ Len(d.r.buf) <= Len(q.buf)
          /\ Timed(d.r)
    BY <2>3, FlushResult
  <2>6. Len(Flush(q).r.buf) \in Nat
    BY <2>5, LenProperties DEF EmcyState
  <2>7. Len(Flush(q).r.buf) <= BufSize
    BY <1>2, <2>2, <2>3, <2>4, <2>5, <2>6, SizeAssumption
  <2>. QED
    BY <2>1, <2>3, <2>5, <2>7 DEF Kept
<1>. QED
  BY <1>3, <1>4

\* An error on the stack is mirrored in 1003 and 1001, and sent behind the others.
LEMMA PushResult ==
  ASSUME NEW r \in EmcyState, NEW e \in Error,
         Len(r.stack) <= MaxMsg, Len(r.buf) <= BufSize, Timed(r), Mirrors(r)
  PROVE  LET d == Push(r, e) IN
           /\ d.r \in EmcyState /\ d.tx \in Seq(Error)
           /\ d.tx \o d.r.buf \in {r.buf, Append(r.buf, e)}
           /\ Len(d.r.buf) <= BufSize /\ Len(d.r.stack) <= MaxMsg
           /\ Timed(d.r) /\ Mirrors(d.r)
<1>1. r.buf \in Seq(Error) /\ r.stack \in Seq(Error) /\ Len(r.stack) \in Nat
  BY LenProperties DEF EmcyState
<1>2. CASE Len(r.stack) = MaxMsg
  <2>1. Push(r, e) = Done(r, <<>>)
    BY <1>2 DEF Push
  <2>2. <<>> \o r.buf = r.buf /\ <<>> \in Seq(Error)
    BY <1>1, ConcatEmptySeq, EmptySeq
  <2>. QED
    BY <2>1, <2>2 DEF Done
<1>3. CASE Len(r.stack) # MaxMsg
  <2> DEFINE p == [r EXCEPT !.stack = <<e>> \o @]
             s == Set1003(p)
  <2>1. Push(r, e) = Send(s, e)
    BY <1>3 DEF Push
  <2>2. /\ <<e>> \o r.stack \in Seq(Error)
        /\ Len(<<e>> \o r.stack) = Len(r.stack) + 1
    BY <1>1, ConcatProperties
  <2>3. p \in EmcyState /\ p.stack = <<e>> \o r.stack
    BY <2>2 DEF EmcyState
  <2>4. Latest(p.stack) \in Seq(Error)
    BY <2>2, <2>3, LatestType
  <2>5. /\ s \in EmcyState /\ s.stack = <<e>> \o r.stack /\ s.buf = r.buf
        /\ s.hist = Latest(s.stack) /\ s.restored = FALSE
        /\ s.due = r.due /\ s.cut = r.cut
    BY <2>3, <2>4 DEF Set1003, EmcyState
  <2>6. Timed(s)
    BY <2>5 DEF Timed
  <2>7. Len(s.stack) <= MaxMsg
    BY <1>1, <1>3, <2>2, <2>5, SizeAssumption
  <2>. HIDE DEF p, s
  <2>8. LET d == Send(s, e) IN
          /\ d.r \in EmcyState /\ d.tx \in Seq(Error)
          /\ Kept(s, d.r) /\ d.r.reg
          /\ d.tx \o d.r.buf \in {s.buf, Append(s.buf, e)}
          /\ Len(d.r.buf) <= BufSize
          /\ Timed(d.r)
    BY <2>5, <2>6, SendResult
  <2>. QED
    BY <2>1, <2>5, <2>7, <2>8 DEF Kept, Mirrors
<1>. QED
  BY <1>2, <1>3

-----------------------------------------------------------------------------
(* The actions                                                             *)

\* A created service satisfies the invariant.
LEMMA InitInv == Init => EInv
<1> SUFFICES ASSUME Init PROVE EInv
  OBVIOUS
<1>1. <<>> \in Seq(Error) /\ Len(<<>>) = 0
  BY EmptySeq
<1>2. emcy \in EmcyState
  BY <1>1, ObjectAssumption DEF Init, Created, EmcyState
<1>3. TypeOK
  BY <1>1, <1>2, SizeAssumption DEF Init, Created, TypeOK
<1>4. Latest(<<>>) = <<>>
  <2>1. Latest(<<>>) \in Seq(Error) /\ Len(Latest(<<>>)) <= Len(<<>>)
    BY <1>1, LatestType DEF IsPrefix
  <2>. QED
    BY <2>1, <1>1, EmptySeq, LenProperties
<1>5. Mirrors(emcy) /\ Timed(emcy)
  BY <1>4 DEF Init, Created, Mirrors, Timed
<1>6. bus \o emcy.buf = <<>>
  BY <1>1, ConcatEmptySeq DEF Init, Created
<1>7. InOrder /\ UpTo(bus \o emcy.buf, last)
  BY <1>6 DEF InOrder, Increasing, UpTo
<1>. QED
  BY <1>3, <1>5, <1>7 DEF EInv

\* An action that leaves the frames alone needs its record checked only.
LEMMA QuietStep ==
  ASSUME EInv, emcy' \in EmcyState, emcy'.buf = emcy.buf,
         Len(emcy'.stack) <= MaxMsg, Mirrors(emcy'), Timed(emcy'),
         UNCHANGED <<bus, last>>
  PROVE  EInv'
<1>1. Len(emcy'.buf) <= BufSize
  BY DEF EInv, TypeOK
<1>2. TypeOK'
  BY <1>1 DEF EInv, TypeOK
<1>3. InOrder' /\ UpTo(bus \o emcy.buf, last)'
  BY DEF EInv, InOrder, Increasing, UpTo
<1>4. Mirrors(emcy)' /\ Timed(emcy)'
  BY DEF Mirrors, Timed, Latest
<1>. QED
  BY <1>2, <1>3, <1>4 DEF EInv

\* The step of a handler whose frames follow those on the bus.
LEMMA LoudStep ==
  ASSUME EInv, emcy' \in EmcyState,
         Len(emcy'.stack) <= MaxMsg, Len(emcy'.buf) <= BufSize,
         Mirrors(emcy'), Timed(emcy'), last' \in 0 .. MaxErr,
         \E tx \in Seq(Error) :
           /\ bus' = bus \o tx
           /\ \/ tx \o emcy'.buf = emcy.buf /\ last' \in {last, last + 1}
              \/ tx \o emcy'.buf = Append(emcy.buf, last') /\ last' = last + 1
  PROVE  EInv'
<1> DEFINE all == bus \o emcy.buf
<1>1. emcy.buf \in Seq(Error) /\ bus \in Seq(Error) /\ last \in Nat
  BY SizeAssumption DEF EInv, TypeOK, EmcyState
<1>2. PICK tx \in Seq(Error) :
        /\ bus' = bus \o tx
        /\ \/ tx \o emcy'.buf = emcy.buf /\ last' \in {last, last + 1}
           \/ tx \o emcy'.buf = Append(emcy.buf, last') /\ last' = last + 1
  OBVIOUS
<1>3. emcy'.buf \in Seq(Error)
  BY DEF EmcyState
<1>4. bus' \in Seq(Error)
  BY <1>1, <1>2, ConcatProperties
<1>5. bus' \o emcy'.buf = bus \o (tx \o emcy'.buf)
  <2>1. ASSUME NEW t \in Seq(Error), NEW u \in Seq(Error)
        PROVE  (bus \o t) \o u = bus \o (t \o u)
    <3>1. bus \in Seq(Error)
      BY <1>1
    <3>. QED
      BY <3>1, <2>1, Associative
  <2>. QED
    BY <2>1, <1>2, <1>3
<1>6. all \in Seq(Error) /\ Increasing(all) /\ UpTo(all, last)
  BY <1>1, ConcatProperties DEF EInv, InOrder
<1>7. Increasing(bus' \o emcy'.buf) /\ UpTo(bus' \o emcy'.buf, last')
  <2>1. CASE tx \o emcy'.buf = emcy.buf /\ last' \in {last, last + 1}
    <3>1. bus' \o emcy'.buf = all
      BY <2>1, <1>5
    <3>2. ASSUME NEW i \in DOMAIN all PROVE all[i] \in Nat
      <4>1. all[i] \in Error
        BY <1>6, <3>2, LenProperties, ElementOfSeq
      <4>. QED
        BY <4>1, SizeAssumption DEF Error
    <3>3. \A i \in DOMAIN all : all[i] <= last
      BY <1>6 DEF UpTo
    <3>. HIDE DEF all
    <3>4. \A i \in DOMAIN all : all[i] <= last'
      BY <2>1, <3>2, <3>3, <1>1
    <3>. QED
      BY <3>1, <3>4, <1>6 DEF UpTo
  <2>2. CASE tx \o emcy'.buf = Append(emcy.buf, last') /\ last' = last + 1
    <3>1. last + 1 \in Error
      BY <2>2, <1>1, SizeAssumption DEF Error
    <3>2. bus \o Append(emcy.buf, last + 1) = Append(all, last + 1)
      BY <1>1, <3>1
    <3>3. bus' \o emcy'.buf = Append(all, last + 1)
      BY <2>2, <1>5, <3>2
    <3>. HIDE DEF all
    <3>4. Increasing(Append(all, last + 1)) /\ UpTo(Append(all, last + 1), last + 1)
      BY <1>1, <1>6, <3>1, IncreasingAppend
    <3>. QED
      BY <2>2, <3>3, <3>4
  <2>. QED
    BY <1>2, <2>1, <2>2
<1>8. TypeOK'
  BY <1>4 DEF TypeOK
<1>9. InOrder' /\ UpTo(bus \o emcy.buf, last)'
  BY <1>7 DEF InOrder, Increasing, UpTo
<1>10. Mirrors(emcy)' /\ Timed(emcy)'
  BY DEF Mirrors, Timed, Latest
<1>. QED
  BY <1>8, <1>9, <1>10 DEF EInv

\* Every step of the service preserves the invariant.
LEMMA NextInv == EInv /\ [Next]_vars => EInv'
<1> SUFFICES ASSUME EInv, [Next]_vars PROVE EInv'
  OBVIOUS
<1>1. /\ emcy \in EmcyState /\ Mirrors(emcy) /\ Timed(emcy)
      /\ Len(emcy.stack) <= MaxMsg /\ Len(emcy.buf) <= BufSize
      /\ last \in 0 .. MaxErr
  BY DEF EInv, TypeOK
<1>2. emcy.stack \in Seq(Error) /\ emcy.hist \in Seq(Error)
  BY <1>1 DEF EmcyState
<1>3. <<>> \in Seq(Error) /\ Len(<<>>) = 0
  BY EmptySeq
<1>4. Latest(<<>>) = <<>>
  <2>1. Latest(<<>>) \in Seq(Error) /\ Len(Latest(<<>>)) <= Len(<<>>)
    BY <1>3, LatestType DEF IsPrefix
  <2>. QED
    BY <2>1, <1>3, EmptySeq, LenProperties
<1>5. ASSUME NEW source \in {"sync", "rpdo"}, RaiseError(source) PROVE EInv'
  <2>1. last' = last + 1 /\ last' \in 0 .. MaxErr /\ last' \in Error
    BY <1>1, <1>5, SizeAssumption DEF RaiseError, Error
  <2>2. Step(Push(emcy, last'))
    BY <1>5 DEF RaiseError
  <2>3. LET d == Push(emcy, last') IN
          /\ d.r \in EmcyState /\ d.tx \in Seq(Error)
          /\ d.tx \o d.r.buf \in {emcy.buf, Append(emcy.buf, last')}
          /\ Len(d.r.buf) <= BufSize /\ Len(d.r.stack) <= MaxMsg
          /\ Timed(d.r) /\ Mirrors(d.r)
    BY <1>1, <2>1, PushResult
  <2>4. emcy' = Push(emcy, last').r /\ bus' = bus \o Push(emcy, last').tx
    BY <2>2 DEF Step
  <2>. QED
    BY <2>1, <2>3, <2>4, LoudStep
<1>6. ASSUME NEW st \in {"preop", "start"}, Reset(st) PROVE EInv'
  <2>1. /\ emcy'.stack = emcy.stack /\ emcy'.buf = emcy.buf
        /\ emcy'.hist = <<>> /\ emcy'.restored = (emcy.stack # <<>>)
        /\ emcy'.due \in {0, emcy.due}
        /\ \/ emcy'.due = emcy.due /\ emcy'.cut = emcy.cut
           \/ emcy.buf # <<>> => emcy'.cut
    BY <1>1, <1>6 DEF Reset, EmcyStop, EmcyStart, Running, EmcyState
  <2>2. emcy' \in EmcyState
    <3> DEFINE e == EmcyStop(emcy)
               q == [e EXCEPT !.st = "stop",
                       !.valid = Stored.valid, !.inhibit = Stored.inhibit,
                       !.reg = FALSE, !.hist = <<>>,
                       !.restored = emcy.stack # <<>>]
    <3>1. e \in EmcyState
      BY <1>1 DEF EmcyStop, EmcyState
    <3>2. Stored.valid \in BOOLEAN /\ Stored.inhibit \in Nat
      BY ObjectAssumption
    <3>. HIDE DEF e
    <3>3. q \in EmcyState
      BY <1>3, <3>1, <3>2 DEF EmcyState
    <3>4. emcy' = [EmcyStart(q) EXCEPT !.st = st]
      BY <1>6 DEF Reset, e
    <3>. HIDE DEF q
    <3>5. EmcyStart(q) \in EmcyState
      BY <3>3 DEF EmcyStart, EmcyState
    <3>. QED
      BY <3>4, <3>5 DEF EmcyState
  <2>3. Mirrors(emcy') /\ Timed(emcy')
    BY <1>1, <1>4, <2>1 DEF Mirrors, Timed
  <2>4. UNCHANGED <<bus, last>>
    BY <1>6 DEF Reset
  <2>. QED
    BY <1>1, <2>1, <2>2, <2>3, <2>4, QuietStep
<1>7. ASSUME EnterStop PROVE EInv'
  <2>1. /\ emcy' \in EmcyState /\ emcy'.buf = emcy.buf
        /\ emcy'.stack = emcy.stack /\ emcy'.hist = emcy.hist
        /\ emcy'.restored = emcy.restored /\ emcy'.reg = emcy.reg
        /\ emcy.buf # <<>> => emcy'.cut
    BY <1>1, <1>7 DEF EnterStop, EmcyStop, Running, EmcyState
  <2>2. Mirrors(emcy') /\ Timed(emcy') /\ UNCHANGED <<bus, last>>
    BY <1>1, <1>7, <2>1 DEF Mirrors, Timed, EnterStop
  <2>. QED
    BY <1>1, <2>1, <2>2, QuietStep
<1>8. ASSUME NEW st \in {"preop", "start"}, EnterRunning(st) PROVE EInv'
  <2>1. /\ emcy' \in EmcyState /\ emcy'.buf = emcy.buf
        /\ emcy'.stack = emcy.stack /\ emcy'.hist = emcy.hist
        /\ emcy'.restored = emcy.restored /\ emcy'.reg = emcy.reg
        /\ emcy'.due = emcy.due /\ emcy'.cut = emcy.cut
    BY <1>1, <1>8 DEF EnterRunning, EmcyStart, Running, EmcyState
  <2>2. Mirrors(emcy') /\ Timed(emcy') /\ UNCHANGED <<bus, last>>
    BY <1>1, <1>8, <2>1 DEF Mirrors, Timed, EnterRunning
  <2>. QED
    BY <1>1, <2>1, <2>2, QuietStep
<1>9. ASSUME Clear1003 PROVE EInv'
  <2>1. /\ emcy' \in EmcyState /\ emcy'.buf = emcy.buf
        /\ emcy'.stack = <<>> /\ emcy'.hist = <<>>
        /\ emcy'.due = emcy.due /\ emcy'.cut = emcy.cut
    BY <1>1, <1>3, <1>4, <1>9 DEF Clear1003, Set1003, EmcyState
  <2>2. Mirrors(emcy') /\ Timed(emcy') /\ UNCHANGED <<bus, last>>
    BY <1>1, <1>4, <1>9, <2>1 DEF Mirrors, Timed, Clear1003
  <2>. QED
    BY <1>1, <1>3, <2>1, <2>2, QuietStep, SizeAssumption
<1>10. ASSUME NEW valid \in BOOLEAN, Write1014(valid) PROVE EInv'
  <2>1. /\ emcy' \in EmcyState
        /\ Mirrors(emcy') /\ Timed(emcy')
        /\ emcy'.buf = emcy.buf /\ emcy'.stack = emcy.stack
        /\ UNCHANGED <<bus, last>>
    BY <1>1, <1>10 DEF Write1014, EmcyState, Mirrors, Timed
  <2>. QED
    BY <1>1, <2>1, QuietStep
<1>11. ASSUME NEW inhibit \in Inhibits, Write1015(inhibit) PROVE EInv'
  <2>1. /\ emcy' \in EmcyState
        /\ Mirrors(emcy') /\ Timed(emcy')
        /\ emcy'.buf = emcy.buf /\ emcy'.stack = emcy.stack
        /\ UNCHANGED <<bus, last>>
    BY <1>1, <1>11, ObjectAssumption DEF Write1015, EmcyState, Mirrors, Timed
  <2>. QED
    BY <1>1, <2>1, QuietStep
<1>12. ASSUME Tick PROVE EInv'
  <2> DEFINE r == [emcy EXCEPT !.wait = IF @ = 0 THEN 0 ELSE @ - 1,
                               !.due = IF @ = 0 THEN 0 ELSE @ - 1]
             d == IF emcy.due = 1 THEN Flush(r) ELSE Done(r, <<>>)
  <2>1. /\ r \in EmcyState /\ Kept(emcy, r) /\ r.reg = emcy.reg
        /\ r.buf = emcy.buf
    <3> DEFINE w == IF emcy.wait = 0 THEN 0 ELSE emcy.wait - 1
               u == IF emcy.due = 0 THEN 0 ELSE emcy.due - 1
    <3>1. w \in Nat /\ u \in Nat
      BY <1>1 DEF EmcyState
    <3>2. r = [emcy EXCEPT !.wait = w, !.due = u]
      OBVIOUS
    <3>. HIDE DEF w, u, r
    <3>. QED
      BY <3>1, <3>2, <1>1 DEF EmcyState, Kept
  <2>2. emcy.due # 1 => Timed(r)
    BY <1>1 DEF EmcyState, Timed
  <2>3. Step(d) /\ last' = last
    BY <1>12 DEF Tick
  <2>. HIDE DEF r
  <2>4. emcy.buf \in Seq(Error) /\ <<>> \o emcy.buf = emcy.buf /\ Len(emcy.buf) \in Nat
    BY <1>1, ConcatEmptySeq, LenProperties DEF EmcyState
  <2>5. /\ d.r \in EmcyState /\ d.tx \in Seq(Error)
        /\ Kept(emcy, d.r) /\ d.r.reg = emcy.reg
        /\ d.tx \o d.r.buf = emcy.buf
        /\ Len(d.r.buf) <= BufSize
        /\ Timed(d.r)
    <3>1. CASE emcy.due = 1
      <4>1. d = Flush(r)
        BY <3>1
      <4>. HIDE DEF d
      <4>2. LET f == Flush(r) IN
              /\ f.r \in EmcyState /\ f.tx \in Seq(Error)
              /\ Kept(r, f.r) /\ f.r.reg = r.reg
              /\ f.tx \o f.r.buf = r.buf
              /\ Len(f.r.buf) <= Len(r.buf)
              /\ Timed(f.r)
        BY <2>1, FlushResult
      <4>3. Len(d.r.buf) \in Nat
        BY <4>1, <4>2, LenProperties DEF EmcyState
      <4>. QED
        BY <4>1, <4>2, <4>3, <2>1, <2>4, <1>1, SizeAssumption DEF Kept
    <3>2. CASE emcy.due # 1
      BY <3>2, <1>1, <1>3, <2>1, <2>2, <2>4 DEF Done
    <3>. QED
      BY <3>1, <3>2
  <2>6. Len(d.r.stack) <= MaxMsg /\ Mirrors(d.r)
    BY <1>1, <2>5 DEF Kept, Mirrors
  <2>7. last' \in {last, last + 1} /\ last' \in 0 .. MaxErr
    BY <1>1, <2>3
  <2>8. emcy' = d.r /\ bus' = bus \o d.tx
    BY <2>3 DEF Step
  <2>. HIDE DEF d
  <2>. QED
    BY <2>3, <2>5, <2>6, <2>7, <2>8, LoudStep
<1>13. ASSUME UNCHANGED vars PROVE EInv'
  BY <1>1, <1>13, QuietStep DEF vars
<1>. QED
  BY <1>5, <1>6, <1>7, <1>8, <1>9, <1>10, <1>11, <1>12, <1>13 DEF Next

\* The stack, the objects, the buffer and the bus agree in every state.
THEOREM Inductive == Spec => []EInv
  BY InitInv, NextInv, PTL DEF Spec

-----------------------------------------------------------------------------
(* What follows                                                            *)

\* The stack and the buffer never exceed their capacity.
THEOREM TypeCorrect == Spec => []TypeOK
<1>1. EInv => TypeOK
  BY DEF EInv
<1>. QED
  BY <1>1, Inductive, PTL

\* 1003 and 1001 tell of the errors on the stack, unless a reset restored them.
THEOREM HistoryIsThatOfTheStack == Spec => []HistoryMirrorsStack
<1>1. EInv => HistoryMirrorsStack
  <2> SUFFICES ASSUME EInv, ~emcy.restored
               PROVE  /\ Len(emcy.hist) <= HistLen
                      /\ IsPrefix(emcy.hist, emcy.stack)
                      /\ Len(emcy.hist) < HistLen => emcy.hist = emcy.stack
                      /\ emcy.stack # <<>> => emcy.reg
    BY DEF HistoryMirrorsStack
  <2>1. emcy.stack \in Seq(Error)
    BY DEF EInv, TypeOK, EmcyState
  <2>2. emcy.hist = Latest(emcy.stack) /\ (emcy.stack # <<>> => emcy.reg)
    BY DEF EInv, Mirrors
  <2>. QED
    BY <2>1, <2>2, LatestType
<1>. QED
  BY <1>1, Inductive, PTL

\* A frame in the buffer is timed, unless a stop cut it off.
THEOREM PendingFramesAreTimed == Spec => []PendingIsTimed
<1>1. EInv => PendingIsTimed
  BY DEF EInv, PendingIsTimed
<1>. QED
  BY <1>1, Inductive, PTL

\* Messages leave in the order of the errors, whatever the inhibit time does.
THEOREM MessagesAreInOrder == Spec => []InOrder
<1>1. EInv => InOrder
  BY DEF EInv
<1>. QED
  BY <1>1, Inductive, PTL
=============================================================================
