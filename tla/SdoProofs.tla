------------------------------ MODULE SdoProofs ------------------------------
(* Type correctness of Sdo, and with it that no transfer reads or writes      *)
(* beyond the end of a buffer; that a confirmed download was stored, that a   *)
(* successful upload returns a value of the object, that the object holds     *)
(* whole values, and that without a fault every transfer succeeds for which   *)
(* there is room: whatever is lost, late or taken for something else, for     *)
(* every set of values, capacity, block size, threshold and number of faults. *)
EXTENDS Sdo, SequenceTheorems, TLAPS

\* A value of which there is something to transfer.
Val == {d \in Seq(Segment) : 1 <= Len(d) /\ Len(d) <= 15}

\* Frames announce the sizes of such values only.
FromClient == {m \in ClientFrame :
  /\ m.k = "dn_exp" => m.data \in Val
  /\ m.k \in {"dn_ini", "blk_dn_ini"} => m.size \in 1 .. 15}

FromServer == {m \in ServerFrame :
  m.k \in {"up_ini_res", "blk_up_ini_res"} => m.size \in 1 .. 15}

\* What a server r has taken fits its buffer, and what it has still to send lies
\* within the value.
ServerFits(r) ==
  /\ r \in ServerState
  /\ r.st \in {"wait", "stopped", "down"} => r = ServerIn(r.st)
  /\ r.st \in {"dn_seg", "blk_dn_sub", "blk_dn_end"} =>
       r.size \in 1 .. 15 /\ Len(r.data) <= r.size
  /\ r.st = "blk_dn_sub" => r.ackseq <= Len(r.data)
  /\ r.st \in {"up_seg", "blk_up_sub"} =>
       r.value \in Val /\ r.size = Len(r.value)
  /\ r.st = "up_seg" => r.pos < r.size
  /\ r.st = "blk_up_sub" =>
       /\ r.pos <= r.size /\ r.win <= r.pos
       /\ r.pos > 0 => r.win = r.blksize

\* The same for a client c.
Within(c) == c \in ClientState /\ c.pos <= Len(c.value) /\ Len(c.value) <= 15

ClientFits(c) ==
  /\ Within(c)
  /\ c.st = "blk_dn_sub" => c.blksize <= c.pos
  /\ c.st \in {"up_ini", "blk_up_ini"} => c.buf = <<>>
  /\ c.st = "blk_up_sub" =>
       c.size \in 1 .. 15 /\ Len(c.buf) <= c.size /\ c.ackseq <= Len(c.buf)

FInv ==
  /\ ClientFits(cli)
  /\ ServerFits(srv)
  /\ object \in Val
  /\ c2s \in Seq(FromClient) /\ s2c \in Seq(FromServer)
  /\ maxSeqno \in MaxSeqnos
  /\ faults \in 0 .. MaxFault
  /\ had \subseteq Seq(Segment) /\ written \subseteq Seq(Segment)
  /\ stale \in BOOLEAN /\ mixed \in BOOLEAN /\ spilled \in BOOLEAN

-----------------------------------------------------------------------------
(* Values and frames                                                       *)

LEMMA SegsVal == \A v \in Value : Segs(v) \in Val /\ Len(Segs(v)) = Length[v]
<1> SUFFICES ASSUME NEW v \in Value
             PROVE  Segs(v) \in Val /\ Len(Segs(v)) = Length[v]
  OBVIOUS
<1>1. Length[v] \in 1 .. 15
  BY ValueAssumption
<1>2. \A i \in 1 .. Length[v] : <<v, i>> \in Segment
  BY <1>1 DEF Segment
<1>3. Segs(v) \in Seq(Segment) /\ Len(Segs(v)) = Length[v]
  BY <1>1, <1>2 DEF Segs
<1>4. 1 <= Length[v] /\ Length[v] <= 15
  BY <1>1
<1> QED BY <1>3, <1>4 DEF Val

LEMMA ValLen ==
  ASSUME NEW d \in Val
  PROVE  d \in Seq(Segment) /\ Len(d) \in 1 .. 15 /\ Len(d) \in Nat /\ 0 < Len(d)
<1> DEFINE n == Len(d)
<1>1. d \in Seq(Segment) /\ n \in Nat /\ 1 <= n /\ n <= 15
  BY DEF Val
<1> HIDE DEF n
<1>2. n \in 1 .. 15 /\ 0 < n
  BY <1>1
<1> QED BY <1>1, <1>2 DEF n

LEMMA Single == \A S : \A x \in S : <<x>> \in Seq(S) /\ <<>> \in Seq(S)
OBVIOUS

LEMMA SeqnoNat == Seqno \subseteq Nat
BY DEF Seqno

\* The segments counted by a sequence number a are among the n in a buffer of s.
LEMMA Counted ==
  ASSUME NEW a \in Seqno, NEW n \in Nat, NEW s \in 1 .. 15, n <= s, a <= n
  PROVE  a + 1 < 32 /\ a + 1 \in Seqno /\ a + 1 <= n + 1
BY DEF Seqno

\* Of size segments pos were sent, of which left are to be sent again: the next
\* block has at most max and ends within the value.
LEMMA Window ==
  ASSUME NEW size \in Nat, NEW pos \in Nat, pos <= size,
         NEW left \in Nat, left <= pos, NEW max \in Seqno,
         NEW from, from = pos - left,
         NEW n, n = IF from + max < size THEN max ELSE size - from
  PROVE  /\ from \in Nat /\ n \in Nat /\ n \in Seqno /\ n <= max
         /\ from + n \in Nat /\ from + n <= size /\ n <= from + n
BY DEF Seqno

LEMMA Unconfirmed ==
  ASSUME NEW win \in Nat, NEW ack \in Seqno, ack <= win, NEW pos \in Nat, win <= pos
  PROVE  win - ack \in Nat /\ win - ack <= pos
BY DEF Seqno

LEMMA MaxSeqnoType == maxSeqno \in MaxSeqnos => maxSeqno \in 1 .. 127
BY BoundAssumption

\* The frames that the server sends.
LEMMA ServerFrames ==
  /\ [k |-> "abort"] \in FromServer
  /\ [k |-> "dn_ini_res"] \in FromServer
  /\ [k |-> "blk_dn_end_res"] \in FromServer
  /\ \A t \in 0 .. 1 : [k |-> "dn_seg_res", toggle |-> t] \in FromServer
  /\ \A d \in Seq(Segment) : [k |-> "up_exp", data |-> d] \in FromServer
  /\ \A n \in 1 .. 15 : /\ [k |-> "up_ini_res", size |-> n] \in FromServer
                        /\ [k |-> "blk_up_ini_res", size |-> n] \in FromServer
  /\ \A t \in 0 .. 1, d \in Segment, last \in BOOLEAN :
       [k |-> "up_seg_res", toggle |-> t, data |-> d, last |-> last] \in FromServer
  /\ \A n \in Seqno : [k |-> "blk_dn_ini_res", blksize |-> n] \in FromServer
  /\ \A n, b \in Seqno :
       [k |-> "blk_dn_res", ackseq |-> n, blksize |-> b] \in FromServer
  /\ \A n \in Seqno, d \in Segment, last \in BOOLEAN :
       [k |-> "seg", seqno |-> n, data |-> d, last |-> last] \in FromServer
  /\ \A d \in Seq(Segment) : [k |-> "blk_up_end_res", crc |-> d] \in FromServer
BY DEF FromServer, ServerFrame

\* The frames that the client sends.
LEMMA ClientFrames ==
  /\ [k |-> "abort"] \in FromClient
  /\ [k |-> "up_ini"] \in FromClient
  /\ [k |-> "blk_up_start"] \in FromClient
  /\ [k |-> "blk_up_end"] \in FromClient
  /\ \A d \in Val : [k |-> "dn_exp", data |-> d] \in FromClient
  /\ \A n \in 1 .. 15 : /\ [k |-> "dn_ini", size |-> n] \in FromClient
                        /\ [k |-> "blk_dn_ini", size |-> n] \in FromClient
  /\ \A t \in 0 .. 1, d \in Segment, last \in BOOLEAN :
       [k |-> "dn_seg", toggle |-> t, data |-> d, last |-> last] \in FromClient
  /\ \A t \in 0 .. 1 : [k |-> "up_seg", toggle |-> t] \in FromClient
  /\ \A n \in Seqno, d \in Segment, last \in BOOLEAN :
       [k |-> "seg", seqno |-> n, data |-> d, last |-> last] \in FromClient
  /\ \A d \in Seq(Segment) : [k |-> "blk_dn_end", crc |-> d] \in FromClient
  /\ \A n \in Seqno, p \in Nat :
       [k |-> "blk_up_ini", blksize |-> n, pst |-> p] \in FromClient
  /\ \A n, b \in Seqno :
       [k |-> "blk_up_res", ackseq |-> n, blksize |-> b] \in FromClient
BY DEF FromClient, ClientFrame, Val

\* What the server may read of a frame m.
LEMMA ReadByServer ==
  ASSUME NEW m \in FromClient
  PROVE  /\ m.k = "dn_exp" => m.data \in Val
         /\ m.k \in {"dn_ini", "blk_dn_ini"} => m.size \in 1 .. 15
         /\ m.k \in {"dn_seg", "seg"} => m.data \in Segment /\ m.last \in BOOLEAN
         /\ m.k \in {"dn_seg", "up_seg"} => m.toggle \in 0 .. 1
         /\ m.k = "seg" => m.seqno \in Seqno
         /\ m.k = "blk_up_ini" => m.blksize \in Seqno /\ m.pst \in Nat
         /\ m.k = "blk_up_res" => m.ackseq \in Seqno /\ m.blksize \in Seqno
         /\ m.k # "up_seg_res"
BY DEF FromClient, ClientFrame

\* What the client may read of a frame m.
LEMMA ReadByClient ==
  ASSUME NEW m \in FromServer
  PROVE  /\ m.k = "up_exp" => m.data \in Seq(Segment)
         /\ m.k \in {"up_ini_res", "blk_up_ini_res"} => m.size \in 1 .. 15
         /\ m.k \in {"up_seg_res", "seg"} => m.data \in Segment /\ m.last \in BOOLEAN
         /\ m.k \in {"up_seg_res", "dn_seg_res"} => m.toggle \in 0 .. 1
         /\ m.k = "seg" => m.seqno \in Seqno
         /\ m.k = "blk_dn_ini_res" => m.blksize \in Seqno
         /\ m.k = "blk_dn_res" => m.ackseq \in Seqno /\ m.blksize \in Seqno
         /\ m.k # "dn_seg"
BY DEF FromServer, ServerFrame

\* The number read from a frame is within a block only if it carries data.
LEMMA SeqnoRead ==
  ASSUME NEW m \in FromClient \union FromServer
  PROVE  /\ SeqnoOf(m) \in Seqno
         /\ SeqnoOf(m) < 32 => m.data \in Segment
<1>1. CASE m.k = "seg"
  <2>1. m.seqno \in Seqno /\ m.data \in Segment
    BY <1>1, ReadByServer, ReadByClient
  <2>2. SeqnoOf(m) = m.seqno
    BY <1>1 DEF SeqnoOf
  <2> QED BY <2>1, <2>2
<1>2. CASE m.k \in {"dn_seg", "up_seg_res"}
  <2>1. m.toggle \in {0, 1} /\ m.data \in Segment
    BY <1>2, ReadByServer, ReadByClient
  <2>2. SeqnoOf(m) \in {0, 1, 16, 17}
    BY <1>2, <2>1 DEF SeqnoOf
  <2> QED BY <2>1, <2>2 DEF Seqno
<1>3. CASE m.k \notin {"seg", "dn_seg", "up_seg_res"}
  BY <1>3 DEF SeqnoOf, Seqno
<1> QED BY <1>1, <1>2, <1>3

\* The segments of a block.
LEMMA BlockType ==
  ASSUME NEW d \in Seq(Segment), NEW from \in Nat, NEW n \in Seqno,
         from + n <= Len(d), NEW last \in BOOLEAN
  PROVE  /\ Block(d, from, n, last) \in Seq(FromClient)
         /\ Block(d, from, n, last) \in Seq(FromServer)
<1> DEFINE f(i) == [k |-> "seg", seqno |-> i, data |-> d[from + i],
                    last |-> last /\ i = n]
<1>1. ASSUME NEW i \in 1 .. n PROVE f(i) \in FromClient /\ f(i) \in FromServer
  <2>1. i \in Seqno /\ d[from + i] \in Segment /\ (last /\ i = n) \in BOOLEAN
    BY DEF Seqno
  <2> QED BY <2>1, ClientFrames, ServerFrames
<1>2. Block(d, from, n, last) = [i \in 1 .. n |-> f(i)] /\ n \in Nat
  BY DEF Block, Seqno
<1> HIDE DEF f
<1> QED BY <1>1, <1>2

-----------------------------------------------------------------------------
(* The server                                                              *)

\* What there is to show of a server in each state.
LEMMA FitsIn ==
  ASSUME NEW r \in ServerState
  PROVE  /\ /\ r.st = "dn_seg" /\ r.size \in 1 .. 15 /\ Len(r.data) <= r.size
            => ServerFits(r)
         /\ /\ r.st = "up_seg" /\ r.value \in Val /\ r.size = Len(r.value)
            /\ r.pos < r.size
            => ServerFits(r)
         /\ /\ r.st = "blk_dn_sub" /\ r.size \in 1 .. 15 /\ Len(r.data) <= r.size
            /\ r.ackseq <= Len(r.data)
            => ServerFits(r)
         /\ /\ r.st = "blk_dn_end" /\ r.size \in 1 .. 15 /\ Len(r.data) <= r.size
            => ServerFits(r)
         /\ /\ r.st = "blk_up_sub" /\ r.value \in Val /\ r.size = Len(r.value)
            /\ r.pos <= r.size /\ r.win <= r.pos
            /\ r.pos > 0 => r.win = r.blksize
            => ServerFits(r)
         /\ r.st = "blk_up_end" => ServerFits(r)
BY DEF ServerFits

LEMMA ServerInFits ==
  ASSUME NEW st \in {"wait", "stopped", "down"}
  PROVE  ServerFits(ServerIn(st)) /\ ServerIn(st).st = st
<1>1. <<>> \in Seq(Segment) /\ 0 \in Seqno
  BY DEF Seqno
<1> QED BY <1>1 DEF ServerFits, ServerIn, ServerState

\* The server may answer a frame with r and tx.
LEMMA AnswerType ==
  ASSUME FInv, c2s # <<>>, NEW r, ServerFits(r), NEW tx \in Seq(FromServer),
         Answer(r, tx), Keep \/ \E d \in Val : Store(d)
  PROVE  FInv'
<1>1. /\ object' \in Val
      /\ had' \subseteq Seq(Segment) /\ written' \subseteq Seq(Segment)
  BY DEF FInv, Keep, Store, Val
<1>2. s2c \o tx \in Seq(FromServer) /\ Tail(c2s) \in Seq(FromClient)
  BY DEF FInv
<1> QED BY <1>1, <1>2 DEF FInv, Answer

LEMMA ServerEndType ==
  ASSUME FInv, c2s # <<>>, NEW tx \in Seq(FromServer), ServerEnd(tx)
  PROVE  FInv'
BY AnswerType, ServerInFits DEF ServerEnd

LEMMA AbortResType ==
  ASSUME FInv, c2s # <<>>, AbortRes
  PROVE  FInv'
<1>1. <<Abort>> \in Seq(FromServer)
  BY ServerFrames, Single DEF Abort
<1> QED BY <1>1, ServerEndType DEF AbortRes

LEMMA DownloadType ==
  ASSUME FInv, c2s # <<>>, NEW d \in Val, NEW r, ServerFits(r),
         NEW tx \in Seq(FromServer), Download(d, r, tx)
  PROVE  FInv'
BY AnswerType, AbortResType DEF Download

LEMMA UploadType ==
  ASSUME FInv, c2s # <<>>, srv.st = "wait", Keep, Upload
  PROVE  FInv'
<1>1. /\ object \in Val /\ object \in Seq(Segment) /\ Len(object) \in 1 .. 15
      /\ Len(object) \in Nat /\ 0 < Len(object)
      /\ srv \in ServerState /\ srv.pos = 0
  BY ValLen DEF FInv, ServerFits, ServerIn
<1>2. CASE IsSmall(object)
  <2> DEFINE tx == <<[k |-> "up_exp", data |-> object]>>
  <2>1. tx \in Seq(FromServer)
    BY <1>1, ServerFrames, Single
  <2>2. Answer(ServerIn("wait"), tx)
    BY <1>2 DEF Upload
  <2> HIDE DEF tx
  <2> QED BY <2>1, <2>2, AnswerType, ServerInFits
<1>3. CASE ~IsSmall(object)
  <2> DEFINE tx == <<[k |-> "up_ini_res", size |-> Len(object)]>>
             r == [srv EXCEPT !.st = "up_seg", !.size = Len(object), !.value = object]
  <2>1. tx \in Seq(FromServer)
    BY <1>1, ServerFrames, Single
  <2>2. Answer(r, tx)
    BY <1>3 DEF Upload
  <2>4. r \in ServerState
    BY <1>1, Zenon DEF ServerState
  <2>5. r.st = "up_seg" /\ r.size = Len(object) /\ r.value = object /\ r.pos = 0
    BY <1>1 DEF ServerState
  <2> HIDE DEF tx, r
  <2>6. r.pos < r.size /\ r.value \in Val
    BY <1>1, <2>5
  <2>7. ServerFits(r)
    BY <2>4, <2>5, <2>6, FitsIn
  <2> QED BY <2>1, <2>2, <2>7, AnswerType
<1> QED BY <1>2, <1>3

LEMMA ServerWaitType ==
  ASSUME FInv, c2s # <<>>, NEW m \in FromClient, ServerWait(m)
  PROVE  FInv'
<1>1. /\ srv.st = "wait" /\ ServerFits(srv) /\ srv \in ServerState
      /\ object \in Val /\ object \in Seq(Segment) /\ Len(object) \in 1 .. 15
      /\ Len(object) \in Nat /\ maxSeqno \in Seqno
  BY MaxSeqnoType, ValLen DEF ServerWait, FInv, ServerFits, Seqno
<1>2. /\ srv.data = <<>> /\ srv.pos = 0 /\ srv.win = 0 /\ srv.ackseq = 0
  BY <1>1 DEF ServerFits, ServerIn
<1>3. /\ <<>> \in Seq(FromServer)
      /\ <<[k |-> "dn_ini_res"]>> \in Seq(FromServer)
  BY ServerFrames, Single
<1>4. CASE m.k = "dn_exp" /\ Download(m.data, ServerIn("wait"), <<[k |-> "dn_ini_res"]>>)
  BY <1>3, <1>4, ReadByServer, DownloadType, ServerInFits
<1>5. CASE m.k = "dn_ini" /\ ServerDnIni(m)
  <2> DEFINE r == [srv EXCEPT !.st = "dn_seg", !.size = m.size]
  <2>1. m.size \in 1 .. 15 /\ m.size \in Nat
    BY <1>5, ReadByServer
  <2>2. r \in ServerState
    BY <1>1, <2>1, Zenon DEF ServerState
  <2>3. r.st = "dn_seg" /\ r.size = m.size /\ r.data = <<>>
    BY <1>1, <1>2 DEF ServerState
  <2>4. Keep /\ Answer(r, <<[k |-> "dn_ini_res"]>>)
    BY <1>5 DEF ServerDnIni
  <2> HIDE DEF r
  <2>5. ServerFits(r)
    BY <2>1, <2>2, <2>3, FitsIn
  <2> QED BY <1>3, <2>4, <2>5, AnswerType
<1>6. CASE ServerBlkDnIni(m)
  <2> DEFINE r == [srv EXCEPT !.st = "blk_dn_sub", !.size = m.size,
                              !.blksize = maxSeqno]
             tx == <<[k |-> "blk_dn_ini_res", blksize |-> maxSeqno]>>
  <2>1. m.size \in 1 .. 15 /\ m.size \in Nat
    BY <1>6, ReadByServer DEF ServerBlkDnIni
  <2>2. r \in ServerState
    BY <1>1, <2>1, Zenon DEF ServerState
  <2>3. r.st = "blk_dn_sub" /\ r.size = m.size /\ r.data = <<>> /\ r.ackseq = 0
    BY <1>1, <1>2 DEF ServerState
  <2>4. Keep /\ Answer(r, tx)
    BY <1>6 DEF ServerBlkDnIni
  <2>5. tx \in Seq(FromServer)
    BY <1>1, ServerFrames, Single
  <2> HIDE DEF r, tx
  <2>6. ServerFits(r)
    BY <2>1, <2>2, <2>3, FitsIn
  <2> QED BY <2>4, <2>5, <2>6, AnswerType
<1>7. CASE ServerBlkUpIni(m)
  <2> DEFINE r == [srv EXCEPT !.st = "blk_up_sub", !.blksize = m.blksize,
                              !.size = Len(object), !.value = object]
             tx == <<[k |-> "blk_up_ini_res", size |-> Len(object)]>>
  <2>1. m.blksize \in Seqno
    BY <1>7, ReadByServer DEF ServerBlkUpIni
  <2>2. r \in ServerState
    BY <1>1, <2>1, Zenon DEF ServerState
  <2>3. /\ r.st = "blk_up_sub" /\ r.size = Len(object) /\ r.value = object
        /\ r.pos = 0 /\ r.win = 0
    BY <1>1, <1>2 DEF ServerState
  <2>4. Keep /\ (AbortRes \/ Upload \/ Answer(r, tx))
    BY <1>7 DEF ServerBlkUpIni
  <2>5. tx \in Seq(FromServer)
    BY <1>1, ServerFrames, Single
  <2> HIDE DEF r, tx
  <2>6. ServerFits(r)
    BY <1>1, <2>2, <2>3, FitsIn
  <2> QED BY <1>1, <2>4, <2>5, <2>6, AnswerType, AbortResType, UploadType
<1>8. CASE ServerUpIni(m) \/ AbortRes
  BY <1>1, <1>8, UploadType, AbortResType DEF ServerUpIni
<1>9. CASE Answer(srv, <<>>) /\ Keep
  BY <1>1, <1>3, <1>9, AnswerType
<1>10. ServerDnIni(m) =>
         \/ m.k = "dn_exp" /\ Download(m.data, ServerIn("wait"), <<[k |-> "dn_ini_res"]>>)
         \/ m.k = "dn_ini"
  BY DEF ServerDnIni
<1> QED BY <1>4, <1>5, <1>6, <1>7, <1>8, <1>9, <1>10 DEF ServerWait

\* The answers that leave a state or stay in it.
LEMMA PlainType ==
  ASSUME FInv, c2s # <<>>,
         ServerEnd(<<>>) \/ AbortRes \/ (Answer(srv, <<>>) /\ Keep)
  PROVE  FInv'
<1>1. <<>> \in Seq(FromServer)
  BY Single, ServerFrames
<1>2. ServerFits(srv)
  BY DEF FInv
<1> QED BY <1>1, <1>2, ServerEndType, AbortResType, AnswerType

LEMMA ServerDnSegType ==
  ASSUME FInv, c2s # <<>>, NEW m \in FromClient, ServerDnSeg(m)
  PROVE  FInv'
<1>1. /\ srv.st = "dn_seg" /\ ServerFits(srv) /\ srv \in ServerState
      /\ srv.size \in 1 .. 15 /\ srv.data \in Seq(Segment) /\ srv.toggle \in 0 .. 1
  BY DEF ServerDnSeg, FInv, ServerFits, ServerState
<1>2. CASE ServerEnd(<<>>) \/ AbortRes \/ (Answer(srv, <<>>) /\ Keep)
  BY <1>1, <1>2, PlainType
<1>3. CASE m.k \in {"dn_seg", "seg"} /\ ~(ServerEnd(<<>>) \/ AbortRes)
           /\ ~(Answer(srv, <<>>) /\ Keep)
  <2> DEFINE data == Append(srv.data, m.data)
             res  == <<[k |-> "dn_seg_res", toggle |-> srv.toggle]>>
             more == [srv EXCEPT !.data = data, !.toggle = Flip(@)]
             next == IF LastOf(m) THEN ServerIn("wait") ELSE more
  <2>1. data \in Seq(Segment) /\ Len(data) >= 1 /\ Flip(srv.toggle) \in 0 .. 1
    BY <1>1, <1>3, ReadByServer DEF Flip
  <2>2. more \in ServerState
    <3> HIDE DEF data
    <3> QED BY <1>1, <2>1, Zenon DEF ServerState
  <2>3. more.st = "dn_seg" /\ more.size = srv.size /\ more.data = data
    BY <1>1 DEF ServerState
  <2>4. res \in Seq(FromServer)
    BY <1>1, ServerFrames, Single
  <2>5. /\ Len(data) <= srv.size
        /\ IF Len(data) = srv.size THEN Download(data, next, res)
           ELSE Answer(next, res) /\ Keep
    BY <1>1, <1>3, <2>1 DEF ServerDnSeg
  <2> HIDE DEF data, res, more, next
  <2>6. data \in Val
    BY <1>1, <2>1, <2>5 DEF Val
  <2> USE DEF next
  <2>7. ServerFits(next)
    BY <1>1, <2>2, <2>3, <2>5, FitsIn, ServerInFits
  <2> HIDE DEF next
  <2> QED BY <2>4, <2>5, <2>6, <2>7, DownloadType, AnswerType
<1> QED BY <1>2, <1>3 DEF ServerDnSeg

LEMMA ServerUpSegType ==
  ASSUME FInv, c2s # <<>>, NEW m \in FromClient, ServerUpSeg(m)
  PROVE  FInv'
<1>1. /\ srv.st = "up_seg" /\ ServerFits(srv) /\ srv \in ServerState
      /\ srv.value \in Val /\ srv.size = Len(srv.value) /\ srv.pos < srv.size
      /\ srv.pos \in Nat /\ srv.toggle \in 0 .. 1
  BY DEF ServerUpSeg, FInv, ServerFits, ServerState
<1> DEFINE last == srv.pos + 1 = srv.size
           more == [srv EXCEPT !.pos = @ + 1, !.toggle = Flip(@)]
           next == IF last THEN ServerIn("wait") ELSE more
           res  == <<[k |-> "up_seg_res", toggle |-> srv.toggle,
                      data |-> srv.value[srv.pos + 1], last |-> last]>>
<1>2. CASE ServerEnd(<<>>) \/ AbortRes
  BY <1>2, PlainType
<1>3. CASE Keep /\ Answer(next, res)
  <2>1. srv.pos + 1 \in 1 .. Len(srv.value) /\ srv.value \in Seq(Segment)
    BY <1>1, ValLen
  <2>2. /\ srv.value[srv.pos + 1] \in Segment /\ last \in BOOLEAN
        /\ srv.pos + 1 \in Nat /\ Flip(srv.toggle) \in 0 .. 1
    BY <1>1, <2>1 DEF Flip
  <2>3. res \in Seq(FromServer)
    BY <1>1, <2>2, ServerFrames, Single
  <2>4. more \in ServerState
    BY <1>1, <2>2, Zenon DEF ServerState
  <2>5. /\ more.st = "up_seg" /\ more.value = srv.value /\ more.size = srv.size
        /\ more.pos = srv.pos + 1
    BY <1>1 DEF ServerState
  <2>6. ~last => srv.pos + 1 < srv.size
    BY <1>1, <2>1, ValLen
  <2> HIDE DEF more, res, last
  <2>7. ServerFits(next)
    BY <1>1, <2>4, <2>5, <2>6, FitsIn, ServerInFits
  <2> HIDE DEF next
  <2> QED BY <1>3, <2>3, <2>7, AnswerType
<1> QED BY <1>2, <1>3 DEF ServerUpSeg

LEMMA ServerBlkDnSubType ==
  ASSUME FInv, c2s # <<>>, NEW m \in FromClient, ServerBlkDnSub(m)
  PROVE  FInv'
<1>1. /\ srv.st = "blk_dn_sub" /\ ServerFits(srv) /\ srv \in ServerState
      /\ srv.size \in 1 .. 15 /\ srv.data \in Seq(Segment)
      /\ Len(srv.data) <= srv.size /\ srv.ackseq <= Len(srv.data)
      /\ srv.ackseq \in Seqno /\ srv.blksize \in Seqno
  BY DEF ServerBlkDnSub, FInv, ServerFits, ServerState
<1> DEFINE last == LastInBlock(m)
           take == Accept(m, srv.ackseq)
           room == Len(srv.data) < srv.size
           ack  == IF take THEN srv.ackseq + 1 ELSE srv.ackseq
           full == SeqnoOf(m) = srv.blksize \/ last
           data == IF take /\ room THEN Append(srv.data, m.data) ELSE srv.data
           ackd == IF full THEN 0 ELSE ack
           st   == IF last THEN "blk_dn_end" ELSE srv.st
           r    == [srv EXCEPT !.data = data, !.ackseq = ackd, !.st = st]
           res  == IF full THEN <<[k |-> "blk_dn_res", ackseq |-> ack,
                                   blksize |-> srv.blksize]>>
                   ELSE <<>>
<1>2. CASE ServerEnd(<<>>) \/ AbortRes
  BY <1>2, PlainType
<1>3. CASE Keep /\ Answer(r, res) /\ (take => last \/ room)
  <2>1. /\ Len(srv.data) \in Nat
        /\ srv.ackseq + 1 < 32 /\ srv.ackseq + 1 \in Seqno
        /\ srv.ackseq + 1 <= Len(srv.data) + 1
    <3>1. Len(srv.data) \in Nat
      BY <1>1
    <3> QED BY <1>1, <3>1, Counted
  <2>2. take => m.data \in Segment
    <3>1. take => SeqnoOf(m) < 32
      BY <2>1 DEF Accept
    <3> QED BY <3>1, SeqnoRead
  <2>3. data \in Seq(Segment) /\ Len(data) <= srv.size
    BY <1>1, <2>1, <2>2
  <2>4. ~full => ack <= Len(data)
    <3>1. CASE take /\ ~full
      <4>1. room /\ Len(data) = Len(srv.data) + 1
        BY <1>1, <1>3, <2>2, <3>1
      <4> QED BY <2>1, <3>1, <4>1
    <3>2. CASE ~take
      BY <1>1, <3>2
    <3> QED BY <3>1, <3>2
  <2>5. ack \in Seqno /\ ackd \in Seqno
    <3>1. 0 \in Seqno
      BY DEF Seqno
    <3> QED BY <1>1, <2>1, <3>1
  <2>6. res \in Seq(FromServer)
    BY <1>1, <2>5, ServerFrames, Single
  <2>7. /\ r \in ServerState
        /\ r.st = st /\ r.size = srv.size /\ r.data = data /\ r.ackseq = ackd
    <3>1. st \in {"blk_dn_sub", "blk_dn_end"}
      BY <1>1
    <3> HIDE DEF data, ackd, st
    <3>2. r \in ServerState
      BY <1>1, <2>3, <2>5, <3>1, Zenon DEF ServerState
    <3>3. r.st = st /\ r.size = srv.size /\ r.data = data /\ r.ackseq = ackd
      BY <1>1 DEF ServerState
    <3> QED BY <3>2, <3>3
  <2>8. ackd = 0 \/ (~full /\ ackd = ack)
    OBVIOUS
  <2>9. st = IF last THEN "blk_dn_end" ELSE "blk_dn_sub"
    BY <1>1
  <2> HIDE DEF data, ackd, st, r, res, ack, full, last, take, room
  <2>10. 0 <= Len(data)
    BY <2>3
  <2>11. ServerFits(r)
    BY <1>1, <2>3, <2>4, <2>7, <2>8, <2>9, <2>10, FitsIn
  <2> QED BY <1>3, <2>6, <2>11, AnswerType
<1> QED BY <1>2, <1>3 DEF ServerBlkDnSub

LEMMA ServerBlkDnEndType ==
  ASSUME FInv, c2s # <<>>, NEW m \in FromClient, ServerBlkDnEnd(m)
  PROVE  FInv'
<1>1. /\ srv.st = "blk_dn_end" /\ srv.size \in 1 .. 15
      /\ srv.data \in Seq(Segment)
  BY DEF ServerBlkDnEnd, FInv, ServerFits, ServerState
<1>2. <<>> \in Seq(FromServer) /\ <<[k |-> "blk_dn_end_res"]>> \in Seq(FromServer)
  BY ServerFrames, Single
<1>3. CASE Keep /\ \E st \in {"down", "wait"} : Answer(ServerIn(st), <<>>)
  BY <1>2, <1>3, AnswerType, ServerInFits
<1>4. CASE AbortRes
  BY <1>4, AbortResType
<1>5. CASE /\ Len(srv.data) = srv.size
           /\ Download(srv.data, ServerIn("wait"), <<[k |-> "blk_dn_end_res"]>>)
  <2>1. srv.data \in Val
    BY <1>1, <1>5 DEF Val
  <2> QED BY <1>2, <1>5, <2>1, DownloadType, ServerInFits
<1> QED BY <1>3, <1>4, <1>5 DEF ServerBlkDnEnd

LEMMA ServerBlkUpSubType ==
  ASSUME FInv, c2s # <<>>, NEW m \in FromClient, ServerBlkUpSub(m)
  PROVE  FInv'
<1>1. /\ srv.st = "blk_up_sub" /\ ServerFits(srv) /\ srv \in ServerState
      /\ srv.value \in Val /\ srv.size = Len(srv.value)
      /\ srv.pos <= srv.size /\ srv.win <= srv.pos
      /\ srv.pos > 0 => srv.win = srv.blksize
      /\ srv.pos \in Nat /\ srv.win \in Nat /\ srv.blksize \in Seqno
      /\ srv.size \in Nat
  BY DEF ServerBlkUpSub, FInv, ServerFits, ServerState
<1> DEFINE first == srv.pos = 0
           ok    == \/ m.k = "blk_up_start" /\ first
                    \/ /\ m.k = "blk_up_res" /\ ~first
                       /\ m.ackseq <= srv.blksize
                       /\ m.blksize \in 1 .. maxSeqno
           left  == IF m.k = "blk_up_res" THEN srv.win - m.ackseq ELSE srv.win
           max   == IF m.k = "blk_up_res" THEN m.blksize ELSE srv.blksize
           from  == srv.pos - left
           n     == IF from + max < srv.size THEN max ELSE srv.size - from
           r     == [srv EXCEPT !.pos = from + n, !.win = n, !.blksize = n]
           done  == [srv EXCEPT !.st = "blk_up_end", !.win = 0, !.blksize = 0]
           tx    == Block(srv.value, from, n, from + n = srv.size)
           end   == <<[k |-> "blk_up_end_res", crc |-> srv.value]>>
<1>3. CASE ServerEnd(<<>>) \/ AbortRes
  BY <1>3, PlainType
<1>4. ok => /\ from \in Nat /\ n \in Nat /\ n \in Seqno
            /\ from + n \in Nat /\ from + n <= srv.size /\ n <= from + n
  <2> SUFFICES ASSUME ok
               PROVE  /\ from \in Nat /\ n \in Nat /\ n \in Seqno
                      /\ from + n \in Nat /\ from + n <= srv.size /\ n <= from + n
    OBVIOUS
  <2>1. left \in Nat /\ left <= srv.pos /\ max \in Seqno
    <3>1. CASE m.k = "blk_up_res"
      <4>1. srv.pos > 0 /\ m.ackseq <= srv.win
        BY <1>1, <3>1
      <4>2. m.ackseq \in Seqno /\ m.blksize \in Seqno
        BY <3>1, ReadByServer
      <4> QED BY <1>1, <3>1, <4>1, <4>2, Unconfirmed
    <3>2. CASE m.k = "blk_up_start"
      BY <1>1, <3>2
    <3> QED BY <3>1, <3>2
  <2>2. /\ from = srv.pos - left
        /\ n = IF from + max < srv.size THEN max ELSE srv.size - from
    OBVIOUS
  <2> HIDE DEF left, max, from, n
  <2> QED BY <1>1, <2>1, <2>2, Window
<1>5. CASE ok /\ n > 0 /\ Keep /\ Answer(r, tx)
  <2>1. tx \in Seq(FromServer)
    <3>1. from \in Nat /\ n \in Seqno /\ from + n <= Len(srv.value)
      BY <1>1, <1>4, <1>5
    <3>2. srv.value \in Seq(Segment) /\ (from + n = srv.size) \in BOOLEAN
      BY <1>1, ValLen
    <3> HIDE DEF from, n
    <3> QED BY <3>1, <3>2, BlockType
  <2>2. /\ from + n \in Nat /\ n \in Nat /\ n \in Seqno /\ n <= from + n
        /\ from + n <= srv.size
    BY <1>4, <1>5
  <2> HIDE DEF from, n
  <2>3. r \in ServerState
    BY <1>1, <2>2, Zenon DEF ServerState
  <2>4. /\ r.st = "blk_up_sub" /\ r.value = srv.value /\ r.size = srv.size
        /\ r.pos = from + n /\ r.win = n /\ r.blksize = n
    BY <1>1 DEF ServerState
  <2> HIDE DEF r, tx, ok
  <2>5. ServerFits(r)
    BY <1>1, <2>2, <2>3, <2>4, FitsIn
  <2> QED BY <1>5, <2>1, <2>5, AnswerType
<1>6. CASE Keep /\ Answer(done, end)
  <2>1. srv.value \in Seq(Segment)
    BY <1>1, ValLen
  <2>2. end \in Seq(FromServer)
    BY <2>1, ServerFrames, Single
  <2>3. 0 \in Nat /\ 0 \in Seqno
    BY DEF Seqno
  <2>4. done \in ServerState
    BY <1>1, <2>3, Zenon DEF ServerState
  <2>5. done.st = "blk_up_end"
    BY <1>1 DEF ServerState
  <2> HIDE DEF done, end
  <2>6. ServerFits(done)
    BY <2>4, <2>5, FitsIn
  <2> QED BY <1>6, <2>2, <2>6, AnswerType
<1> QED BY <1>3, <1>5, <1>6 DEF ServerBlkUpSub

LEMMA ServerReceiveType ==
  ASSUME FInv, ServerReceive
  PROVE  FInv'
<1> DEFINE m == Head(c2s)
<1>1. c2s # <<>> /\ m \in FromClient
  BY DEF ServerReceive, FInv
<1> HIDE DEF m
<1>2. CASE ServerWait(m) \/ ServerDnSeg(m) \/ ServerUpSeg(m)
  BY <1>1, <1>2, ServerWaitType, ServerDnSegType, ServerUpSegType
<1>3. CASE ServerBlkDnSub(m) \/ ServerBlkDnEnd(m) \/ ServerBlkUpSub(m)
  BY <1>1, <1>3, ServerBlkDnSubType, ServerBlkDnEndType, ServerBlkUpSubType
<1>4. CASE ServerBlkUpEnd(m) \/ ServerDeaf(m)
  BY <1>1, <1>4, PlainType DEF ServerBlkUpEnd, ServerDeaf
<1> QED BY <1>2, <1>3, <1>4 DEF ServerReceive, m

-----------------------------------------------------------------------------
(* The client                                                              *)

\* The client may answer a frame with c and tx.
LEMMA ReplyType ==
  ASSUME FInv, s2c # <<>>, NEW c, ClientFits(c), NEW tx \in Seq(FromClient),
         Reply(c, tx)
  PROVE  FInv'
<1>1. c2s \o tx \in Seq(FromClient) /\ Tail(s2c) \in Seq(FromServer)
  BY DEF FInv
<1> QED BY <1>1 DEF FInv, Reply, history

LEMMA EndedFits ==
  ASSUME NEW c, Within(c), NEW result \in {"ok", "failed"}
  PROVE  ClientFits(Ended(c, result))
<1> DEFINE e == Ended(c, result)
<1>1. e \in ClientState
  BY Zenon DEF Within, Ended, ClientState
<1>2. e.st = "wait" /\ e.pos = c.pos /\ e.value = c.value
  BY DEF Within, Ended, ClientState
<1> HIDE DEF e
<1>3. ClientFits(e)
  BY <1>1, <1>2 DEF Within, ClientFits
<1> QED BY <1>3 DEF e

LEMMA SucceedType ==
  ASSUME FInv, s2c # <<>>, NEW c, Within(c), Succeed(c)
  PROVE  FInv'
<1>1. <<>> \in Seq(FromClient)
  OBVIOUS
<1> QED BY <1>1, EndedFits, ReplyType DEF Succeed

LEMMA AbortType ==
  ASSUME FInv, s2c # <<>>, AbortReq \/ AbortInd
  PROVE  FInv'
<1>1. <<>> \in Seq(FromClient) /\ <<Abort>> \in Seq(FromClient)
  BY ClientFrames, Single DEF Abort
<1>2. ClientFits(Ended(cli, "failed"))
  BY EndedFits DEF FInv, ClientFits
<1> QED BY <1>1, <1>2, ReplyType DEF AbortReq, AbortInd

LEMMA EnterDnSegType ==
  ASSUME FInv, s2c # <<>>, NEW c, Within(c), EnterDnSeg(c)
  PROVE  FInv'
<1>1. CASE c.pos = Len(c.value)
  BY <1>1, SucceedType DEF EnterDnSeg
<1>2. CASE c.pos # Len(c.value)
  <2> DEFINE last == c.pos + 1 = Len(c.value)
             r  == [c EXCEPT !.st = "dn_seg", !.pos = @ + 1, !.toggle = Flip(@)]
             tx == <<[k |-> "dn_seg", toggle |-> c.toggle,
                      data |-> c.value[c.pos + 1], last |-> last]>>
  <2>1. /\ c \in ClientState /\ c.value \in Seq(Segment) /\ c.pos \in Nat
        /\ c.toggle \in 0 .. 1 /\ Len(c.value) \in Nat
        /\ c.pos <= Len(c.value) /\ Len(c.value) <= 15
    BY DEF Within, ClientState
  <2>2. c.pos + 1 \in 1 .. Len(c.value) /\ c.pos + 1 \in Nat /\ c.pos + 1 <= Len(c.value)
    BY <1>2, <2>1
  <2>3. /\ c.value[c.pos + 1] \in Segment /\ last \in BOOLEAN
        /\ Flip(c.toggle) \in 0 .. 1
    BY <2>1, <2>2 DEF Flip
  <2>4. tx \in Seq(FromClient)
    BY <2>1, <2>3, ClientFrames, Single
  <2>5. r \in ClientState
    BY <2>1, <2>2, <2>3, Zenon DEF ClientState
  <2>6. r.st = "dn_seg" /\ r.pos = c.pos + 1 /\ r.value = c.value
    BY <2>1 DEF ClientState
  <2>7. Reply(r, tx)
    BY <1>2 DEF EnterDnSeg
  <2> HIDE DEF r, tx, last
  <2>8. ClientFits(r)
    BY <2>1, <2>2, <2>5, <2>6 DEF Within, ClientFits
  <2> QED BY <2>4, <2>7, <2>8, ReplyType
<1> QED BY <1>1, <1>2

LEMMA EnterBlkDnSubType ==
  ASSUME FInv, s2c # <<>>, NEW c, Within(c), NEW blksize \in Seqno,
         EnterBlkDnSub(c, blksize)
  PROVE  FInv'
<1> DEFINE left == Len(c.value) - c.pos
           n    == IF left < blksize THEN left ELSE blksize
           r    == [c EXCEPT !.st = "blk_dn_sub", !.blksize = n, !.pos = @ + n]
           end  == [c EXCEPT !.st = "blk_dn_end", !.blksize = 0]
           tx   == Block(c.value, c.pos, n, n = left)
           crc  == <<[k |-> "blk_dn_end", crc |-> c.value]>>
<1>1. /\ c \in ClientState /\ c.value \in Seq(Segment) /\ c.pos \in Nat
      /\ Len(c.value) \in Nat /\ c.pos <= Len(c.value) /\ Len(c.value) <= 15
  BY DEF Within, ClientState
<1>2. /\ n \in Nat /\ n \in Seqno
      /\ c.pos + n \in Nat /\ c.pos + n <= Len(c.value) /\ n <= c.pos + n
  <2>1. n = IF c.pos + blksize < Len(c.value) THEN blksize ELSE Len(c.value) - c.pos
    BY <1>1 DEF Seqno
  <2>2. c.pos = c.pos - 0 /\ 0 \in Nat /\ 0 <= c.pos
    BY <1>1
  <2> HIDE DEF n
  <2> QED BY <1>1, <2>1, <2>2, Window
<1>3. CASE AbortReq
  BY <1>3, AbortType
<1>4. CASE Reply(r, tx)
  <2>1. tx \in Seq(FromClient)
    <3>1. (n = left) \in BOOLEAN
      OBVIOUS
    <3> HIDE DEF n, left
    <3> QED BY <1>1, <1>2, <3>1, BlockType
  <2> HIDE DEF n
  <2>2. r \in ClientState
    BY <1>1, <1>2, Zenon DEF ClientState
  <2>3. /\ r.st = "blk_dn_sub" /\ r.pos = c.pos + n /\ r.value = c.value
        /\ r.blksize = n
    BY <1>1 DEF ClientState
  <2> HIDE DEF r, tx
  <2>4. ClientFits(r)
    BY <1>1, <1>2, <2>2, <2>3 DEF Within, ClientFits
  <2> QED BY <1>4, <2>1, <2>4, ReplyType
<1>5. CASE Reply(end, crc)
  <2>1. crc \in Seq(FromClient)
    BY <1>1, ClientFrames, Single
  <2>2. 0 \in Seqno
    BY DEF Seqno
  <2>3. end \in ClientState
    BY <1>1, <2>2, Zenon DEF ClientState
  <2>4. end.st = "blk_dn_end" /\ end.pos = c.pos /\ end.value = c.value
    BY <1>1 DEF ClientState
  <2> HIDE DEF end, crc
  <2>5. ClientFits(end)
    BY <1>1, <2>3, <2>4 DEF Within, ClientFits
  <2> QED BY <1>5, <2>1, <2>5, ReplyType
<1> QED BY <1>3, <1>4, <1>5 DEF EnterBlkDnSub

LEMMA ClientDownType ==
  ASSUME FInv, s2c # <<>>, NEW m \in FromServer, ClientDown(m)
  PROVE  FInv'
<1>1. ClientFits(cli) /\ Within(cli)
  BY DEF FInv, ClientFits
<1>2. CASE AbortReq
  BY <1>2, AbortType
<1>3. CASE EnterDnSeg(cli)
  BY <1>1, <1>3, EnterDnSegType
<1>4. CASE Succeed(cli)
  BY <1>1, <1>4, SucceedType
<1>5. CASE m.k = "blk_dn_ini_res" /\ EnterBlkDnSub(cli, m.blksize)
  BY <1>1, <1>5, ReadByClient, EnterBlkDnSubType
<1>6. CASE ClientBlkDnSub(m) /\ m.k = "blk_dn_res" /\ m.ackseq <= cli.blksize
  <2> DEFINE back == cli.pos - (cli.blksize - m.ackseq)
             c == [cli EXCEPT !.pos = back]
  <2>1. /\ cli \in ClientState /\ cli.blksize \in Seqno /\ cli.pos \in Nat
        /\ cli.pos <= Len(cli.value) /\ Len(cli.value) <= 15
        /\ cli.value \in Seq(Segment) /\ cli.st = "blk_dn_sub"
    BY <1>1, <1>6 DEF Within, ClientState, ClientBlkDnSub
  <2>2. cli.blksize <= cli.pos
    BY <1>1, <2>1 DEF ClientFits
  <2>3. m.ackseq \in Seqno /\ m.blksize \in Seqno
    BY <1>6, ReadByClient
  <2>4. cli.blksize \in Nat
    BY <2>1, SeqnoNat, Zenon
  <2>5. back \in Nat /\ back <= cli.pos
    <3>1. /\ cli.blksize - m.ackseq \in Nat /\ cli.blksize - m.ackseq <= cli.pos
      BY <1>6, <2>1, <2>2, <2>3, <2>4, Unconfirmed
    <3> QED BY <2>1, <3>1
  <2> HIDE DEF back
  <2>6. c \in ClientState
    BY <2>1, <2>5, Zenon DEF ClientState
  <2>7. c.pos = back /\ c.value = cli.value
    BY <2>1 DEF ClientState
  <2>8. EnterBlkDnSub(c, m.blksize)
    BY <1>6 DEF ClientBlkDnSub, back
  <2> HIDE DEF c
  <2>9. Within(c)
    <3>1. back <= Len(cli.value)
      BY <2>1, <2>5
    <3> QED BY <2>1, <2>6, <2>7, <3>1 DEF Within
  <2> QED BY <2>3, <2>8, <2>9, EnterBlkDnSubType
<1> QED BY <1>2, <1>3, <1>4, <1>5, <1>6
        DEF ClientDown, ClientDnIni, ClientDnSeg, ClientBlkDnIni, ClientBlkDnSub,
            ClientBlkDnEnd

\* What there is to show of a client in the states of an upload.
LEMMA UploadFits ==
  ASSUME NEW c, Within(c)
  PROVE  /\ c.st = "up_seg" => ClientFits(c)
         /\ c.st = "blk_up_end" => ClientFits(c)
         /\ /\ c.st = "blk_up_sub" /\ c.size \in 1 .. 15
            /\ Len(c.buf) <= c.size /\ c.ackseq <= Len(c.buf)
            => ClientFits(c)
BY DEF ClientFits

LEMMA ClientUpIniType ==
  ASSUME FInv, s2c # <<>>, NEW m \in FromServer,
         cli.st \in {"up_ini", "blk_up_ini"}, ClientUpIni(m)
  PROVE  FInv'
<1>1. /\ Within(cli) /\ cli \in ClientState /\ cli.buf = <<>>
      /\ cli.pos <= Len(cli.value) /\ Len(cli.value) <= 15
      /\ cli.toggle \in 0 .. 1
  BY DEF FInv, ClientFits, Within, ClientState
<1>2. CASE m.k = "up_exp"
  <2> DEFINE c == [cli EXCEPT !.buf = m.data]
  <2>1. m.data \in Seq(Segment)
    BY <1>2, ReadByClient
  <2>2. c \in ClientState
    BY <1>1, <2>1, Zenon DEF ClientState
  <2>3. c.pos = cli.pos /\ c.value = cli.value
    BY <1>1 DEF ClientState
  <2>4. Succeed(c)
    BY <1>2 DEF ClientUpIni
  <2> HIDE DEF c
  <2>5. Within(c)
    BY <1>1, <2>2, <2>3 DEF Within
  <2> QED BY <2>4, <2>5, SucceedType
<1>3. CASE m.k = "up_ini_res"
  <2> DEFINE c  == [cli EXCEPT !.st = "up_seg", !.size = m.size, !.toggle = Flip(@)]
             tx == <<[k |-> "up_seg", toggle |-> cli.toggle]>>
  <2>1. m.size \in Nat /\ Flip(cli.toggle) \in 0 .. 1
    BY <1>1, <1>3, ReadByClient DEF Flip
  <2>2. c \in ClientState
    BY <1>1, <2>1, Zenon DEF ClientState
  <2>3. c.st = "up_seg" /\ c.pos = cli.pos /\ c.value = cli.value
    BY <1>1 DEF ClientState
  <2>4. Reply(c, tx)
    BY <1>3 DEF ClientUpIni
  <2>5. tx \in Seq(FromClient)
    BY <1>1, ClientFrames, Single
  <2> HIDE DEF c, tx
  <2>6. ClientFits(c)
    BY <1>1, <2>2, <2>3, UploadFits DEF Within
  <2> QED BY <2>4, <2>5, <2>6, ReplyType
<1>4. CASE m.k = "blk_up_ini_res" /\ cli.st = "blk_up_ini"
  <2> DEFINE c  == [cli EXCEPT !.st = "blk_up_sub", !.size = m.size, !.ackseq = 0]
             tx == <<[k |-> "blk_up_start"]>>
  <2>1. m.size \in 1 .. 15 /\ m.size \in Nat /\ 0 \in Seqno
    BY <1>4, ReadByClient DEF Seqno
  <2>2. c \in ClientState
    BY <1>1, <2>1, Zenon DEF ClientState
  <2>3. /\ c.st = "blk_up_sub" /\ c.pos = cli.pos /\ c.value = cli.value
        /\ c.size = m.size /\ c.buf = <<>> /\ c.ackseq = 0
    BY <1>1 DEF ClientState
  <2>4. Reply(c, tx)
    BY <1>4 DEF ClientUpIni
  <2>5. tx \in Seq(FromClient)
    BY ClientFrames, Single
  <2> HIDE DEF c, tx
  <2>6. Within(c)
    BY <1>1, <2>2, <2>3 DEF Within
  <2>7. ClientFits(c)
    BY <2>1, <2>3, <2>6, UploadFits
  <2> QED BY <2>4, <2>5, <2>7, ReplyType
<1>5. CASE AbortReq
  BY <1>5, AbortType
<1> QED BY <1>2, <1>3, <1>4, <1>5 DEF ClientUpIni

LEMMA ClientUpSegType ==
  ASSUME FInv, s2c # <<>>, NEW m \in FromServer, cli.st = "up_seg", ClientUpSeg(m)
  PROVE  FInv'
<1>1. /\ ClientFits(cli) /\ Within(cli) /\ cli \in ClientState
      /\ cli.pos <= Len(cli.value) /\ Len(cli.value) <= 15
      /\ cli.toggle \in 0 .. 1 /\ cli.buf \in Seq(Segment)
  BY DEF FInv, ClientFits, Within, ClientState
<1> DEFINE buf == Append(cli.buf, m.data)
           took == [cli EXCEPT !.buf = buf]
           more == [cli EXCEPT !.buf = buf, !.toggle = Flip(@)]
           tx == <<[k |-> "up_seg", toggle |-> cli.toggle]>>
<1>2. CASE AbortReq
  BY <1>2, AbortType
<1>3. CASE Reply(cli, <<>>)
  <2>1. <<>> \in Seq(FromClient)
    OBVIOUS
  <2> QED BY <1>1, <1>3, <2>1, ReplyType
<1>4. CASE m.k \in {"up_seg_res", "seg"} /\ (Succeed(took) \/ Reply(more, tx))
  <2>1. buf \in Seq(Segment) /\ Flip(cli.toggle) \in 0 .. 1
    BY <1>1, <1>4, ReadByClient DEF Flip
  <2>2. took \in ClientState /\ more \in ClientState
    <3> HIDE DEF buf
    <3> QED BY <1>1, <2>1, Zenon DEF ClientState
  <2>3. /\ took.pos = cli.pos /\ took.value = cli.value
        /\ more.st = "up_seg" /\ more.pos = cli.pos /\ more.value = cli.value
    BY <1>1 DEF ClientState
  <2>4. tx \in Seq(FromClient)
    BY <1>1, ClientFrames, Single
  <2> HIDE DEF buf, took, more, tx
  <2>5. Within(took) /\ Within(more)
    BY <1>1, <2>2, <2>3 DEF Within
  <2>6. ClientFits(more)
    BY <2>3, <2>5, UploadFits
  <2> QED BY <1>4, <2>4, <2>5, <2>6, SucceedType, ReplyType
<1> QED BY <1>2, <1>3, <1>4 DEF ClientUpSeg

LEMMA ClientBlkUpSubType ==
  ASSUME FInv, s2c # <<>>, NEW m \in FromServer, cli.st = "blk_up_sub",
         ClientBlkUpSub(m)
  PROVE  FInv'
<1>1. /\ Within(cli) /\ cli \in ClientState
      /\ cli.pos <= Len(cli.value) /\ Len(cli.value) <= 15
      /\ cli.size \in 1 .. 15 /\ cli.buf \in Seq(Segment)
      /\ Len(cli.buf) <= cli.size /\ cli.ackseq <= Len(cli.buf)
      /\ cli.ackseq \in Seqno /\ cli.blksize \in Seqno
  BY DEF FInv, ClientFits, Within, ClientState
<1> DEFINE last == LastInBlock(m)
           take == Accept(m, cli.ackseq)
           room == Len(cli.buf) < cli.size
           ack  == IF take THEN cli.ackseq + 1 ELSE cli.ackseq
           full == SeqnoOf(m) = cli.blksize \/ last
           buf  == IF take /\ room THEN Append(cli.buf, m.data) ELSE cli.buf
           acks == IF full THEN 0 ELSE ack
           st   == IF last THEN "blk_up_end" ELSE cli.st
           c    == [cli EXCEPT !.buf = buf, !.ackseq = acks, !.st = st]
           res  == IF full THEN <<[k |-> "blk_up_res", ackseq |-> ack,
                                   blksize |-> cli.blksize]>>
                   ELSE <<>>
<1>2. CASE AbortReq
  BY <1>2, AbortType
<1>3. CASE Reply(c, res) /\ (take => last \/ room)
  <2>1. /\ Len(cli.buf) \in Nat
        /\ cli.ackseq + 1 < 32 /\ cli.ackseq + 1 \in Seqno
        /\ cli.ackseq + 1 <= Len(cli.buf) + 1
    <3>1. Len(cli.buf) \in Nat
      BY <1>1
    <3> QED BY <1>1, <3>1, Counted
  <2>2. take => m.data \in Segment
    <3>1. take => SeqnoOf(m) < 32
      BY <2>1 DEF Accept
    <3> QED BY <3>1, SeqnoRead
  <2>3. buf \in Seq(Segment) /\ Len(buf) <= cli.size
    BY <1>1, <2>1, <2>2
  <2>4. ~full => ack <= Len(buf)
    <3>1. CASE take /\ ~full
      <4>1. room /\ Len(buf) = Len(cli.buf) + 1
        BY <1>1, <1>3, <2>2, <3>1
      <4> QED BY <2>1, <3>1, <4>1
    <3>2. CASE ~take
      BY <1>1, <3>2
    <3> QED BY <3>1, <3>2
  <2>5. ack \in Seqno /\ acks \in Seqno
    <3>1. 0 \in Seqno
      BY DEF Seqno
    <3> QED BY <1>1, <2>1, <3>1
  <2>6. res \in Seq(FromClient)
    BY <1>1, <2>5, ClientFrames, Single
  <2>7. /\ c \in ClientState
        /\ c.st = st /\ c.size = cli.size /\ c.buf = buf /\ c.ackseq = acks
        /\ c.pos = cli.pos /\ c.value = cli.value
    <3>1. st \in {"blk_up_sub", "blk_up_end"}
      OBVIOUS
    <3> HIDE DEF buf, acks, st
    <3>2. c \in ClientState
      BY <1>1, <2>3, <2>5, <3>1, Zenon DEF ClientState
    <3>3. /\ c.st = st /\ c.size = cli.size /\ c.buf = buf /\ c.ackseq = acks
          /\ c.pos = cli.pos /\ c.value = cli.value
      BY <1>1 DEF ClientState
    <3> QED BY <3>2, <3>3
  <2>8. acks = 0 \/ (~full /\ acks = ack)
    OBVIOUS
  <2>9. st = IF last THEN "blk_up_end" ELSE "blk_up_sub"
    OBVIOUS
  <2> HIDE DEF buf, acks, st, c, res, ack, full, last, take, room
  <2>10. 0 <= Len(buf)
    BY <2>3
  <2>11. Within(c)
    BY <1>1, <2>7 DEF Within
  <2>12. ClientFits(c)
    BY <1>1, <2>3, <2>4, <2>7, <2>8, <2>9, <2>10, <2>11, UploadFits
  <2> QED BY <1>3, <2>6, <2>12, ReplyType
<1> QED BY <1>2, <1>3 DEF ClientBlkUpSub

LEMMA ClientReceiveType ==
  ASSUME FInv, ClientReceive
  PROVE  FInv'
<1> DEFINE m == Head(s2c)
<1>1. s2c # <<>> /\ m \in FromServer /\ ClientFits(cli) /\ Within(cli)
  BY DEF ClientReceive, FInv, ClientFits
<1>2. <<>> \in Seq(FromClient) /\ <<[k |-> "blk_up_end"]>> \in Seq(FromClient)
  BY ClientFrames, Single
<1> HIDE DEF m
<1>3. CASE Reply(cli, <<>>)
  BY <1>1, <1>2, <1>3, ReplyType
<1>4. CASE AbortInd \/ AbortReq
  BY <1>1, <1>4, AbortType
<1>5. CASE ClientDown(m)
  BY <1>1, <1>5, ClientDownType
<1>6. CASE cli.st \in {"up_ini", "blk_up_ini"} /\ ClientUpIni(m)
  BY <1>1, <1>6, ClientUpIniType
<1>7. CASE cli.st = "up_seg" /\ ClientUpSeg(m)
  BY <1>1, <1>7, ClientUpSegType
<1>8. CASE cli.st = "blk_up_sub" /\ ClientBlkUpSub(m)
  BY <1>1, <1>8, ClientBlkUpSubType
<1>9. CASE Reply(Ended(cli, "ok"), <<[k |-> "blk_up_end"]>>)
  BY <1>1, <1>2, <1>9, EndedFits, ReplyType
<1> QED BY <1>3, <1>4, <1>5, <1>6, <1>7, <1>8, <1>9
        DEF ClientReceive, ClientBlkUpEnd, m

LEMMA BeginType ==
  ASSUME FInv, NEW c, ClientFits(c), NEW m \in FromClient, Begin(c, m)
  PROVE  FInv'
<1>1. Append(c2s, m) \in Seq(FromClient) /\ {object} \subseteq Seq(Segment)
  BY ValLen DEF FInv
<1> QED BY <1>1 DEF FInv, Begin

LEMMA NewRequestFits ==
  ASSUME NEW op \in {"dn", "up"}, NEW value \in Seq(Segment), Len(value) <= 15,
         NEW st \in {"wait", "dn_ini", "blk_dn_ini", "up_ini", "blk_up_ini"}
  PROVE  ClientFits(NewRequest(op, st, value))
<1>1. <<>> \in Seq(Segment) /\ 0 \in Seqno /\ 0 \in Nat
  BY DEF Seqno
<1>2. 0 <= Len(value)
  OBVIOUS
<1> DEFINE c == NewRequest(op, st, value)
<1>3. c \in ClientState
  BY <1>1 DEF NewRequest, ClientState
<1>4. /\ c.st = st /\ c.pos = 0 /\ c.value = value /\ c.buf = <<>>
  BY DEF NewRequest
<1> HIDE DEF c
<1>5. ClientFits(c)
  BY <1>2, <1>3, <1>4 DEF ClientFits, Within
<1> QED BY <1>5 DEF c

LEMMA RequestType ==
  ASSUME FInv, Request
  PROVE  FInv'
<1>1. ASSUME NEW v \in Value
      PROVE  /\ Segs(v) \in Val /\ Segs(v) \in Seq(Segment) /\ Len(Segs(v)) <= 15
             /\ Length[v] \in 1 .. 15
  BY SegsVal, ValueAssumption DEF Val
<1>2. ASSUME NEW v \in Value, DnReq(v) PROVE FInv'
  <2> DEFINE c == NewRequest("dn", "dn_ini", Segs(v))
             sent == [c EXCEPT !.pos = 1]
  <2>1. ClientFits(c) /\ c \in ClientState /\ c.value = Segs(v) /\ c.st = "dn_ini"
    BY <1>1, NewRequestFits DEF ClientFits, Within, NewRequest
  <2> HIDE DEF c
  <2>2. sent \in ClientState
    BY <2>1, Zenon DEF ClientState
  <2>3. sent.pos = 1 /\ sent.value = Segs(v) /\ sent.st = "dn_ini"
    BY <2>1 DEF ClientState
  <2>4. \/ Begin(sent, [k |-> "dn_exp", data |-> Segs(v)])
        \/ Begin(c, [k |-> "dn_ini", size |-> Length[v]])
    BY <1>2 DEF DnReq, c
  <2> HIDE DEF sent
  <2>5. ClientFits(sent)
    BY <1>1, <2>2, <2>3 DEF ClientFits, Within, Val
  <2>6. /\ [k |-> "dn_exp", data |-> Segs(v)] \in FromClient
        /\ [k |-> "dn_ini", size |-> Length[v]] \in FromClient
    BY <1>1, ClientFrames
  <2> QED BY <2>1, <2>4, <2>5, <2>6, BeginType
<1>3. ASSUME NEW v \in Value, BlkDnReq(v) PROVE FInv'
  <2>1. [k |-> "blk_dn_ini", size |-> Length[v]] \in FromClient
    BY <1>1, ClientFrames
  <2> QED BY <1>1, <1>3, <2>1, NewRequestFits, BeginType DEF BlkDnReq
<1>4. <<>> \in Seq(Segment) /\ Len(<<>>) <= 15
  OBVIOUS
<1>5. CASE UpReq
  BY <1>4, <1>5, NewRequestFits, ClientFrames, BeginType DEF UpReq
<1>6. ASSUME NEW pst \in Psts, BlkUpReq(pst) PROVE FInv'
  <2> DEFINE c == NewRequest("up", "blk_up_ini", <<>>)
             r == [c EXCEPT !.blksize = maxSeqno]
  <2>1. ClientFits(c) /\ c \in ClientState /\ c.pos <= Len(c.value) /\ Len(c.value) <= 15
    BY <1>4, NewRequestFits DEF ClientFits, Within
  <2>2. c.st = "blk_up_ini" /\ c.buf = <<>>
    BY DEF NewRequest
  <2>3. maxSeqno \in Seqno /\ pst \in Nat
    BY MaxSeqnoType, BoundAssumption DEF FInv, Seqno
  <2> HIDE DEF c
  <2>4. r \in ClientState
    BY <2>1, <2>3, Zenon DEF ClientState
  <2>5. r.st = "blk_up_ini" /\ r.buf = <<>> /\ r.pos = c.pos /\ r.value = c.value
    BY <2>1, <2>2 DEF ClientState
  <2>6. [k |-> "blk_up_ini", blksize |-> maxSeqno, pst |-> pst] \in FromClient
    BY <2>3, ClientFrames
  <2>7. Begin(r, [k |-> "blk_up_ini", blksize |-> maxSeqno, pst |-> pst])
    BY <1>6 DEF BlkUpReq, c
  <2> HIDE DEF r
  <2>8. ClientFits(r)
    BY <2>1, <2>4, <2>5 DEF ClientFits, Within
  <2> QED BY <2>6, <2>7, <2>8, BeginType
<1> QED BY <1>2, <1>3, <1>5, <1>6 DEF Request

LEMMA GiveUpType ==
  ASSUME FInv, GiveUp, faults' \in 0 .. MaxFault
  PROVE  FInv'
<1>1. Append(c2s, Abort) \in Seq(FromClient)
  BY ClientFrames DEF FInv, Abort
<1>2. ClientFits(Ended(cli, "failed"))
  BY EndedFits DEF FInv, ClientFits
<1> QED BY <1>1, <1>2 DEF FInv, GiveUp, history

-----------------------------------------------------------------------------
(* The invariant                                                           *)

LEMMA InitFits == Init => FInv
<1> SUFFICES ASSUME Init PROVE FInv
  OBVIOUS
<1>1. ClientFits(cli)
  <2>1. <<>> \in Seq(Segment) /\ Len(<<>>) <= 15
    OBVIOUS
  <2> QED BY <2>1, NewRequestFits DEF Init
<1>2. ServerFits(srv)
  BY ServerInFits DEF Init
<1>3. object \in Val /\ object \in Seq(Segment)
  BY SegsVal, ValueAssumption, ValLen DEF Init
<1>4. faults \in 0 .. MaxFault
  BY BoundAssumption DEF Init
<1>5. c2s \in Seq(FromClient) /\ s2c \in Seq(FromServer)
  BY DEF Init
<1> QED BY <1>1, <1>2, <1>3, <1>4, <1>5 DEF Init, FInv

LEMMA StepFits ==
  ASSUME FInv, [Next]_vars
  PROVE  FInv'
<1>1. Fault => faults' \in 0 .. MaxFault
  BY BoundAssumption DEF Fault, FInv
<1>2. faults \in 0 .. MaxFault
  BY DEF FInv
<1>3. CASE ServerReceive \/ ClientReceive \/ Request
  BY <1>3, ServerReceiveType, ClientReceiveType, RequestType
<1>4. CASE Timeout \/ EarlyTimeout
  BY <1>1, <1>2, <1>4, GiveUpType DEF Timeout, EarlyTimeout
<1>5. CASE LoseRequest
  <2>1. Tail(c2s) \in Seq(FromClient)
    BY <1>5 DEF LoseRequest, FInv
  <2> QED BY <1>1, <1>5, <2>1 DEF LoseRequest, FInv, history
<1>6. CASE LoseResponse
  <2>1. Tail(s2c) \in Seq(FromServer)
    BY <1>6 DEF LoseResponse, FInv
  <2> QED BY <1>1, <1>6, <2>1 DEF LoseResponse, FInv, history
<1>7. CASE ServerStop
  <2>1. s2c' \in Seq(FromServer)
    BY <1>7, ServerFrames DEF ServerStop, FInv, Abort
  <2>2. ServerFits(srv')
    BY <1>7, ServerInFits DEF ServerStop
  <2> QED BY <1>1, <1>7, <2>1, <2>2 DEF ServerStop, FInv, history
<1>8. CASE ServerStart
  BY <1>8, ServerInFits DEF ServerStart, FInv, history
<1>9. ASSUME NEW v \in Local, LocalWrite(v) PROVE FInv'
  <2>1. Segs(v) \in Val /\ Segs(v) \in Seq(Segment)
    BY SegsVal, ValueAssumption, ValLen
  <2> QED BY <1>9, <2>1 DEF LocalWrite, FInv
<1>10. CASE UNCHANGED vars
  BY <1>10 DEF vars, history, FInv
<1> QED BY <1>3, <1>4, <1>5, <1>6, <1>7, <1>8, <1>9, <1>10 DEF Next

\* No frame, however lost, late or misread, makes either side count or send
\* beyond the end of a value or a buffer (co_ssdo.c, co_csdo.c).
THEOREM BuffersFit == Spec => []FInv
BY InitFits, StepFits, PTL DEF Spec

\* The type invariant of the run Sdo, for every set of values and any number of
\* faults.
THEOREM TypeCorrect == Spec => []TypeOK
<1>1. FromClient \subseteq ClientFrame /\ FromServer \subseteq ServerFrame
  BY DEF FromClient, FromServer
<1>2. Seq(FromClient) \subseteq Seq(ClientFrame) /\ Seq(FromServer) \subseteq Seq(ServerFrame)
  BY <1>1
<1>3. FInv => TypeOK
  BY <1>2, ValLen DEF FInv, ClientFits, Within, ServerFits, TypeOK
<1> QED BY <1>3, BuffersFit, PTL

-----------------------------------------------------------------------------
(* Transfers: what client, server and the frames under way have in common in  *)
(* each state of the client, when the transfer began with no frame under way. *)

\* The first p segments of the client's value are in the server's buffer, and t
\* is the toggle bit of the next one.
Taken(p, t) ==
  /\ srv.size = Len(cli.value)
  /\ srv.data = SubSeq(cli.value, 1, p)
  /\ srv.toggle = t

\* The first p segments of d have left the server, and t is the toggle bit of
\* the next request.
Given(d, p, t) == srv.value = d /\ srv.pos = p /\ srv.toggle = t

\* A request is answered before the next one is sent.
Alternating ==
  /\ Len(c2s) <= 1
  /\ \A i, j \in DOMAIN s2c : i # j => s2c[i] = Abort \/ s2c[j] = Abort
  /\ c2s # <<>> => \A x \in Range(s2c) : x = Abort

InDnIni ==
  /\ Alternating
  /\ cli.op = "dn" /\ cli.toggle = 0
  /\ cli.pos \in {0, Len(cli.value)} /\ 0 < Len(cli.value)
  /\ \A m \in Range(c2s) :
       m = IF cli.pos = 0 THEN [k |-> "dn_ini", size |-> Len(cli.value)]
           ELSE [k |-> "dn_exp", data |-> cli.value]
  /\ \A m \in Range(s2c) : m.k = "dn_ini_res" =>
       IF cli.pos = 0 THEN srv.st = "dn_seg" => Taken(0, 0)
       ELSE cli.value \in written

InDnSeg ==
  /\ Alternating
  /\ cli.op = "dn" /\ cli.pos > 0
  /\ \A m \in Range(c2s) :
       /\ m = [k |-> "dn_seg", toggle |-> Flip(cli.toggle),
               data |-> cli.value[cli.pos], last |-> cli.pos = Len(cli.value)]
       /\ srv.st = "dn_seg" => Taken(cli.pos - 1, Flip(cli.toggle))
  /\ \A m \in Range(s2c) : m.k = "dn_seg_res" =>
       /\ cli.pos = Len(cli.value) => cli.value \in written
       /\ srv.st = "dn_seg" => Taken(cli.pos, cli.toggle)

InBlkDnIni ==
  /\ Alternating
  /\ cli.op = "dn"
  /\ \A m \in Range(c2s) : m.k = "blk_dn_ini"
  /\ \A m \in Range(s2c) : m.k = "blk_dn_ini_res" => srv.st # "dn_seg"

InBlkDnSub ==
  /\ cli.op = "dn" /\ srv.st # "dn_seg"
  /\ \A m \in Range(c2s) : m.k = "seg"
  /\ \A m \in Range(s2c) : m.k # "blk_dn_end_res"

InBlkDnEnd ==
  /\ cli.op = "dn" /\ srv.st # "dn_seg"
  /\ \A m \in Range(c2s) :
       m.k = "seg" \/ m = [k |-> "blk_dn_end", crc |-> cli.value]
  /\ \A m \in Range(s2c) : m.k = "blk_dn_end_res" => cli.value \in written

InUpIni ==
  /\ Alternating
  /\ cli.op = "up" /\ cli.toggle = 0
  /\ \A m \in Range(c2s) : m.k = cli.st
  /\ \A m \in Range(s2c) :
       /\ m.k = "up_exp" => m.data \in had
       /\ m.k = "up_ini_res" =>
            \E d \in had : m.size = Len(d) /\ (srv.st = "up_seg" => Given(d, 0, 0))
       /\ m.k = "blk_up_ini_res" => (srv.st = "blk_up_sub" => srv.value \in had)

\* The client has the first segments of the value d.
Receiving(d) ==
  LET b == Len(cli.buf) IN
  /\ cli.size = Len(d) /\ b < Len(d) /\ cli.buf = SubSeq(d, 1, b)
  /\ \A m \in Range(c2s) :
       /\ m = [k |-> "up_seg", toggle |-> Flip(cli.toggle)]
       /\ srv.st = "up_seg" => Given(d, b, Flip(cli.toggle))
  /\ \A m \in Range(s2c) :
       /\ m.k # "seg"
       /\ m.k = "up_seg_res" =>
            /\ m.toggle = Flip(cli.toggle) /\ m.data = d[b + 1]
            /\ m.last = (b + 1 = Len(d))
            /\ srv.st = "up_seg" => Given(d, b + 1, cli.toggle)

InUpSeg ==
  /\ Alternating
  /\ cli.op = "up"
  /\ \E d \in had : Receiving(d)

InBlkUp ==
  /\ cli.op = "up"
  /\ srv.st = "blk_up_sub" => srv.value \in had
  /\ \A m \in Range(c2s) : m.k \in {"blk_up_start", "blk_up_res"}
  /\ \A m \in Range(s2c) : m.k = "blk_up_end_res" => m.crc \in had

\* A transfer that began when no frame was under way.
Transfer ==
  /\ cli.st = "dn_ini" => InDnIni
  /\ cli.st = "dn_seg" => InDnSeg
  /\ cli.st = "blk_dn_ini" => InBlkDnIni
  /\ cli.st = "blk_dn_sub" => InBlkDnSub
  /\ cli.st = "blk_dn_end" => InBlkDnEnd
  /\ cli.st \in {"up_ini", "blk_up_ini"} => InUpIni
  /\ cli.st = "up_seg" => InUpSeg
  /\ cli.st \in {"blk_up_sub", "blk_up_end"} => InBlkUp

SessionInv ==
  /\ cli.st # "wait" => cli.result = "none"
  /\ cli.st # "wait" /\ ~stale => Transfer
  /\ object \in had
  /\ ConfirmedMeansStored
  /\ UploadIsAValue

\* What is left of the requests of a transfer stores whole values only.
Harmless ==
  /\ \A m \in Range(c2s) :
       /\ m.k = "dn_exp" => m.data \in Whole
       /\ m.k = "blk_dn_end" => m.crc \in Whole
       /\ m.k = "seg" => srv.st # "dn_seg"
  /\ c2s # <<>> =>
       \A m \in Range(Tail(c2s)) : m.k \notin {"dn_ini", "dn_seg"}
  /\ c2s # <<>> /\ Head(c2s).k = "dn_ini" =>
       \A m \in Range(Tail(c2s)) : m.k # "seg"
  /\ c2s # <<>> /\ Head(c2s).k = "dn_seg" =>
       /\ cli.value \in Whole /\ cli.pos \in 1 .. Len(cli.value)
       /\ Head(c2s).data = cli.value[cli.pos]
       /\ srv.st = "dn_seg" => Taken(cli.pos - 1, Head(c2s).toggle)

UnmixedInv ==
  /\ stale => mixed
  /\ ~mixed =>
       /\ object \in Whole
       /\ cli.st # "wait" /\ cli.op = "dn" => cli.value \in Whole
       /\ Harmless

-----------------------------------------------------------------------------
(* Frames under way                                                        *)

LEMMA RangeOfConcat ==
  ASSUME NEW S, NEW q \in Seq(S), NEW t \in Seq(S)
  PROVE  Range(q \o t) = Range(q) \cup Range(t)
<1> DEFINE u == q \o t
<1>1. /\ Len(u) = Len(q) + Len(t)
      /\ \A i \in 1 .. Len(u) : u[i] = IF i <= Len(q) THEN q[i] ELSE t[i - Len(q)]
      /\ u \in Seq(S)
  BY ConcatProperties
<1>2. /\ DOMAIN u = 1 .. Len(q) + Len(t) /\ DOMAIN q = 1 .. Len(q)
      /\ DOMAIN t = 1 .. Len(t) /\ Len(q) \in Nat /\ Len(t) \in Nat
  BY <1>1, LenProperties
<1> HIDE DEF u
<1>3. Range(q) \subseteq Range(u)
  BY <1>1, <1>2 DEF Range
<1>4. Range(t) \subseteq Range(u)
  <2> SUFFICES ASSUME NEW j \in 1 .. Len(t) PROVE t[j] \in Range(u)
    BY <1>2 DEF Range
  <2>1. Len(q) + j \in 1 .. Len(u) /\ u[Len(q) + j] = t[j]
    BY <1>1, <1>2
  <2> QED BY <1>1, <1>2, <2>1 DEF Range
<1>5. Range(u) \subseteq Range(q) \cup Range(t)
  <2> SUFFICES ASSUME NEW i \in 1 .. Len(u) PROVE u[i] \in Range(q) \cup Range(t)
    BY <1>1, <1>2 DEF Range
  <2>1. CASE i <= Len(q)
    BY <1>1, <1>2, <2>1 DEF Range
  <2>2. CASE ~(i <= Len(q))
    <3>1. i - Len(q) \in 1 .. Len(t) /\ u[i] = t[i - Len(q)]
      BY <1>1, <1>2, <2>2
    <3> QED BY <1>2, <3>1 DEF Range
  <2> QED BY <2>1, <2>2
<1> QED BY <1>3, <1>4, <1>5 DEF u

LEMMA RangeOfOne == \A x : Range(<<x>>) = {x} /\ Range(<<>>) = {}
BY DEF Range

LEMMA RangeOfTail ==
  ASSUME NEW S, NEW q \in Seq(S), q # <<>>
  PROVE  /\ Range(q) = {Head(q)} \cup Range(Tail(q))
         /\ Head(q) \in S /\ Tail(q) \in Seq(S)
<1>1. /\ Head(q) \in S /\ Tail(q) \in Seq(S) /\ Len(Tail(q)) = Len(q) - 1
      /\ Head(q) = q[1] /\ \A i \in 1 .. Len(Tail(q)) : Tail(q)[i] = q[i + 1]
  BY HeadTailProperties
<1>2. /\ DOMAIN q = 1 .. Len(q) /\ DOMAIN Tail(q) = 1 .. Len(q) - 1
      /\ Len(q) \in Nat /\ Len(q) >= 1
  BY <1>1, LenProperties, EmptySeq
<1> DEFINE t == Tail(q)
           h == Head(q)
<1>3. Range(t) \subseteq Range(q)
  BY <1>1, <1>2 DEF Range
<1>4. h \in Range(q)
  BY <1>1, <1>2 DEF Range
<1>5. Range(q) \subseteq {h} \cup Range(t)
  <2> SUFFICES ASSUME NEW i \in 1 .. Len(q) PROVE q[i] \in {h} \cup Range(t)
    BY <1>2 DEF Range
  <2>1. CASE i = 1
    BY <1>1, <2>1
  <2>2. CASE i # 1
    <3>1. i - 1 \in 1 .. Len(t) /\ t[i - 1] = q[i]
      BY <1>1, <1>2, <2>2
    <3> QED BY <1>1, <1>2, <3>1 DEF Range
  <2> QED BY <2>1, <2>2
<1> QED BY <1>1, <1>3, <1>4, <1>5

\* What follows from Alternating when the server handles a request: nothing but
\* its answer and aborts is under way.
LEMMA Answered ==
  ASSUME FInv, Alternating, c2s # <<>>, c2s' = Tail(c2s),
         NEW x \in FromServer, s2c' = s2c \o <<x>>
  PROVE  /\ Alternating' /\ c2s' = <<>>
         /\ \A y \in Range(s2c') : y = Abort \/ y = x
<1>1. c2s \in Seq(FromClient) /\ s2c \in Seq(FromServer)
  BY DEF FInv
<1>2. c2s' = <<>>
  <2>1. Len(Tail(c2s)) = Len(c2s) - 1 /\ Tail(c2s) \in Seq(FromClient)
        /\ Len(c2s) \in Nat
    BY <1>1, HeadTailProperties
  <2>2. Len(c2s) <= 1
    BY DEF Alternating
  <2> QED BY <2>1, <2>2
<1>3. \A y \in Range(s2c) : y = Abort
  BY DEF Alternating
<1>4. \A y \in Range(s2c') : y = Abort \/ y = x
  <2>1. <<x>> \in Seq(FromServer)
    OBVIOUS
  <2>2. Range(<<x>>) = {x}
    BY RangeOfOne
  <2>3. Range(s2c \o <<x>>) = Range(s2c) \cup Range(<<x>>)
    BY <1>1, <2>1, RangeOfConcat
  <2> QED BY <1>3, <2>2, <2>3
<1>5. \A i, j \in DOMAIN s2c' : i # j => s2c'[i] = Abort \/ s2c'[j] = Abort
  <2>1. /\ Len(s2c') = Len(s2c) + 1 /\ Len(s2c) \in Nat /\ s2c' \in Seq(FromServer)
        /\ \A i \in 1 .. Len(s2c) : s2c'[i] = s2c[i]
    BY <1>1
  <2>2. \A i \in DOMAIN s2c' : i # Len(s2c) + 1 => s2c'[i] = Abort
    <3>1. DOMAIN s2c' = 1 .. Len(s2c) + 1 /\ DOMAIN s2c = 1 .. Len(s2c)
      BY <1>1, <2>1
    <3>2. \A i \in 1 .. Len(s2c) : s2c[i] = Abort
      BY <1>3, <3>1 DEF Range
    <3> QED BY <2>1, <3>1, <3>2
  <2> QED BY <2>1, <2>2
<1> QED BY <1>2, <1>4, <1>5 DEF Alternating

\* What follows from Alternating when the client handles an answer.
LEMMA Asked ==
  ASSUME FInv, Alternating, s2c # <<>>, Head(s2c) # Abort, s2c' = Tail(s2c)
  PROVE  /\ c2s = <<>>
         /\ \A y \in Range(s2c') : y = Abort
         /\ Len(c2s') <= 1 => Alternating'
<1>1. c2s \in Seq(FromClient) /\ s2c \in Seq(FromServer)
  BY DEF FInv
<1>2. Head(s2c) \in Range(s2c)
  BY <1>1, RangeOfTail
<1>3. c2s = <<>>
  BY <1>2 DEF Alternating
<1>4. /\ Len(s2c') = Len(s2c) - 1 /\ Len(s2c) \in Nat /\ s2c' \in Seq(FromServer)
      /\ \A i \in 1 .. Len(s2c') : s2c'[i] = s2c[i + 1]
      /\ Head(s2c) = s2c[1]
  BY <1>1
<1>5. \A i \in DOMAIN s2c' : s2c'[i] = Abort
  <2> SUFFICES ASSUME NEW i \in DOMAIN s2c' PROVE s2c'[i] = Abort
    OBVIOUS
  <2>1. i \in 1 .. Len(s2c') /\ i + 1 \in DOMAIN s2c /\ 1 \in DOMAIN s2c /\ i + 1 # 1
    BY <1>1, <1>4
  <2> QED BY <1>4, <2>1 DEF Alternating
<1>6. \A y \in Range(s2c') : y = Abort
  BY <1>5 DEF Range
<1> QED BY <1>3, <1>5, <1>6 DEF Alternating

-----------------------------------------------------------------------------
(* What a transfer sees of the server                                      *)

\* The server answers the next request with the frames tx.
Answers(tx) ==
  /\ s2c' = s2c \o tx
  /\ c2s' = Tail(c2s)
  /\ UNCHANGED <<cli, stale, mixed>>

\* Its state is no longer one of an answer to come, or has not changed.
Passive == srv' = srv \/ srv'.st \notin {"dn_seg", "up_seg", "blk_up_sub"}

Ignored == Keep /\ Passive /\ (Answers(<<>>) \/ Answers(<<Abort>>))

Acknowledged ==
  /\ Keep /\ srv'.st \in {"blk_dn_sub", "blk_dn_end"}
  /\ \E x \in FromServer : x.k = "blk_dn_res" /\ Answers(<<x>>)

Downloaded(m) ==
  /\ m.k = "dn_exp" /\ Store(m.data) /\ Answers(<<[k |-> "dn_ini_res"]>>)
  /\ srv'.st = "wait"

DownloadBegun(m) ==
  /\ m.k = "dn_ini" /\ Keep /\ Answers(<<[k |-> "dn_ini_res"]>>)
  /\ srv'.st = "dn_seg" /\ srv'.size = m.size /\ srv'.data = <<>> /\ srv'.toggle = 0

BlkDownloadBegun(m) ==
  /\ m.k = "blk_dn_ini" /\ Keep /\ srv'.st = "blk_dn_sub"
  /\ \E x \in FromServer : x.k = "blk_dn_ini_res" /\ Answers(<<x>>)

SegmentTaken(m) ==
  LET data == Append(srv.data, m.data) IN
  /\ srv.st = "dn_seg" /\ m.k \in {"dn_seg", "seg"} /\ Toggle(m) = srv.toggle
  /\ Answers(<<[k |-> "dn_seg_res", toggle |-> srv.toggle]>>)
  /\ IF Len(data) = srv.size THEN Store(data) ELSE Keep /\ ~LastOf(m)
  /\ srv'.st = "dn_seg" =>
       srv'.size = srv.size /\ srv'.data = data /\ srv'.toggle = Flip(srv.toggle)
  /\ srv'.st \in {"dn_seg", "wait"}

BlkDownloaded(m) ==
  /\ m.k = "blk_dn_end" /\ Store(m.crc) /\ Answers(<<[k |-> "blk_dn_end_res"]>>)
  /\ srv'.st = "wait"

Uploaded(m) ==
  /\ m.k \in {"up_ini", "blk_up_ini"} /\ Keep /\ srv'.st = "wait"
  /\ Answers(<<[k |-> "up_exp", data |-> object]>>)

UploadBegun(m) ==
  /\ m.k \in {"up_ini", "blk_up_ini"} /\ Keep
  /\ Answers(<<[k |-> "up_ini_res", size |-> Len(object)]>>)
  /\ srv'.st = "up_seg" /\ srv'.value = object /\ srv'.pos = 0 /\ srv'.toggle = 0

BlkUploadBegun(m) ==
  /\ m.k = "blk_up_ini" /\ Keep
  /\ Answers(<<[k |-> "blk_up_ini_res", size |-> Len(object)]>>)
  /\ srv'.st = "blk_up_sub" /\ srv'.value = object

SegmentGiven(m) ==
  /\ srv.st = "up_seg" /\ m.k = "up_seg" /\ m.toggle = srv.toggle /\ Keep
  /\ Answers(<<[k |-> "up_seg_res", toggle |-> srv.toggle,
                data |-> srv.value[srv.pos + 1],
                last |-> srv.pos + 1 = Len(srv.value)]>>)
  /\ srv'.st = "up_seg" =>
       /\ srv'.value = srv.value /\ srv'.pos = srv.pos + 1
       /\ srv'.toggle = Flip(srv.toggle)
  /\ srv'.st \in {"up_seg", "wait"}

BlockGiven(m) ==
  /\ srv.st = "blk_up_sub" /\ m.k \in {"blk_up_start", "blk_up_res"} /\ Keep
  /\ srv'.st = "blk_up_sub" /\ srv'.value = srv.value
  /\ \E tx \in Seq(FromServer) :
       Answers(tx) /\ \A x \in Range(tx) : x.k = "seg"

BlkUploaded(m) ==
  /\ srv.st = "blk_up_sub" /\ m.k \in {"blk_up_start", "blk_up_res"} /\ Keep
  /\ Answers(<<[k |-> "blk_up_end_res", crc |-> srv.value]>>)
  /\ srv'.st = "blk_up_end"

Reaction(m) ==
  \/ Ignored
  \/ Acknowledged
  \/ Downloaded(m) \/ DownloadBegun(m) \/ BlkDownloadBegun(m)
  \/ SegmentTaken(m) \/ BlkDownloaded(m)
  \/ Uploaded(m) \/ UploadBegun(m) \/ BlkUploadBegun(m)
  \/ SegmentGiven(m) \/ BlockGiven(m) \/ BlkUploaded(m)

LEMMA AnswerAnswers ==
  ASSUME NEW r, NEW tx, Answer(r, tx)
  PROVE  Answers(tx) /\ srv' = r
BY DEF Answer, Answers

LEMMA PlainReaction ==
  ASSUME \/ ServerEnd(<<>>) \/ AbortRes
         \/ Keep /\ Answer(srv, <<>>)
  PROVE  Ignored
BY AnswerAnswers DEF ServerEnd, AbortRes, ServerIn, Ignored, Passive

LEMMA UploadReaction ==
  ASSUME FInv, srv.st = "wait", NEW m, m.k \in {"up_ini", "blk_up_ini"}, Keep, Upload
  PROVE  Uploaded(m) \/ UploadBegun(m)
<1>1. srv \in ServerState /\ srv = ServerIn("wait")
  BY DEF FInv, ServerFits
<1>2. srv.pos = 0 /\ srv.toggle = 0
  BY <1>1 DEF ServerIn
<1>3. CASE IsSmall(object)
  BY <1>3, AnswerAnswers DEF Upload, Uploaded, ServerIn
<1>4. CASE ~IsSmall(object)
  <2> DEFINE r == [srv EXCEPT !.st = "up_seg", !.size = Len(object), !.value = object]
  <2>1. r.st = "up_seg" /\ r.value = object /\ r.pos = 0 /\ r.toggle = 0
    BY <1>1, <1>2 DEF ServerState
  <2>2. Answer(r, <<[k |-> "up_ini_res", size |-> Len(object)]>>)
    BY <1>4 DEF Upload
  <2> HIDE DEF r
  <2> QED BY <2>1, <2>2, AnswerAnswers DEF UploadBegun
<1> QED BY <1>3, <1>4

LEMMA WaitReaction ==
  ASSUME FInv, NEW m \in FromClient, ServerWait(m)
  PROVE  Reaction(m)
<1>1. /\ srv \in ServerState /\ srv.st = "wait" /\ srv = ServerIn("wait")
      /\ maxSeqno \in Seqno
  BY MaxSeqnoType DEF FInv, ServerFits, ServerWait, Seqno
<1>2. srv.data = <<>> /\ srv.toggle = 0
  BY <1>1 DEF ServerIn
<1>3. CASE ServerDnIni(m)
  <2>1. CASE m.k = "dn_exp"
    <3>1. Download(m.data, ServerIn("wait"), <<[k |-> "dn_ini_res"]>>)
      BY <1>3, <2>1 DEF ServerDnIni
    <3>2. CASE AbortRes
      BY <3>2, PlainReaction DEF Reaction
    <3>3. CASE Store(m.data) /\ Answer(ServerIn("wait"), <<[k |-> "dn_ini_res"]>>)
      BY <2>1, <3>3, AnswerAnswers DEF Reaction, Downloaded, ServerIn
    <3> QED BY <3>1, <3>2, <3>3 DEF Download
  <2>2. CASE m.k # "dn_exp"
    <3> DEFINE r == [srv EXCEPT !.st = "dn_seg", !.size = m.size]
    <3>1. m.k = "dn_ini" /\ Keep /\ Answer(r, <<[k |-> "dn_ini_res"]>>)
      BY <1>3, <2>2 DEF ServerDnIni
    <3>2. r.st = "dn_seg" /\ r.size = m.size /\ r.data = <<>> /\ r.toggle = 0
      BY <1>1, <1>2 DEF ServerState
    <3> HIDE DEF r
    <3> QED BY <3>1, <3>2, AnswerAnswers DEF Reaction, DownloadBegun
  <2> QED BY <2>1, <2>2
<1>4. CASE ServerUpIni(m)
  BY <1>1, <1>4, UploadReaction, PlainReaction DEF Reaction, ServerUpIni
<1>5. CASE ServerBlkDnIni(m)
  <2> DEFINE r == [srv EXCEPT !.st = "blk_dn_sub", !.size = m.size,
                              !.blksize = maxSeqno]
             x == [k |-> "blk_dn_ini_res", blksize |-> maxSeqno]
  <2>1. m.k = "blk_dn_ini" /\ Keep /\ Answer(r, <<x>>)
    BY <1>5 DEF ServerBlkDnIni
  <2>2. r.st = "blk_dn_sub" /\ x.k = "blk_dn_ini_res" /\ x \in FromServer
    BY <1>1, ServerFrames DEF ServerState
  <2> HIDE DEF r, x
  <2> QED BY <2>1, <2>2, AnswerAnswers DEF Reaction, BlkDownloadBegun
<1>6. CASE ServerBlkUpIni(m)
  <2> DEFINE r == [srv EXCEPT !.st = "blk_up_sub", !.blksize = m.blksize,
                              !.size = Len(object), !.value = object]
  <2>1. /\ m.k = "blk_up_ini" /\ Keep
        /\ \/ AbortRes \/ Upload
           \/ Answer(r, <<[k |-> "blk_up_ini_res", size |-> Len(object)]>>)
    BY <1>6 DEF ServerBlkUpIni
  <2>2. r.st = "blk_up_sub" /\ r.value = object
    BY <1>1 DEF ServerState
  <2> HIDE DEF r
  <2>3. CASE Upload
    BY <1>1, <2>1, <2>3, UploadReaction DEF Reaction
  <2>4. CASE Answer(r, <<[k |-> "blk_up_ini_res", size |-> Len(object)]>>)
    BY <2>1, <2>2, <2>4, AnswerAnswers DEF Reaction, BlkUploadBegun
  <2>5. CASE AbortRes
    BY <2>5, PlainReaction DEF Reaction
  <2> QED BY <2>1, <2>3, <2>4, <2>5
<1>7. CASE Keep /\ Answer(srv, <<>>)
  BY <1>7, PlainReaction DEF Reaction
<1>8. CASE AbortRes
  BY <1>8, PlainReaction DEF Reaction
<1> QED BY <1>3, <1>4, <1>5, <1>6, <1>7, <1>8 DEF ServerWait

LEMMA DnSegReaction ==
  ASSUME FInv, NEW m \in FromClient, ServerDnSeg(m)
  PROVE  Reaction(m)
<1>1. /\ srv.st = "dn_seg" /\ srv \in ServerState /\ srv.size \in 1 .. 15
      /\ srv.data \in Seq(Segment)
  BY DEF ServerDnSeg, FInv, ServerFits, ServerState
<1>2. CASE ServerEnd(<<>>) \/ AbortRes \/ (Keep /\ Answer(srv, <<>>))
  BY <1>2, PlainReaction DEF Reaction
<1>3. CASE ~(ServerEnd(<<>>) \/ AbortRes \/ (Keep /\ Answer(srv, <<>>)))
  <2> DEFINE data == Append(srv.data, m.data)
             res  == <<[k |-> "dn_seg_res", toggle |-> srv.toggle]>>
             more == [srv EXCEPT !.data = data, !.toggle = Flip(@)]
             next == IF LastOf(m) THEN ServerIn("wait") ELSE more
  <2>1. /\ m.k \in {"dn_seg", "seg"} /\ Toggle(m) = srv.toggle
        /\ LastOf(m) => Len(data) = srv.size
        /\ IF Len(data) = srv.size THEN Download(data, next, res)
           ELSE Answer(next, res) /\ Keep
    BY <1>3 DEF ServerDnSeg
  <2>2. /\ IF Len(data) = srv.size THEN Store(data) ELSE Keep
        /\ Answer(next, res)
    BY <1>3, <2>1 DEF Download
  <2>3. /\ more.st = "dn_seg" /\ more.size = srv.size /\ more.data = data
        /\ more.toggle = Flip(srv.toggle)
    BY <1>1 DEF ServerState
  <2>4. ServerIn("wait").st = "wait"
    BY DEF ServerIn
  <2>5. Answers(res) /\ srv' = next
    BY <2>2, AnswerAnswers
  <2> HIDE DEF more
  <2>6. next = more \/ next.st = "wait"
    BY <2>4
  <2> HIDE DEF next, data
  <2>7. SegmentTaken(m)
    BY <1>1, <2>1, <2>2, <2>3, <2>5, <2>6 DEF SegmentTaken, data
  <2> QED BY <2>7 DEF Reaction
<1> QED BY <1>2, <1>3

LEMMA UpSegReaction ==
  ASSUME FInv, NEW m \in FromClient, ServerUpSeg(m)
  PROVE  Reaction(m)
<1>1. /\ srv.st = "up_seg" /\ srv \in ServerState /\ srv.size = Len(srv.value)
  BY DEF ServerUpSeg, FInv, ServerFits, ServerState
<1> DEFINE more == [srv EXCEPT !.pos = @ + 1, !.toggle = Flip(@)]
           next == IF srv.pos + 1 = srv.size THEN ServerIn("wait") ELSE more
           res  == <<[k |-> "up_seg_res", toggle |-> srv.toggle,
                      data |-> srv.value[srv.pos + 1],
                      last |-> srv.pos + 1 = Len(srv.value)]>>
<1>2. CASE ServerEnd(<<>>) \/ AbortRes
  BY <1>2, PlainReaction DEF Reaction
<1>3. CASE Keep /\ m.k = "up_seg" /\ m.toggle = srv.toggle /\ Answer(next, res)
  <2>1. /\ more.st = "up_seg" /\ more.value = srv.value /\ more.pos = srv.pos + 1
        /\ more.toggle = Flip(srv.toggle)
    BY <1>1 DEF ServerState
  <2>2. ServerIn("wait").st = "wait"
    BY DEF ServerIn
  <2>3. Answers(res) /\ srv' = next
    BY <1>3, AnswerAnswers
  <2> HIDE DEF more
  <2>4. next = more \/ next.st = "wait"
    BY <2>2
  <2> HIDE DEF next
  <2>5. SegmentGiven(m)
    BY <1>1, <1>3, <2>1, <2>3, <2>4 DEF SegmentGiven
  <2> QED BY <2>5 DEF Reaction
<1> QED BY <1>1, <1>2, <1>3 DEF ServerUpSeg

LEMMA BlkDnSubReaction ==
  ASSUME FInv, NEW m \in FromClient, ServerBlkDnSub(m)
  PROVE  Reaction(m)
<1>1. /\ srv.st = "blk_dn_sub" /\ srv \in ServerState
      /\ srv.ackseq \in Seqno /\ srv.blksize \in Seqno /\ srv.size \in 1 .. 15
      /\ Len(srv.data) <= srv.size /\ srv.ackseq <= Len(srv.data)
      /\ srv.data \in Seq(Segment)
  BY DEF ServerBlkDnSub, FInv, ServerFits, ServerState
<1> DEFINE seqno == SeqnoOf(m)
           last  == LastInBlock(m)
           take  == Accept(m, srv.ackseq)
           room  == Len(srv.data) < srv.size
           ack   == IF take THEN srv.ackseq + 1 ELSE srv.ackseq
           full  == seqno = srv.blksize \/ last
           data  == IF take /\ room THEN Append(srv.data, m.data) ELSE srv.data
           st    == IF last THEN "blk_dn_end" ELSE srv.st
           r     == [srv EXCEPT !.data = data,
                                !.ackseq = IF full THEN 0 ELSE ack, !.st = st]
           x     == [k |-> "blk_dn_res", ackseq |-> ack, blksize |-> srv.blksize]
           tx    == IF full THEN <<x>> ELSE <<>>
<1>2. CASE ServerEnd(<<>>) \/ AbortRes
  BY <1>2, PlainReaction DEF Reaction
<1>3. CASE Keep /\ Answer(r, tx)
  <2>1. Keep /\ Answers(tx) /\ srv' = r
    BY <1>3, AnswerAnswers
  <2>2. r.st = st
    BY <1>1 DEF ServerState
  <2>3. st \in {"blk_dn_sub", "blk_dn_end"}
    BY <1>1
  <2>4. x \in FromServer /\ x.k = "blk_dn_res"
    <3>1. Len(srv.data) \in Nat
      BY <1>1
    <3>2. ack \in Seqno
      BY <1>1, <3>1, Counted
    <3> QED BY <1>1, <3>2, ServerFrames
  <2> HIDE DEF r, st, x
  <2>5. Passive
    BY <2>1, <2>2, <2>3 DEF Passive
  <2>6. CASE full
    BY <2>1, <2>2, <2>3, <2>4, <2>6 DEF Reaction, Acknowledged
  <2>7. CASE ~full
    BY <2>1, <2>5, <2>7 DEF Reaction, Ignored
  <2> QED BY <2>6, <2>7
<1> QED BY <1>2, <1>3 DEF ServerBlkDnSub

LEMMA BlkDnEndReaction ==
  ASSUME FInv, NEW m \in FromClient, ServerBlkDnEnd(m)
  PROVE  Reaction(m)
<1>1. CASE AbortRes
  BY <1>1, PlainReaction DEF Reaction
<1>2. CASE /\ Keep
           /\ Answer(IF srv.data = <<>> THEN ServerIn("down") ELSE ServerIn("wait"),
                     <<>>)
  BY <1>2, AnswerAnswers DEF Reaction, Ignored, Passive, ServerIn
<1>3. CASE /\ m.k = "blk_dn_end" /\ m.crc = srv.data
           /\ Download(srv.data, ServerIn("wait"), <<[k |-> "blk_dn_end_res"]>>)
  <2>1. CASE AbortRes
    BY <2>1, PlainReaction DEF Reaction
  <2>2. CASE Store(m.crc) /\ Answer(ServerIn("wait"), <<[k |-> "blk_dn_end_res"]>>)
    BY <1>3, <2>2, AnswerAnswers DEF Reaction, BlkDownloaded, ServerIn
  <2> QED BY <1>3, <2>1, <2>2 DEF Download
<1> QED BY <1>1, <1>2, <1>3 DEF ServerBlkDnEnd

LEMMA BlkUpSubReaction ==
  ASSUME FInv, NEW m \in FromClient, ServerBlkUpSub(m)
  PROVE  Reaction(m)
<1>1. /\ srv.st = "blk_up_sub" /\ srv \in ServerState
      /\ srv.value \in Val /\ srv.value \in Seq(Segment)
      /\ srv.size = Len(srv.value) /\ srv.size \in Nat
      /\ srv.pos \in Nat /\ srv.pos <= srv.size
      /\ srv.win \in Nat /\ srv.win <= srv.pos /\ (srv.pos > 0 => srv.win = srv.blksize)
      /\ srv.blksize \in Seqno
  BY ValLen DEF ServerBlkUpSub, FInv, ServerFits, ServerState
<1> DEFINE left == IF m.k = "blk_up_res" THEN srv.win - m.ackseq ELSE srv.win
           max  == IF m.k = "blk_up_res" THEN m.blksize ELSE srv.blksize
           from == srv.pos - left
           n    == IF from + max < srv.size THEN max ELSE srv.size - from
           r    == [srv EXCEPT !.pos = from + n, !.win = n, !.blksize = n]
           end  == [srv EXCEPT !.st = "blk_up_end", !.win = 0, !.blksize = 0]
           tx   == Block(srv.value, from, n, from + n = srv.size)
<1>2. CASE ServerEnd(<<>>) \/ AbortRes
  BY <1>2, PlainReaction DEF Reaction
<1>3. CASE ~(ServerEnd(<<>>) \/ AbortRes)
  <2>1. /\ Keep
        /\ \/ m.k = "blk_up_start" /\ srv.pos = 0
           \/ /\ m.k = "blk_up_res" /\ srv.pos # 0
              /\ m.ackseq <= srv.blksize /\ m.blksize \in 1 .. maxSeqno
        /\ \/ n > 0 /\ Answer(r, tx)
           \/ n = 0 /\ Answer(end, <<[k |-> "blk_up_end_res", crc |-> srv.value]>>)
    BY <1>1, <1>3 DEF ServerBlkUpSub
  <2>2. m.k \in {"blk_up_start", "blk_up_res"}
    BY <2>1
  <2>3. CASE Answer(r, tx)
    <3>1. /\ from \in Nat /\ n \in Seqno /\ from + n <= srv.size
      <4>1. left \in Nat /\ left <= srv.pos
        <5>1. CASE m.k = "blk_up_res"
          <6>1. m.ackseq \in Seqno /\ srv.win = srv.blksize
            BY <1>1, <2>1, <5>1, ReadByServer
          <6> QED BY <1>1, <2>1, <5>1, <6>1, Unconfirmed
        <5>2. CASE m.k # "blk_up_res"
          BY <1>1, <5>2
        <5> QED BY <5>1, <5>2
      <4>2. max \in Seqno
        BY <1>1, ReadByServer
      <4> HIDE DEF left, max
      <4> QED BY <1>1, <4>1, <4>2, Window
    <3>2. tx \in Seq(FromServer)
      <4>1. (from + n = srv.size) \in BOOLEAN
        OBVIOUS
      <4> HIDE DEF n, from
      <4> QED BY <1>1, <3>1, <4>1, BlockType
    <3> HIDE DEF n, from
    <3>3. \A x \in Range(tx) : x.k = "seg"
      BY <3>1 DEF Block, Range, Seqno
    <3>4. r.st = "blk_up_sub" /\ r.value = srv.value
      BY <1>1 DEF ServerState
    <3>5. Answers(tx) /\ srv' = r
      BY <2>3, AnswerAnswers
    <3> HIDE DEF r, tx
    <3> QED BY <1>1, <2>1, <2>2, <3>2, <3>3, <3>4, <3>5 DEF Reaction, BlockGiven
  <2>4. CASE Answer(end, <<[k |-> "blk_up_end_res", crc |-> srv.value]>>)
    <3>1. end.st = "blk_up_end"
      BY <1>1 DEF ServerState
    <3> HIDE DEF end
    <3> QED BY <1>1, <2>1, <2>2, <2>4, <3>1, AnswerAnswers DEF Reaction, BlkUploaded
  <2> QED BY <2>1, <2>3, <2>4
<1> QED BY <1>2, <1>3

LEMMA ServerReacts ==
  ASSUME FInv, ServerReceive
  PROVE  c2s # <<>> /\ Head(c2s) \in FromClient /\ Reaction(Head(c2s))
<1> DEFINE m == Head(c2s)
<1>1. c2s # <<>> /\ m \in FromClient
  BY DEF ServerReceive, FInv
<1> HIDE DEF m
<1>2. CASE ServerBlkUpEnd(m) \/ ServerDeaf(m)
  <2>1. Ignored
    BY <1>2, PlainReaction DEF ServerBlkUpEnd, ServerDeaf
  <2> QED BY <1>1, <2>1 DEF Reaction, m
<1>3. CASE \/ ServerWait(m) \/ ServerDnSeg(m) \/ ServerUpSeg(m)
           \/ ServerBlkDnSub(m) \/ ServerBlkDnEnd(m) \/ ServerBlkUpSub(m)
  <2>1. Reaction(m)
    BY <1>1, <1>3, WaitReaction, DnSegReaction, UpSegReaction, BlkDnSubReaction,
       BlkDnEndReaction, BlkUpSubReaction
  <2> QED BY <1>1, <2>1 DEF m
<1> QED BY <1>2, <1>3 DEF ServerReceive, m

-----------------------------------------------------------------------------
(* A transfer and the server                                               *)

LEMMA Prefix ==
  ASSUME NEW d \in Seq(Segment), NEW p \in 1 .. Len(d)
  PROVE  /\ Append(SubSeq(d, 1, p - 1), d[p]) = SubSeq(d, 1, p)
         /\ Len(SubSeq(d, 1, p)) = p
         /\ SubSeq(d, 1, Len(d)) = d
         /\ SubSeq(d, 1, 0) = <<>>
<1>1. /\ SubSeq(d, 1, p) \in Seq(Segment) /\ Len(SubSeq(d, 1, p)) = p
      /\ \A i \in 1 .. p : SubSeq(d, 1, p)[i] = d[i]
  BY SubSeqProperties
<1>2. /\ SubSeq(d, 1, p - 1) \in Seq(Segment) /\ Len(SubSeq(d, 1, p - 1)) = p - 1
      /\ \A i \in 1 .. p - 1 : SubSeq(d, 1, p - 1)[i] = d[i]
  BY SubSeqProperties
<1>3. SubSeq(d, 1, Len(d)) = d
  OBVIOUS
<1>4. Append(SubSeq(d, 1, p - 1), d[p]) = SubSeq(d, 1, p)
  <2> DEFINE s == SubSeq(d, 1, p)
             t == SubSeq(d, 1, p - 1)
             a == Append(t, d[p])
  <2>1. d[p] \in Segment /\ p \in Nat
    OBVIOUS
  <2> HIDE DEF s, t
  <2>2. a \in Seq(Segment) /\ Len(a) = p /\ a[p] = d[p] /\ \A i \in 1 .. p - 1 : a[i] = t[i]
    BY <1>2, <2>1 DEF t
  <2> HIDE DEF a
  <2>3. \A i \in 1 .. p : a[i] = s[i]
    BY <1>1, <1>2, <2>1, <2>2 DEF s, t
  <2>4. a = s
    BY <1>1, <2>2, <2>3, SeqEqual DEF s
  <2> QED BY <2>4 DEF a, s, t
<1>5. SubSeq(d, 1, 0) = <<>>
  OBVIOUS
<1> QED BY <1>1, <1>3, <1>4, <1>5

\* Frames are lost or taken, and no frames follow but aborts.
Quiet ==
  /\ UNCHANGED cli
  /\ had \subseteq had' /\ written \subseteq written'
  /\ Passive
  /\ c2s' = c2s \/ (c2s # <<>> /\ c2s' = Tail(c2s))
  /\ s2c' = s2c \/ (s2c # <<>> /\ s2c' = Tail(s2c)) \/ s2c' = s2c \o <<Abort>>

LEMMA QuietFrames ==
  ASSUME FInv, Quiet
  PROVE  /\ Range(c2s') \subseteq Range(c2s) /\ Range(s2c') \subseteq Range(s2c) \cup {Abort}
         /\ Alternating => Alternating'
<1>1. c2s \in Seq(FromClient) /\ s2c \in Seq(FromServer) /\ Abort \in FromServer
  BY ServerFrames DEF FInv, Abort
<1>2. Range(c2s') \subseteq Range(c2s)
  BY <1>1, RangeOfTail DEF Quiet
<1>3. Range(s2c') \subseteq Range(s2c) \cup {Abort}
  <2>1. CASE s2c' = s2c
    BY <2>1
  <2>2. CASE s2c # <<>> /\ s2c' = Tail(s2c)
    BY <1>1, <2>2, RangeOfTail
  <2>3. CASE s2c' = s2c \o <<Abort>>
    <3>1. <<Abort>> \in Seq(FromServer) /\ Range(<<Abort>>) = {Abort}
      BY <1>1, RangeOfOne
    <3>2. Range(s2c \o <<Abort>>) = Range(s2c) \cup Range(<<Abort>>)
      BY <1>1, <3>1, RangeOfConcat
    <3> QED BY <2>3, <3>1, <3>2
  <2> QED BY <2>1, <2>2, <2>3 DEF Quiet
<1>4. ASSUME Alternating PROVE Alternating'
  <2>1. Len(c2s') <= 1 /\ (c2s' # <<>> => c2s # <<>>)
    <3>1. CASE c2s' = c2s
      BY <1>4, <3>1 DEF Alternating
    <3>2. CASE c2s # <<>> /\ c2s' = Tail(c2s)
      <4>1. Len(Tail(c2s)) = Len(c2s) - 1 /\ Len(c2s) \in Nat
        BY <1>1, <3>2, HeadTailProperties, LenProperties
      <4>2. Len(c2s) <= 1
        BY <1>4 DEF Alternating
      <4> QED BY <3>2, <4>1, <4>2
    <3> QED BY <3>1, <3>2 DEF Quiet
  <2>2. \A i, j \in DOMAIN s2c' : i # j => s2c'[i] = Abort \/ s2c'[j] = Abort
    <3>1. CASE s2c' = s2c
      BY <1>4, <3>1 DEF Alternating
    <3>2. CASE s2c # <<>> /\ s2c' = Tail(s2c)
      <4>1. /\ DOMAIN s2c' = 1 .. Len(s2c) - 1 /\ DOMAIN s2c = 1 .. Len(s2c)
            /\ Len(s2c) \in Nat /\ \A i \in 1 .. Len(s2c) - 1 : s2c'[i] = s2c[i + 1]
        BY <1>1, <3>2
      <4> SUFFICES ASSUME NEW i \in DOMAIN s2c', NEW j \in DOMAIN s2c', i # j
                   PROVE  s2c'[i] = Abort \/ s2c'[j] = Abort
        OBVIOUS
      <4>2. i + 1 \in DOMAIN s2c /\ j + 1 \in DOMAIN s2c /\ i + 1 # j + 1
        BY <4>1
      <4>3. s2c[i + 1] = Abort \/ s2c[j + 1] = Abort
        BY <1>4, <4>2 DEF Alternating
      <4> QED BY <4>1, <4>3
    <3>3. CASE s2c' = s2c \o <<Abort>>
      <4>1. /\ DOMAIN s2c' = 1 .. Len(s2c) + 1 /\ DOMAIN s2c = 1 .. Len(s2c)
            /\ Len(s2c) \in Nat /\ s2c'[Len(s2c) + 1] = Abort
            /\ \A i \in 1 .. Len(s2c) : s2c'[i] = s2c[i]
        BY <1>1, <3>3
      <4> SUFFICES ASSUME NEW i \in DOMAIN s2c', NEW j \in DOMAIN s2c', i # j
                   PROVE  s2c'[i] = Abort \/ s2c'[j] = Abort
        OBVIOUS
      <4>2. CASE i \in DOMAIN s2c /\ j \in DOMAIN s2c
        BY <1>4, <4>1, <4>2 DEF Alternating
      <4>3. CASE i \notin DOMAIN s2c \/ j \notin DOMAIN s2c
        BY <4>1, <4>3
      <4> QED BY <4>2, <4>3
    <3> QED BY <3>1, <3>2, <3>3 DEF Quiet
  <2>3. c2s' # <<>> => \A x \in Range(s2c') : x = Abort
    BY <1>3, <1>4, <2>1 DEF Alternating
  <2> QED BY <2>1, <2>2, <2>3 DEF Alternating
<1> QED BY <1>2, <1>3, <1>4

LEMMA QuietTransfer ==
  ASSUME FInv, Transfer, Quiet
  PROVE  Transfer'
<1>1. /\ cli' = cli /\ had \subseteq had' /\ written \subseteq written' /\ Passive
      /\ Range(c2s') \subseteq Range(c2s) /\ Range(s2c') \subseteq Range(s2c) \cup {Abort}
      /\ Alternating => Alternating'
  BY QuietFrames DEF Quiet
<1>2. Abort.k = "abort"
  BY DEF Abort
<1>3. CASE cli.st = "dn_ini"
  <2>1. InDnIni'
    BY <1>1, <1>2, <1>3 DEF Transfer, InDnIni, Passive, Taken
  <2> QED BY <1>1, <1>3, <2>1 DEF Transfer
<1>4. CASE cli.st = "dn_seg"
  <2>1. InDnSeg'
    BY <1>1, <1>2, <1>4 DEF Transfer, InDnSeg, Passive, Taken
  <2> QED BY <1>1, <1>4, <2>1 DEF Transfer
<1>5. CASE cli.st = "blk_dn_ini"
  <2>1. InBlkDnIni'
    BY <1>1, <1>2, <1>5 DEF Transfer, InBlkDnIni, Passive
  <2> QED BY <1>1, <1>5, <2>1 DEF Transfer
<1>6. CASE cli.st = "blk_dn_sub"
  <2>1. InBlkDnSub'
    BY <1>1, <1>2, <1>6 DEF Transfer, InBlkDnSub, Passive
  <2> QED BY <1>1, <1>6, <2>1 DEF Transfer
<1>7. CASE cli.st = "blk_dn_end"
  <2>1. InBlkDnEnd'
    BY <1>1, <1>2, <1>7 DEF Transfer, InBlkDnEnd, Passive
  <2> QED BY <1>1, <1>7, <2>1 DEF Transfer
<1>8. CASE cli.st \in {"up_ini", "blk_up_ini"}
  <2>1. InUpIni'
    BY <1>1, <1>2, <1>8 DEF Transfer, InUpIni, Passive, Given
  <2> QED BY <1>1, <1>8, <2>1 DEF Transfer
<1>9. CASE cli.st = "up_seg"
  <2>1. InUpSeg
    BY <1>9 DEF Transfer
  <2>2. PICK d \in had : Receiving(d)
    BY <2>1 DEF InUpSeg
  <2>3. Receiving(d)'
    BY <1>1, <1>2, <2>2 DEF Receiving, Passive, Given
  <2>4. InUpSeg'
    BY <1>1, <2>1, <2>3 DEF InUpSeg
  <2> QED BY <1>1, <1>9, <2>4 DEF Transfer
<1>10. CASE cli.st \in {"blk_up_sub", "blk_up_end"}
  <2>1. InBlkUp'
    BY <1>1, <1>2, <1>10 DEF Transfer, InBlkUp, Passive
  <2> QED BY <1>1, <1>10, <2>1 DEF Transfer
<1>11. CASE cli.st = "wait"
  BY <1>1, <1>11 DEF Transfer
<1> QED BY <1>3, <1>4, <1>5, <1>6, <1>7, <1>8, <1>9, <1>10, <1>11
        DEF FInv, ClientFits, Within, ClientState

LEMMA IgnoredQuiet ==
  ASSUME FInv, c2s # <<>>, Ignored
  PROVE  Quiet
<1>1. s2c \in Seq(FromServer)
  BY DEF FInv
<1>2. s2c \o <<>> = s2c
  BY <1>1
<1> QED BY <1>2 DEF Ignored, Answers, Keep, Quiet

LEMMA StoreGrows == ASSUME NEW d, Store(d) PROVE written' = written \cup {d}
BY DEF Store

\* A frame that was handled before the answer x to it left.
LEMMA AnsweredFrames ==
  ASSUME FInv, c2s # <<>>, NEW tx \in Seq(FromServer), Answers(tx)
  PROVE  /\ cli' = cli
         /\ Head(c2s) \in Range(c2s) /\ Range(c2s') \subseteq Range(c2s)
         /\ Range(s2c') = Range(s2c) \cup Range(tx)
<1>1. c2s \in Seq(FromClient) /\ s2c \in Seq(FromServer)
  BY DEF FInv
<1>2. Range(s2c \o tx) = Range(s2c) \cup Range(tx)
  BY <1>1, RangeOfConcat
<1> QED BY <1>1, <1>2, RangeOfTail DEF Answers

LEMMA AnsweredOne ==
  ASSUME FInv, c2s # <<>>, NEW x \in FromServer, Answers(<<x>>)
  PROVE  /\ cli' = cli
         /\ Head(c2s) \in Range(c2s) /\ Range(c2s') \subseteq Range(c2s)
         /\ Range(s2c') = Range(s2c) \cup {x}
         /\ Alternating => /\ Alternating' /\ Range(c2s') = {}
                           /\ \A y \in Range(s2c') : y = Abort \/ y = x
<1>1. <<x>> \in Seq(FromServer) /\ Range(<<x>>) = {x}
  BY RangeOfOne
<1>2. Alternating => /\ Alternating' /\ c2s' = <<>>
                     /\ \A y \in Range(s2c') : y = Abort \/ y = x
  BY Answered DEF Answers
<1> QED BY <1>1, <1>2, AnsweredFrames, RangeOfOne

LEMMA DnIniReacts ==
  ASSUME FInv, c2s # <<>>, InDnIni, Reaction(Head(c2s)), ~Ignored
  PROVE  InDnIni'
<1> DEFINE m == Head(c2s)
<1>1. /\ m \in Range(c2s) /\ Alternating /\ Abort.k = "abort"
      /\ cli.value \in Seq(Segment) /\ Len(cli.value) \in Nat
  BY AnsweredFrames, RangeOfTail DEF FInv, InDnIni, Abort, ClientFits, Within, ClientState
<1>2. /\ m = IF cli.pos = 0 THEN [k |-> "dn_ini", size |-> Len(cli.value)]
             ELSE [k |-> "dn_exp", data |-> cli.value]
      /\ cli.op = "dn" /\ cli.toggle = 0 /\ cli.pos \in {0, Len(cli.value)}
  BY <1>1 DEF InDnIni
<1>3. Reaction(m)
  OBVIOUS
<1> HIDE DEF m
<1>4. CASE Acknowledged
  <2>1. PICK x \in FromServer : x.k = "blk_dn_res" /\ Answers(<<x>>)
    BY <1>4 DEF Acknowledged
  <2> QED BY <1>1, <1>2, <2>1, AnsweredOne DEF InDnIni
<1>5. CASE Downloaded(m)
  <2> DEFINE x == [k |-> "dn_ini_res"]
  <2>1. x \in FromServer /\ Answers(<<x>>) /\ x.k = "dn_ini_res" /\ Store(m.data)
    BY <1>5, ServerFrames DEF Downloaded
  <2> HIDE DEF x
  <2>2. cli.pos # 0 /\ cli.value \in written'
    BY <1>2, <1>5, <2>1, StoreGrows DEF Downloaded
  <2> QED BY <1>1, <1>2, <2>1, <2>2, AnsweredOne DEF InDnIni
<1>6. CASE DownloadBegun(m)
  <2> DEFINE x == [k |-> "dn_ini_res"]
  <2>1. x \in FromServer /\ Answers(<<x>>) /\ x.k = "dn_ini_res"
    BY <1>6, ServerFrames DEF DownloadBegun
  <2>2. cli.pos = 0 /\ srv'.size = Len(cli.value)
    BY <1>2, <1>6 DEF DownloadBegun
  <2>3. SubSeq(cli.value, 1, 0) = <<>>
    BY <1>1
  <2>4. cli' = cli
    BY <2>1 DEF Answers
  <2>5. Taken(0, 0)'
    BY <1>6, <2>2, <2>3, <2>4 DEF Taken, DownloadBegun
  <2> HIDE DEF x
  <2> QED BY <1>1, <1>2, <2>1, <2>2, <2>5, AnsweredOne DEF InDnIni
<1> QED
  BY <1>2, <1>3, <1>4, <1>5, <1>6
  DEF Reaction, BlkDownloadBegun, SegmentTaken, BlkDownloaded, Uploaded, UploadBegun,
      BlkUploadBegun, SegmentGiven, BlockGiven, BlkUploaded

LEMMA DnSegReacts ==
  ASSUME FInv, c2s # <<>>, InDnSeg, Reaction(Head(c2s)), ~Ignored
  PROVE  InDnSeg'
<1> DEFINE m == Head(c2s)
<1>1. /\ m \in Range(c2s) /\ Alternating /\ Abort.k = "abort"
      /\ cli.value \in Seq(Segment) /\ Len(cli.value) \in Nat
      /\ cli.pos \in Nat /\ cli.pos <= Len(cli.value) /\ cli.toggle \in 0 .. 1
      /\ cli.pos > 0 /\ cli.op = "dn"
  BY AnsweredFrames, RangeOfTail DEF FInv, InDnSeg, Abort, ClientFits, Within, ClientState
<1>2. /\ m.k = "dn_seg" /\ m.toggle = Flip(cli.toggle)
      /\ m.data = cli.value[cli.pos] /\ m.last = (cli.pos = Len(cli.value))
      /\ srv.st = "dn_seg" => Taken(cli.pos - 1, Flip(cli.toggle))
  BY <1>1 DEF InDnSeg
<1>3. Reaction(m)
  OBVIOUS
<1> HIDE DEF m
<1>4. CASE Acknowledged
  <2>1. PICK x \in FromServer : x.k = "blk_dn_res" /\ Answers(<<x>>)
    BY <1>4 DEF Acknowledged
  <2> QED BY <1>1, <2>1, AnsweredOne DEF InDnSeg
<1>5. CASE SegmentTaken(m)
  <2> DEFINE x == [k |-> "dn_seg_res", toggle |-> srv.toggle]
             data == Append(srv.data, m.data)
             all == SubSeq(cli.value, 1, cli.pos)
  <2>1. /\ x \in FromServer /\ Answers(<<x>>) /\ x.k = "dn_seg_res"
        /\ srv.st = "dn_seg"
    BY <1>5, ServerFrames DEF SegmentTaken, FInv, ServerFits, ServerState
  <2>2. Taken(cli.pos - 1, Flip(cli.toggle))
    BY <1>2, <2>1
  <2>3. cli.pos \in 1 .. Len(cli.value)
    BY <1>1
  <2>4. data = all /\ Len(all) = cli.pos /\ srv.size = Len(cli.value)
        /\ SubSeq(cli.value, 1, Len(cli.value)) = cli.value
    BY <1>1, <1>2, <2>2, <2>3, Prefix DEF Taken
  <2>5. cli.pos = Len(cli.value) => cli.value \in written'
    BY <1>5, <2>4, StoreGrows DEF SegmentTaken
  <2>6. Flip(srv.toggle) = cli.toggle
    BY <1>1, <2>2 DEF Taken, Flip
  <2>7. cli' = cli
    BY <2>1 DEF Answers
  <2>8. srv'.st = "dn_seg" => Taken(cli.pos, cli.toggle)'
    BY <1>5, <2>4, <2>6, <2>7 DEF Taken, SegmentTaken
  <2> HIDE DEF x, data, all
  <2> QED BY <1>1, <2>1, <2>5, <2>8, AnsweredOne DEF InDnSeg
<1> QED
  BY <1>2, <1>3, <1>4, <1>5
  DEF Reaction, Downloaded, DownloadBegun, BlkDownloadBegun, BlkDownloaded, Uploaded,
      UploadBegun, BlkUploadBegun, SegmentGiven, BlockGiven, BlkUploaded

LEMMA BlkDnIniReacts ==
  ASSUME FInv, c2s # <<>>, InBlkDnIni, Reaction(Head(c2s)), ~Ignored
  PROVE  InBlkDnIni'
<1> DEFINE m == Head(c2s)
<1>1. m \in Range(c2s) /\ Alternating /\ Abort.k = "abort" /\ m.k = "blk_dn_ini"
  BY RangeOfTail DEF FInv, InBlkDnIni, Abort
<1>2. Reaction(m)
  OBVIOUS
<1> HIDE DEF m
<1>3. CASE Acknowledged
  <2>1. PICK x \in FromServer : x.k = "blk_dn_res" /\ Answers(<<x>>)
    BY <1>3 DEF Acknowledged
  <2> QED BY <1>1, <2>1, AnsweredOne DEF InBlkDnIni
<1>4. CASE BlkDownloadBegun(m)
  <2>1. PICK x \in FromServer : x.k = "blk_dn_ini_res" /\ Answers(<<x>>)
    BY <1>4 DEF BlkDownloadBegun
  <2>2. srv'.st # "dn_seg"
    BY <1>4 DEF BlkDownloadBegun
  <2> QED BY <1>1, <2>1, <2>2, AnsweredOne DEF InBlkDnIni
<1> QED
  BY <1>1, <1>2, <1>3, <1>4
  DEF Reaction, Downloaded, DownloadBegun, SegmentTaken, BlkDownloaded, Uploaded,
      UploadBegun, BlkUploadBegun, SegmentGiven, BlockGiven, BlkUploaded

LEMMA BlkDnReacts ==
  ASSUME FInv, c2s # <<>>, Reaction(Head(c2s)), ~Ignored
  PROVE  (InBlkDnSub => InBlkDnSub') /\ (InBlkDnEnd => InBlkDnEnd')
<1> SUFFICES ASSUME InBlkDnSub \/ InBlkDnEnd
             PROVE  (InBlkDnSub => InBlkDnSub') /\ (InBlkDnEnd => InBlkDnEnd')
  OBVIOUS
<1> DEFINE m == Head(c2s)
<1>1. m \in Range(c2s)
  BY RangeOfTail DEF FInv
<1>2. /\ srv.st # "dn_seg"
      /\ InBlkDnSub => m.k = "seg"
      /\ InBlkDnEnd => m.k = "seg" \/ m = [k |-> "blk_dn_end", crc |-> cli.value]
  BY <1>1 DEF InBlkDnSub, InBlkDnEnd
<1>3. Reaction(m)
  OBVIOUS
<1> HIDE DEF m
<1>4. CASE Acknowledged
  <2>1. PICK x \in FromServer : x.k = "blk_dn_res" /\ Answers(<<x>>)
    BY <1>4 DEF Acknowledged
  <2>2. /\ cli' = cli /\ Range(c2s') \subseteq Range(c2s)
        /\ Range(s2c') = Range(s2c) \cup {x}
    BY <2>1, AnsweredOne
  <2>3. srv'.st # "dn_seg" /\ written' = written
    BY <1>4 DEF Acknowledged, Keep
  <2> QED BY <2>1, <2>2, <2>3 DEF InBlkDnSub, InBlkDnEnd
<1>5. CASE BlkDownloaded(m)
  <2> DEFINE x == [k |-> "blk_dn_end_res"]
  <2>1. x \in FromServer /\ Answers(<<x>>) /\ x.k = "blk_dn_end_res"
    BY <1>5, ServerFrames DEF BlkDownloaded
  <2>2. /\ cli' = cli /\ Range(c2s') \subseteq Range(c2s)
        /\ Range(s2c') = Range(s2c) \cup {x}
    BY <2>1, AnsweredOne
  <2>3. ~InBlkDnSub /\ m.crc = cli.value
    BY <1>2, <1>5 DEF BlkDownloaded
  <2>4. srv'.st # "dn_seg" /\ cli.value \in written'
    BY <1>5, <2>3, StoreGrows DEF BlkDownloaded
  <2> HIDE DEF x
  <2> QED BY <2>1, <2>2, <2>3, <2>4 DEF InBlkDnEnd
<1>6. m.k \in {"seg", "blk_dn_end"}
  BY <1>2
<1> QED
  BY <1>2, <1>3, <1>4, <1>5, <1>6
  DEF Reaction, Downloaded, DownloadBegun, BlkDownloadBegun, SegmentTaken, Uploaded,
      UploadBegun, BlkUploadBegun, SegmentGiven, BlockGiven, BlkUploaded

LEMMA UpIniReacts ==
  ASSUME FInv, c2s # <<>>, cli.st \in {"up_ini", "blk_up_ini"}, object \in had,
         InUpIni, Reaction(Head(c2s)), ~Ignored
  PROVE  InUpIni'
<1> DEFINE m == Head(c2s)
<1>1. /\ m \in Range(c2s) /\ Alternating /\ Abort.k = "abort" /\ m.k = cli.st
      /\ cli.op = "up" /\ cli.toggle = 0
      /\ object \in Seq(Segment) /\ Len(object) \in 1 .. 15
  BY RangeOfTail, ValLen DEF FInv, InUpIni, Abort
<1>2. Reaction(m)
  OBVIOUS
<1> HIDE DEF m
<1>3. CASE Acknowledged
  <2>1. PICK x \in FromServer : x.k = "blk_dn_res" /\ Answers(<<x>>)
    BY <1>3 DEF Acknowledged
  <2> QED BY <1>1, <2>1, AnsweredOne DEF InUpIni
<1>4. CASE Uploaded(m)
  <2> DEFINE x == [k |-> "up_exp", data |-> object]
  <2>1. /\ x \in FromServer /\ Answers(<<x>>) /\ x.k = "up_exp" /\ x.data = object
        /\ had' = had
    BY <1>1, <1>4, ServerFrames DEF Uploaded, Keep
  <2> HIDE DEF x
  <2> QED BY <1>1, <2>1, AnsweredOne DEF InUpIni
<1>5. CASE UploadBegun(m)
  <2> DEFINE x == [k |-> "up_ini_res", size |-> Len(object)]
  <2>1. /\ x \in FromServer /\ Answers(<<x>>) /\ x.k = "up_ini_res"
        /\ x.size = Len(object) /\ had' = had
    BY <1>1, <1>5, ServerFrames DEF UploadBegun, Keep
  <2>2. Given(object, 0, 0)'
    BY <1>5 DEF UploadBegun, Given, Keep
  <2> HIDE DEF x
  <2>3. object' = object
    BY <1>5 DEF UploadBegun, Keep
  <2> QED BY <1>1, <2>1, <2>2, <2>3, AnsweredOne DEF InUpIni
<1>6. CASE BlkUploadBegun(m)
  <2> DEFINE x == [k |-> "blk_up_ini_res", size |-> Len(object)]
  <2>1. /\ x \in FromServer /\ Answers(<<x>>) /\ x.k = "blk_up_ini_res"
        /\ had' = had /\ srv'.value \in had'
    BY <1>1, <1>6, ServerFrames DEF BlkUploadBegun, Keep
  <2> HIDE DEF x
  <2> QED BY <1>1, <2>1, AnsweredOne DEF InUpIni
<1> QED
  BY <1>1, <1>2, <1>3, <1>4, <1>5, <1>6
  DEF Reaction, Downloaded, DownloadBegun, BlkDownloadBegun, SegmentTaken,
      BlkDownloaded, SegmentGiven, BlockGiven, BlkUploaded

LEMMA UpSegReacts ==
  ASSUME FInv, c2s # <<>>, InUpSeg, Reaction(Head(c2s)), ~Ignored
  PROVE  InUpSeg'
<1> DEFINE m == Head(c2s)
           b == Len(cli.buf)
<1>1. /\ m \in Range(c2s) /\ Alternating /\ Abort.k = "abort" /\ cli.op = "up"
      /\ cli.toggle \in 0 .. 1
  BY RangeOfTail DEF FInv, InUpSeg, Abort, ClientFits, Within, ClientState
<1>2. PICK d \in had : Receiving(d)
  BY DEF InUpSeg
<1>3. /\ m.k = "up_seg" /\ m.toggle = Flip(cli.toggle)
      /\ srv.st = "up_seg" => Given(d, b, Flip(cli.toggle))
      /\ cli.size = Len(d) /\ b < Len(d) /\ cli.buf = SubSeq(d, 1, b)
  BY <1>1, <1>2 DEF Receiving
<1>4. Reaction(m)
  OBVIOUS
<1> HIDE DEF m
<1>5. CASE Acknowledged
  <2>1. PICK x \in FromServer : x.k = "blk_dn_res" /\ Answers(<<x>>)
    BY <1>5 DEF Acknowledged
  <2>2. had' = had
    BY <1>5 DEF Acknowledged, Keep
  <2>3. Receiving(d)'
    BY <1>1, <1>3, <2>1, AnsweredOne DEF Receiving
  <2> QED BY <1>1, <2>1, <2>2, <2>3, AnsweredOne DEF InUpSeg
<1>6. CASE SegmentGiven(m)
  <2> DEFINE x == [k |-> "up_seg_res", toggle |-> srv.toggle,
                   data |-> srv.value[srv.pos + 1],
                   last |-> srv.pos + 1 = Len(srv.value)]
  <2>1. Answers(<<x>>) /\ had' = had /\ srv.st = "up_seg"
    BY <1>6 DEF SegmentGiven, Keep
  <2>2. Given(d, b, Flip(cli.toggle))
    BY <1>3, <2>1
  <2>3. x \in FromServer
    <3>1. /\ srv.toggle \in 0 .. 1 /\ srv.value \in Val /\ srv.pos \in Nat
          /\ srv.pos < Len(srv.value)
      BY <2>1 DEF FInv, ServerFits, ServerState
    <3>2. srv.value[srv.pos + 1] \in Segment
      BY <3>1, ValLen
    <3> QED BY <3>1, <3>2, ServerFrames
  <2>4. /\ x.k = "up_seg_res" /\ x.toggle = Flip(cli.toggle) /\ x.data = d[b + 1]
        /\ x.last = (b + 1 = Len(d))
    BY <2>2 DEF Given
  <2>5. Flip(srv.toggle) = cli.toggle
    BY <1>1, <2>2 DEF Given, Flip
  <2>6. cli' = cli
    BY <2>1 DEF Answers
  <2>7. srv'.st = "up_seg" => Given(d, b + 1, cli.toggle)'
    BY <1>6, <2>2, <2>5, <2>6 DEF Given, SegmentGiven
  <2> HIDE DEF x
  <2>8. Receiving(d)'
    BY <1>1, <1>3, <2>1, <2>3, <2>4, <2>6, <2>7, AnsweredOne DEF Receiving
  <2> QED BY <1>1, <2>1, <2>3, <2>6, <2>8, AnsweredOne DEF InUpSeg
<1> QED
  BY <1>3, <1>4, <1>5, <1>6
  DEF Reaction, Downloaded, DownloadBegun, BlkDownloadBegun, SegmentTaken,
      BlkDownloaded, Uploaded, UploadBegun, BlkUploadBegun, BlockGiven, BlkUploaded

LEMMA BlkUpReacts ==
  ASSUME FInv, c2s # <<>>, InBlkUp, Reaction(Head(c2s)), ~Ignored
  PROVE  InBlkUp'
<1> DEFINE m == Head(c2s)
<1>1. m \in Range(c2s) /\ m.k \in {"blk_up_start", "blk_up_res"}
  BY RangeOfTail DEF FInv, InBlkUp
<1>2. Reaction(m)
  OBVIOUS
<1> HIDE DEF m
<1>3. CASE Acknowledged
  <2>1. PICK x \in FromServer : x.k = "blk_dn_res" /\ Answers(<<x>>)
    BY <1>3 DEF Acknowledged
  <2>2. /\ cli' = cli /\ Range(c2s') \subseteq Range(c2s)
        /\ Range(s2c') = Range(s2c) \cup {x}
    BY <2>1, AnsweredOne
  <2> QED BY <1>3, <2>1, <2>2 DEF InBlkUp, Acknowledged, Keep
<1>4. CASE BlockGiven(m)
  <2>1. PICK tx \in Seq(FromServer) : Answers(tx) /\ \A x \in Range(tx) : x.k = "seg"
    BY <1>4 DEF BlockGiven
  <2>2. /\ cli' = cli /\ Range(c2s') \subseteq Range(c2s)
        /\ Range(s2c') = Range(s2c) \cup Range(tx)
    BY <2>1, AnsweredFrames
  <2> QED BY <1>4, <2>1, <2>2 DEF InBlkUp, BlockGiven, Keep
<1>5. CASE BlkUploaded(m)
  <2> DEFINE x == [k |-> "blk_up_end_res", crc |-> srv.value]
  <2>1. x \in FromServer
    BY <1>5, ServerFrames DEF BlkUploaded, FInv, ServerFits, ServerState
  <2>2. Answers(<<x>>) /\ srv.value \in had /\ x.crc = srv.value
    BY <1>5 DEF BlkUploaded, InBlkUp
  <2> HIDE DEF x
  <2>3. /\ cli' = cli /\ Range(c2s') \subseteq Range(c2s)
        /\ Range(s2c') = Range(s2c) \cup {x}
    BY <2>1, <2>2, AnsweredOne
  <2> QED BY <1>5, <2>2, <2>3 DEF InBlkUp, BlkUploaded, Keep
<1> QED
  BY <1>1, <1>2, <1>3, <1>4, <1>5
  DEF Reaction, Downloaded, DownloadBegun, BlkDownloadBegun, SegmentTaken,
      BlkDownloaded, Uploaded, UploadBegun, BlkUploadBegun, SegmentGiven

\* What a step of anybody but the client does to what the client was told.
LEMMA ToldStays ==
  ASSUME ConfirmedMeansStored, UploadIsAValue, cli' = cli, stale' = stale,
         had \subseteq had', written \subseteq written'
  PROVE  ConfirmedMeansStored' /\ UploadIsAValue'
BY DEF ConfirmedMeansStored, UploadIsAValue

LEMMA ReactionKeeps ==
  ASSUME NEW m, Reaction(m), object \in had
  PROVE  /\ cli' = cli /\ stale' = stale /\ mixed' = mixed
         /\ had \subseteq had' /\ written \subseteq written' /\ object' \in had'
BY DEF Reaction, Ignored, Acknowledged, Downloaded, DownloadBegun, BlkDownloadBegun,
       SegmentTaken, BlkDownloaded, Uploaded, UploadBegun, BlkUploadBegun,
       SegmentGiven, BlockGiven, BlkUploaded, Answers, Keep, Store

LEMMA ServerKeepsSession ==
  ASSUME FInv, SessionInv, ServerReceive
  PROVE  SessionInv'
<1>1. c2s # <<>> /\ Reaction(Head(c2s))
  BY ServerReacts
<1>2. /\ cli' = cli /\ stale' = stale /\ object' \in had'
      /\ had \subseteq had' /\ written \subseteq written'
  BY <1>1, ReactionKeeps DEF SessionInv
<1>3. ConfirmedMeansStored' /\ UploadIsAValue'
  BY <1>2, ToldStays DEF SessionInv
<1>4. ASSUME cli.st # "wait", ~stale PROVE Transfer'
  <2>1. Transfer /\ object \in had
    BY <1>4 DEF SessionInv
  <2>2. CASE Ignored
    BY <1>1, <2>1, <2>2, IgnoredQuiet, QuietTransfer
  <2>3. CASE ~Ignored
    BY <1>1, <1>2, <1>4, <2>1, <2>3, DnIniReacts, DnSegReacts, BlkDnIniReacts,
       BlkDnReacts, UpIniReacts, UpSegReacts, BlkUpReacts
    DEF Transfer
  <2> QED BY <2>2, <2>3
<1> QED BY <1>2, <1>3, <1>4 DEF SessionInv

-----------------------------------------------------------------------------
(* A transfer and the client                                               *)

\* The client's transfer ends with the result that it is told.
LEMMA EndKeeps ==
  ASSUME FInv, SessionInv, NEW c \in ClientState, NEW result, NEW tx,
         Reply(Ended(c, result), tx),
         result = "ok" /\ ~stale =>
           /\ c.op = "dn" => c.value \in written
           /\ c.op = "up" => c.buf \in had
  PROVE  SessionInv'
<1> DEFINE e == Ended(c, result)
<1>1. /\ e.st = "wait" /\ e.result = result /\ e.op = c.op /\ e.value = c.value
      /\ e.buf = c.buf
  BY DEF Ended, ClientState
<1>2. /\ cli' = e /\ had' = had /\ written' = written /\ stale' = stale
      /\ object' = object
  BY DEF Reply, history
<1> HIDE DEF e
<1> QED BY <1>1, <1>2 DEF SessionInv, ConfirmedMeansStored, UploadIsAValue

\* Its transfer goes on.
LEMMA GoesOn ==
  ASSUME FInv, SessionInv, NEW c, NEW tx, Reply(c, tx), c.result = "none",
         ~stale => Transfer'
  PROVE  SessionInv'
<1>1. /\ cli' = c /\ had' = had /\ written' = written /\ stale' = stale
      /\ object' = object
  BY DEF Reply, history
<1> QED BY <1>1 DEF SessionInv, ConfirmedMeansStored, UploadIsAValue

LEMMA AbortKeeps ==
  ASSUME FInv, SessionInv, AbortReq \/ AbortInd
  PROVE  SessionInv'
<1>1. cli \in ClientState
  BY DEF FInv, ClientFits, Within
<1> QED BY <1>1, EndKeeps DEF AbortReq, AbortInd

LEMMA RepliedOne ==
  ASSUME FInv, s2c # <<>>, NEW c, NEW x \in FromClient, Reply(c, <<x>>)
  PROVE  /\ cli' = c /\ UNCHANGED <<srv, had, written, stale>>
         /\ Head(s2c) \in Range(s2c) /\ Range(s2c') \subseteq Range(s2c)
         /\ Range(c2s') = Range(c2s) \cup {x}
         /\ Alternating /\ Head(s2c) # Abort =>
              /\ Alternating' /\ Range(c2s') = {x}
              /\ \A y \in Range(s2c') : y = Abort
<1>1. /\ c2s \in Seq(FromClient) /\ s2c \in Seq(FromServer)
      /\ <<x>> \in Seq(FromClient) /\ Range(<<x>>) = {x}
  BY RangeOfOne DEF FInv
<1>2. Range(c2s \o <<x>>) = Range(c2s) \cup Range(<<x>>)
  BY <1>1, RangeOfConcat
<1>3. /\ cli' = c /\ UNCHANGED <<srv, had, written, stale>>
      /\ s2c' = Tail(s2c) /\ c2s' = c2s \o <<x>>
  BY DEF Reply, history
<1>4. ASSUME Alternating, Head(s2c) # Abort
      PROVE  /\ Alternating' /\ c2s' = <<x>>
             /\ \A y \in Range(s2c') : y = Abort
  <2>1. c2s = <<>>
    BY <1>3, <1>4, Asked
  <2>2. c2s' = <<x>> /\ Len(c2s') <= 1
    BY <1>3, <2>1
  <2> QED BY <1>3, <1>4, <2>2, Asked
<1>5. Range(s2c) = {Head(s2c)} \cup Range(Tail(s2c))
  BY <1>1, RangeOfTail
<1> QED BY <1>1, <1>2, <1>3, <1>4, <1>5

LEMMA EnterDnSegKeeps ==
  ASSUME FInv, SessionInv, s2c # <<>>, Head(s2c) # Abort, cli.st # "wait",
         EnterDnSeg(cli),
         ~stale => /\ Alternating /\ cli.op = "dn"
                   /\ cli.pos = Len(cli.value) => cli.value \in written
                   /\ cli.pos # Len(cli.value) /\ srv.st = "dn_seg" =>
                        Taken(cli.pos, cli.toggle)
  PROVE  SessionInv'
<1>1. /\ cli \in ClientState /\ cli.result = "none" /\ cli.pos \in Nat
      /\ cli.toggle \in 0 .. 1 /\ cli.value \in Seq(Segment) /\ Len(cli.value) \in Nat
      /\ cli.pos <= Len(cli.value)
  BY DEF FInv, ClientFits, Within, SessionInv, ClientState
<1>2. CASE cli.pos = Len(cli.value)
  <2>1. Reply(Ended(cli, "ok"), <<>>)
    BY <1>2 DEF EnterDnSeg, Succeed
  <2> QED BY <1>1, <1>2, <2>1, EndKeeps
<1>3. CASE cli.pos # Len(cli.value)
  <2> DEFINE last == cli.pos + 1 = Len(cli.value)
             c == [cli EXCEPT !.st = "dn_seg", !.pos = @ + 1, !.toggle = Flip(@)]
             x == [k |-> "dn_seg", toggle |-> cli.toggle,
                   data |-> cli.value[cli.pos + 1], last |-> last]
  <2>1. Reply(c, <<x>>)
    BY <1>3 DEF EnterDnSeg
  <2>2. /\ c.st = "dn_seg" /\ c.pos = cli.pos + 1 /\ c.toggle = Flip(cli.toggle)
        /\ c.op = cli.op /\ c.value = cli.value /\ c.result = cli.result
    BY <1>1 DEF ClientState
  <2>3. x \in FromClient
    <3>1. cli.pos + 1 \in 1 .. Len(cli.value)
      BY <1>1, <1>3
    <3>2. cli.value[cli.pos + 1] \in Segment /\ last \in BOOLEAN
      BY <1>1, <3>1
    <3> QED BY <1>1, <3>2, ClientFrames
  <2>4. Flip(c.toggle) = cli.toggle /\ c.pos - 1 = cli.pos /\ c.pos > 0
    BY <1>1, <2>2 DEF Flip
  <2>5. x = [k |-> "dn_seg", toggle |-> Flip(c.toggle), data |-> c.value[c.pos],
             last |-> c.pos = Len(c.value)]
    BY <2>2, <2>4
  <2>6. cli' = c /\ UNCHANGED <<srv, had, written, stale>>
    BY <2>1 DEF Reply, history
  <2> HIDE DEF c, x
  <2>7. ASSUME ~stale PROVE Transfer'
    <3>1. /\ Alternating' /\ Range(c2s') = {x}
          /\ \A y \in Range(s2c') : y = Abort
      BY <2>1, <2>3, <2>7, RepliedOne
    <3>2. srv'.st = "dn_seg" => Taken(cli.pos - 1, Flip(cli.toggle))'
      BY <1>3, <2>2, <2>4, <2>6, <2>7 DEF Taken
    <3>3. Abort.k = "abort"
      BY DEF Abort
    <3>4. InDnSeg'
      BY <2>2, <2>4, <2>5, <2>6, <2>7, <3>1, <3>2, <3>3 DEF InDnSeg
    <3> QED BY <2>2, <2>6, <3>4 DEF Transfer
  <2> QED BY <1>1, <2>1, <2>2, <2>7, GoesOn
<1> QED BY <1>2, <1>3

LEMMA EnterBlkDnSubKeeps ==
  ASSUME FInv, SessionInv, s2c # <<>>, cli.st # "wait",
         NEW c, Within(c), c.value = cli.value, c.result = cli.result,
         c.op = cli.op, NEW blksize \in Seqno, EnterBlkDnSub(c, blksize),
         ~stale => /\ cli.op = "dn" /\ srv.st # "dn_seg"
                   /\ \A m \in Range(c2s) : m.k = "seg"
                   /\ \A m \in Range(Tail(s2c)) : m.k # "blk_dn_end_res"
  PROVE  SessionInv'
<1> DEFINE left == Len(c.value) - c.pos
           n    == IF left < blksize THEN left ELSE blksize
           r    == [c EXCEPT !.st = "blk_dn_sub", !.blksize = n, !.pos = @ + n]
           end  == [c EXCEPT !.st = "blk_dn_end", !.blksize = 0]
           tx   == Block(c.value, c.pos, n, n = left)
           crc  == <<[k |-> "blk_dn_end", crc |-> c.value]>>
<1>1. /\ c \in ClientState /\ cli.result = "none" /\ c.pos \in Nat
      /\ c.value \in Seq(Segment) /\ Len(c.value) \in Nat /\ c.pos <= Len(c.value)
      /\ c2s \in Seq(FromClient)
  BY DEF FInv, Within, SessionInv, ClientState
<1>2. CASE AbortReq
  BY <1>2, AbortKeeps
<1>3. CASE Reply(r, tx)
  <2>1. /\ n \in Nat /\ n \in Seqno
        /\ c.pos + n \in Nat /\ c.pos + n <= Len(c.value) /\ n <= c.pos + n
    <3>1. blksize \in 0 .. 127 /\ left \in Nat /\ c.pos + left = Len(c.value)
      BY <1>1 DEF Seqno
    <3> HIDE DEF left
    <3>2. n \in 0 .. 127 /\ n <= left
      BY <3>1
    <3> HIDE DEF n
    <3> QED BY <1>1, <3>1, <3>2 DEF Seqno
  <2>2. tx \in Seq(FromClient)
    <3>1. (n = left) \in BOOLEAN
      OBVIOUS
    <3> HIDE DEF n, left
    <3> QED BY <1>1, <2>1, <3>1, BlockType
  <2>3. r.st = "blk_dn_sub" /\ r.op = c.op /\ r.result = c.result
    BY <1>1 DEF ClientState
  <2> HIDE DEF n, left
  <2>4. \A x \in Range(tx) : x.k = "seg"
    BY <2>1 DEF Block, Range
  <2> HIDE DEF tx, r
  <2>5. Range(c2s \o tx) = Range(c2s) \cup Range(tx)
    BY <1>1, <2>2, RangeOfConcat
  <2>6. ASSUME ~stale PROVE Transfer'
    <3>1. InBlkDnSub'
      BY <1>3, <2>3, <2>4, <2>5, <2>6 DEF InBlkDnSub, Reply
    <3> QED BY <1>3, <2>3, <3>1 DEF Transfer, Reply
  <2> QED BY <1>1, <1>3, <2>3, <2>6, GoesOn
<1>4. CASE Reply(end, crc)
  <2> DEFINE x == [k |-> "blk_dn_end", crc |-> c.value]
  <2>1. /\ end.st = "blk_dn_end" /\ end.op = c.op /\ end.result = c.result
        /\ end.value = c.value
    BY <1>1 DEF ClientState
  <2>2. x \in FromClient /\ crc = <<x>>
    BY <1>1, ClientFrames
  <2>3. Reply(end, <<x>>)
    BY <1>4
  <2>4. x = [k |-> "blk_dn_end", crc |-> end.value]
    BY <2>1
  <2> HIDE DEF end, crc, x
  <2>5. /\ cli' = end /\ UNCHANGED <<srv, had, written, stale>>
        /\ Range(c2s') = Range(c2s) \cup {x} /\ s2c' = Tail(s2c)
    BY <2>2, <2>3, RepliedOne DEF Reply
  <2>6. ASSUME ~stale PROVE Transfer'
    <3>1. InBlkDnEnd'
      BY <2>1, <2>4, <2>5, <2>6 DEF InBlkDnEnd
    <3> QED BY <2>1, <2>5, <3>1 DEF Transfer
  <2> QED BY <1>1, <2>1, <2>3, <2>6, GoesOn
<1> QED BY <1>2, <1>3, <1>4 DEF EnterBlkDnSub

LEMMA ClientDownKeeps ==
  ASSUME FInv, SessionInv, s2c # <<>>, NEW m, m = Head(s2c), ~IsAbort(m),
         ClientDown(m)
  PROVE  SessionInv'
<1>1. /\ cli \in ClientState /\ m \in FromServer /\ m \in Range(s2c) /\ m # Abort
      /\ Range(Tail(s2c)) \subseteq Range(s2c) /\ Within(cli)
  BY RangeOfTail DEF FInv, ClientFits, Within, IsAbort, Abort
<1>2. CASE AbortReq
  BY <1>2, AbortKeeps
<1>3. CASE cli.st = "dn_ini" /\ m.k = "dn_ini_res" /\ EnterDnSeg(cli)
  <2>1. ASSUME ~stale
        PROVE  /\ Alternating /\ cli.op = "dn"
               /\ cli.pos = Len(cli.value) => cli.value \in written
               /\ cli.pos # Len(cli.value) /\ srv.st = "dn_seg" =>
                    Taken(cli.pos, cli.toggle)
    <3>1. InDnIni
      BY <1>3, <2>1 DEF SessionInv, Transfer
    <3>2. IF cli.pos = 0 THEN srv.st = "dn_seg" => Taken(0, 0)
          ELSE cli.value \in written
      BY <1>1, <1>3, <3>1 DEF InDnIni
    <3> QED BY <3>1, <3>2 DEF InDnIni
  <2> QED BY <1>1, <1>3, <2>1, EnterDnSegKeeps
<1>4. CASE cli.st = "dn_seg" /\ m.k = "dn_seg_res" /\ EnterDnSeg(cli)
  <2>1. ASSUME ~stale
        PROVE  /\ Alternating /\ cli.op = "dn"
               /\ cli.pos = Len(cli.value) => cli.value \in written
               /\ srv.st = "dn_seg" => Taken(cli.pos, cli.toggle)
    BY <1>1, <1>4, <2>1 DEF SessionInv, Transfer, InDnSeg
  <2> QED BY <1>1, <1>4, <2>1, EnterDnSegKeeps
<1>5. CASE cli.st = "blk_dn_ini" /\ m.k = "blk_dn_ini_res" /\ EnterBlkDnSub(cli, m.blksize)
  <2>1. ASSUME ~stale
        PROVE  /\ cli.op = "dn" /\ srv.st # "dn_seg"
               /\ \A x \in Range(c2s) : x.k = "seg"
               /\ \A x \in Range(Tail(s2c)) : x.k # "blk_dn_end_res"
    <3>1. InBlkDnIni
      BY <1>5, <2>1 DEF SessionInv, Transfer
    <3>2. c2s = <<>>
      BY <1>1, <3>1 DEF InBlkDnIni, Alternating
    <3>3. \A x \in Range(Tail(s2c)) : x = Abort
      <4> DEFINE t == Tail(s2c)
      <4>1. \A i \in DOMAIN t : t[i] = Abort
        <5> SUFFICES ASSUME NEW i \in DOMAIN t PROVE t[i] = Abort
          OBVIOUS
        <5>1. /\ i + 1 \in DOMAIN s2c /\ 1 \in DOMAIN s2c /\ i + 1 # 1
              /\ t[i] = s2c[i + 1] /\ s2c[1] = m
          BY DEF FInv
        <5> QED BY <1>1, <3>1, <5>1 DEF InBlkDnIni, Alternating
      <4> QED BY <4>1 DEF Range
    <3>4. Range(c2s) = {} /\ Abort.k = "abort"
      BY <3>2, RangeOfOne DEF Abort
    <3> QED BY <1>1, <1>5, <3>1, <3>3, <3>4 DEF InBlkDnIni
  <2>2. m.blksize \in Seqno
    BY <1>1, <1>5, ReadByClient
  <2> QED BY <1>1, <1>5, <2>1, <2>2, EnterBlkDnSubKeeps
<1>6. CASE ClientBlkDnSub(m) /\ m.k = "blk_dn_res" /\ m.ackseq <= cli.blksize
  <2> DEFINE back == cli.pos - (cli.blksize - m.ackseq)
             c == [cli EXCEPT !.pos = back]
  <2>1. /\ cli.blksize \in Seqno /\ cli.pos \in Nat
        /\ cli.pos <= Len(cli.value) /\ Len(cli.value) <= 15
        /\ cli.value \in Seq(Segment) /\ cli.st = "blk_dn_sub"
        /\ cli.blksize <= cli.pos /\ Len(cli.value) \in Nat
    BY <1>1, <1>6 DEF Within, ClientState, ClientBlkDnSub, FInv, ClientFits
  <2>2. m.ackseq \in Seqno /\ m.blksize \in Seqno
    BY <1>1, <1>6, ReadByClient
  <2>3. cli.blksize \in Nat
    BY <2>1, SeqnoNat, Zenon
  <2>4. back \in Nat /\ back <= cli.pos /\ back <= Len(cli.value)
    <3>1. /\ cli.blksize - m.ackseq \in Nat /\ cli.blksize - m.ackseq <= cli.pos
      BY <1>6, <2>1, <2>2, <2>3, Unconfirmed
    <3> HIDE DEF back
    <3>2. back = cli.pos - (cli.blksize - m.ackseq)
      BY DEF back
    <3> QED BY <2>1, <3>1, <3>2
  <2>5. EnterBlkDnSub(c, m.blksize)
    BY <1>6 DEF ClientBlkDnSub
  <2> HIDE DEF back
  <2>6. c \in ClientState
    BY <1>1, <2>4, Zenon DEF ClientState
  <2>7. c.pos = back /\ c.value = cli.value /\ c.op = cli.op /\ c.result = cli.result
    BY <1>1 DEF ClientState
  <2> HIDE DEF c
  <2>8. Within(c)
    BY <2>1, <2>4, <2>6, <2>7 DEF Within
  <2>9. ~stale => InBlkDnSub
    BY <2>1 DEF SessionInv, Transfer
  <2> QED BY <1>1, <2>1, <2>2, <2>5, <2>7, <2>8, <2>9, EnterBlkDnSubKeeps DEF InBlkDnSub
<1>7. CASE cli.st = "blk_dn_end" /\ m.k = "blk_dn_end_res" /\ Succeed(cli)
  <2>1. ~stale => cli.op = "dn" /\ cli.value \in written
    BY <1>1, <1>7 DEF SessionInv, Transfer, InBlkDnEnd
  <2> QED BY <1>1, <1>7, <2>1, EndKeeps DEF Succeed
<1> QED BY <1>2, <1>3, <1>4, <1>5, <1>6, <1>7
        DEF ClientDown, ClientDnIni, ClientDnSeg, ClientBlkDnIni, ClientBlkDnSub,
            ClientBlkDnEnd

LEMMA ClientUpIniKeeps ==
  ASSUME FInv, SessionInv, s2c # <<>>, NEW m, m = Head(s2c), ~IsAbort(m),
         cli.st \in {"up_ini", "blk_up_ini"}, ClientUpIni(m)
  PROVE  SessionInv'
<1>1. /\ cli \in ClientState /\ m \in FromServer /\ m \in Range(s2c) /\ m # Abort
      /\ cli.buf = <<>> /\ cli.toggle \in 0 .. 1 /\ cli.result = "none"
  BY RangeOfTail DEF FInv, ClientFits, Within, IsAbort, Abort, ClientState, SessionInv
<1>2. ~stale => InUpIni
  BY DEF SessionInv, Transfer
<1>3. CASE AbortReq
  BY <1>3, AbortKeeps
<1>4. CASE m.k = "up_exp"
  <2> DEFINE c == [cli EXCEPT !.buf = m.data]
  <2>1. m.data \in Seq(Segment) /\ (~stale => m.data \in had /\ cli.op = "up")
    BY <1>1, <1>2, <1>4, ReadByClient DEF InUpIni
  <2>2. c \in ClientState
    BY <1>1, <2>1, Zenon DEF ClientState
  <2>3. c.op = cli.op /\ c.buf = m.data
    BY <1>1 DEF ClientState
  <2>4. Reply(Ended(c, "ok"), <<>>)
    BY <1>4 DEF ClientUpIni, Succeed
  <2> HIDE DEF c
  <2> QED BY <2>1, <2>2, <2>3, <2>4, EndKeeps
<1>5. CASE m.k = "up_ini_res"
  <2> DEFINE c == [cli EXCEPT !.st = "up_seg", !.size = m.size, !.toggle = Flip(@)]
             x == [k |-> "up_seg", toggle |-> cli.toggle]
  <2>1. Reply(c, <<x>>)
    BY <1>5 DEF ClientUpIni
  <2>2. x \in FromClient
    BY <1>1, ClientFrames
  <2>3. /\ c.st = "up_seg" /\ c.size = m.size /\ c.toggle = Flip(cli.toggle)
        /\ c.op = cli.op /\ c.buf = <<>> /\ c.result = "none"
    BY <1>1 DEF ClientState
  <2>4. Flip(c.toggle) = cli.toggle
    BY <1>1, <2>3 DEF Flip
  <2>5. x = [k |-> "up_seg", toggle |-> Flip(c.toggle)]
    BY <2>4
  <2>6. cli' = c /\ UNCHANGED <<srv, had, written, stale>>
    BY <2>1 DEF Reply, history
  <2> HIDE DEF c, x
  <2>7. ASSUME ~stale PROVE Transfer'
    <3>1. /\ Alternating' /\ Range(c2s') = {x}
          /\ \A y \in Range(s2c') : y = Abort
      BY <1>1, <1>2, <2>1, <2>2, <2>7, RepliedOne DEF InUpIni
    <3>2. PICK d \in had : m.size = Len(d) /\ (srv.st = "up_seg" => Given(d, 0, 0))
      BY <1>1, <1>2, <1>5, <2>7 DEF InUpIni
    <3>3. d \in Seq(Segment) /\ 0 < Len(d) /\ SubSeq(d, 1, 0) = <<>> /\ Len(<<>>) = 0
      BY <1>1, <1>5, <3>2, ReadByClient DEF FInv
    <3>4. srv'.st = "up_seg" => Given(d, 0, Flip(cli.toggle))'
      BY <1>2, <2>4, <2>6, <2>7, <3>2 DEF InUpIni, Given
    <3>5. Abort.k = "abort"
      BY DEF Abort
    <3>6. Receiving(d)'
      BY <2>3, <2>5, <2>6, <3>1, <3>2, <3>3, <3>4, <3>5 DEF Receiving
    <3>7. InUpSeg'
      BY <1>2, <2>3, <2>6, <2>7, <3>1, <3>6 DEF InUpSeg, InUpIni
    <3> QED BY <2>3, <2>6, <3>7 DEF Transfer
  <2> QED BY <2>1, <2>3, <2>7, GoesOn
<1>6. CASE m.k = "blk_up_ini_res" /\ cli.st = "blk_up_ini"
  <2> DEFINE c == [cli EXCEPT !.st = "blk_up_sub", !.size = m.size, !.ackseq = 0]
             x == [k |-> "blk_up_start"]
  <2>1. Reply(c, <<x>>)
    BY <1>6 DEF ClientUpIni
  <2>2. x \in FromClient /\ x.k = "blk_up_start"
    BY ClientFrames
  <2>3. c.st = "blk_up_sub" /\ c.op = cli.op /\ c.result = "none"
    BY <1>1 DEF ClientState
  <2>4. cli' = c /\ UNCHANGED <<srv, had, written, stale>>
    BY <2>1 DEF Reply, history
  <2> HIDE DEF c, x
  <2>5. ASSUME ~stale PROVE Transfer'
    <3>1. Range(c2s') = {x} /\ \A y \in Range(s2c') : y = Abort
      BY <1>1, <1>2, <2>1, <2>2, <2>5, RepliedOne DEF InUpIni
    <3>2. Abort.k = "abort"
      BY DEF Abort
    <3>3. InBlkUp'
      BY <1>1, <1>2, <1>6, <2>2, <2>3, <2>4, <2>5, <3>1, <3>2 DEF InBlkUp, InUpIni
    <3> QED BY <2>3, <2>4, <3>3 DEF Transfer
  <2> QED BY <2>1, <2>3, <2>5, GoesOn
<1> QED BY <1>3, <1>4, <1>5, <1>6 DEF ClientUpIni

LEMMA ClientUpSegKeeps ==
  ASSUME FInv, SessionInv, s2c # <<>>, NEW m, m = Head(s2c), ~IsAbort(m),
         cli.st = "up_seg", ClientUpSeg(m)
  PROVE  SessionInv'
<1> DEFINE buf == Append(cli.buf, m.data)
           b == Len(cli.buf)
<1>1. /\ cli \in ClientState /\ m \in FromServer /\ m \in Range(s2c) /\ m # Abort
      /\ cli.buf \in Seq(Segment) /\ cli.toggle \in 0 .. 1 /\ cli.result = "none"
      /\ b \in Nat
  BY RangeOfTail DEF FInv, ClientFits, Within, IsAbort, Abort, ClientState, SessionInv
<1>2. ASSUME ~stale, m.k \in {"up_seg_res", "seg"}
      PROVE  /\ Alternating /\ cli.op = "up" /\ Toggle(m) # cli.toggle
             /\ \E d \in had :
                  /\ Receiving(d) /\ buf = SubSeq(d, 1, b + 1) /\ Len(buf) = b + 1
                  /\ SubSeq(d, 1, Len(d)) = d
                  /\ (LastOf(m) <=> b + 1 = Len(d)) /\ Len(d) \in Nat
                  /\ srv.st = "up_seg" => Given(d, b + 1, cli.toggle)
  <2>1. InUpSeg
    BY <1>2 DEF SessionInv, Transfer
  <2>2. PICK d \in had : Receiving(d)
    BY <2>1 DEF InUpSeg
  <2>3. /\ m.k = "up_seg_res" /\ m.toggle = Flip(cli.toggle) /\ m.data = d[b + 1]
        /\ m.last = (b + 1 = Len(d))
        /\ srv.st = "up_seg" => Given(d, b + 1, cli.toggle)
        /\ b < Len(d) /\ cli.buf = SubSeq(d, 1, b)
    BY <1>1, <1>2, <2>2 DEF Receiving
  <2>4. d \in Seq(Segment) /\ b + 1 \in 1 .. Len(d) /\ (b + 1) - 1 = b /\ Len(d) \in Nat
    BY <1>1, <2>3 DEF FInv
  <2>5. buf = SubSeq(d, 1, b + 1) /\ Len(buf) = b + 1 /\ SubSeq(d, 1, Len(d)) = d
    <3> DEFINE p == b + 1
    <3>1. p \in 1 .. Len(d) /\ p - 1 = b
      BY <2>4
    <3> HIDE DEF p
    <3>2. Append(SubSeq(d, 1, p - 1), d[p]) = SubSeq(d, 1, p) /\ Len(SubSeq(d, 1, p)) = p
          /\ SubSeq(d, 1, Len(d)) = d
      BY <2>4, <3>1, Prefix
    <3> QED BY <2>3, <3>1, <3>2 DEF p
  <2>6. Toggle(m) # cli.toggle /\ (LastOf(m) <=> b + 1 = Len(d))
    <3>1. Toggle(m) = m.toggle /\ LastOf(m) = m.last
      BY <2>3 DEF Toggle, LastOf
    <3>2. m.toggle # cli.toggle
      BY <1>1, <2>3 DEF Flip
    <3>3. LastOf(m) <=> b + 1 = Len(d)
      BY <2>3, <3>1, Zenon
    <3> QED BY <3>1, <3>2, <3>3
  <2> QED BY <2>1, <2>2, <2>3, <2>4, <2>5, <2>6 DEF InUpSeg
<1>3. CASE AbortReq
  BY <1>3, AbortKeeps
<1>4. CASE m.k \in {"up_seg_res", "seg"} /\ Toggle(m) = cli.toggle /\ Reply(cli, <<>>)
  BY <1>1, <1>2, <1>4, GoesOn
<1>5. CASE /\ m.k \in {"up_seg_res", "seg"} /\ LastOf(m)
           /\ Succeed([cli EXCEPT !.buf = buf])
  <2> DEFINE c == [cli EXCEPT !.buf = buf]
  <2>1. buf \in Seq(Segment)
    BY <1>1, <1>5, ReadByClient
  <2>2. ~stale => cli.op = "up" /\ buf \in had
    <3> HIDE DEF buf
    <3> QED BY <1>2, <1>5
  <2> HIDE DEF buf
  <2>3. c \in ClientState
    BY <1>1, <2>1, Zenon DEF ClientState
  <2>4. c.op = cli.op /\ c.buf = buf
    BY <1>1 DEF ClientState
  <2>5. Reply(Ended(c, "ok"), <<>>)
    BY <1>5 DEF Succeed
  <2> HIDE DEF c
  <2> QED BY <2>2, <2>3, <2>4, <2>5, EndKeeps
<1>6. CASE /\ m.k \in {"up_seg_res", "seg"} /\ ~LastOf(m)
           /\ Reply([cli EXCEPT !.buf = buf, !.toggle = Flip(@)],
                    <<[k |-> "up_seg", toggle |-> cli.toggle]>>)
  <2> DEFINE c == [cli EXCEPT !.buf = buf, !.toggle = Flip(@)]
             x == [k |-> "up_seg", toggle |-> cli.toggle]
  <2>1. Reply(c, <<x>>)
    BY <1>6
  <2>2. x \in FromClient
    BY <1>1, ClientFrames
  <2>3. /\ c.st = "up_seg" /\ c.size = cli.size /\ c.toggle = Flip(cli.toggle)
        /\ c.op = cli.op /\ c.buf = buf /\ c.result = "none"
    <3> HIDE DEF buf
    <3> QED BY <1>1 DEF ClientState
  <2>4. Flip(c.toggle) = cli.toggle
    BY <1>1, <2>3 DEF Flip
  <2>5. x = [k |-> "up_seg", toggle |-> Flip(c.toggle)]
    BY <2>4
  <2>6. cli' = c /\ UNCHANGED <<srv, had, written, stale>>
    BY <2>1 DEF Reply, history
  <2> HIDE DEF c, x, buf
  <2>7. ASSUME ~stale PROVE Transfer'
    <3>1. PICK d \in had :
             /\ Receiving(d) /\ buf = SubSeq(d, 1, b + 1) /\ Len(buf) = b + 1
             /\ (LastOf(m) <=> b + 1 = Len(d)) /\ Len(d) \in Nat
             /\ srv.st = "up_seg" => Given(d, b + 1, cli.toggle)
      BY <1>2, <1>6, <2>7
    <3>2. /\ Alternating' /\ Range(c2s') = {x}
          /\ \A y \in Range(s2c') : y = Abort
      BY <1>1, <1>2, <1>6, <2>1, <2>2, <2>7, RepliedOne
    <3>3. b + 1 < Len(d) /\ cli.size = Len(d)
      BY <1>1, <1>6, <3>1 DEF Receiving
    <3>4. srv'.st = "up_seg" => Given(d, Len(cli.buf), Flip(cli.toggle))'
      BY <2>3, <2>4, <2>6, <3>1 DEF Given
    <3>5. Abort.k = "abort"
      BY DEF Abort
    <3>6. Receiving(d)'
      BY <2>3, <2>5, <2>6, <3>1, <3>2, <3>3, <3>4, <3>5 DEF Receiving
    <3>7. InUpSeg'
      BY <1>2, <1>6, <2>3, <2>6, <2>7, <3>2, <3>6 DEF InUpSeg
    <3> QED BY <2>3, <2>6, <3>7 DEF Transfer
  <2> QED BY <2>1, <2>3, <2>7, GoesOn
<1> QED BY <1>3, <1>4, <1>5, <1>6 DEF ClientUpSeg

LEMMA ClientBlkUpSubKeeps ==
  ASSUME FInv, SessionInv, s2c # <<>>, NEW m, m = Head(s2c),
         cli.st = "blk_up_sub", ClientBlkUpSub(m)
  PROVE  SessionInv'
<1>1. /\ cli \in ClientState /\ cli.result = "none" /\ cli.ackseq \in Seqno
      /\ cli.blksize \in Seqno /\ cli.size \in 1 .. 15 /\ cli.buf \in Seq(Segment)
      /\ Len(cli.buf) <= cli.size /\ cli.ackseq <= Len(cli.buf)
      /\ c2s \in Seq(FromClient)
      /\ Range(Tail(s2c)) \subseteq Range(s2c)
  BY RangeOfTail DEF FInv, ClientFits, Within, ClientState, SessionInv
<1> DEFINE last == LastInBlock(m)
           take == Accept(m, cli.ackseq)
           room == Len(cli.buf) < cli.size
           ack  == IF take THEN cli.ackseq + 1 ELSE cli.ackseq
           full == SeqnoOf(m) = cli.blksize \/ last
           buf  == IF take /\ room THEN Append(cli.buf, m.data) ELSE cli.buf
           acks == IF full THEN 0 ELSE ack
           st   == IF last THEN "blk_up_end" ELSE cli.st
           c    == [cli EXCEPT !.buf = buf, !.ackseq = acks, !.st = st]
           x    == [k |-> "blk_up_res", ackseq |-> ack, blksize |-> cli.blksize]
           res  == IF full THEN <<x>> ELSE <<>>
<1>2. CASE AbortReq
  BY <1>2, AbortKeeps
<1>3. CASE Reply(c, res)
  <2>1. ack \in Seqno
    <3>1. Len(cli.buf) \in Nat
      BY <1>1
    <3> QED BY <1>1, <3>1, Counted
  <2>2. x \in FromClient /\ x.k = "blk_up_res"
    BY <1>1, <2>1, ClientFrames
  <2>3. c.st = st /\ c.op = cli.op /\ c.result = "none"
    <3> HIDE DEF buf, acks, st
    <3> QED BY <1>1 DEF ClientState
  <2>4. st \in {"blk_up_sub", "blk_up_end"}
    OBVIOUS
  <2> HIDE DEF c, st, x
  <2>5. res \in Seq(FromClient) /\ Range(res) \subseteq {x}
    BY <2>2, RangeOfOne, Single
  <2> HIDE DEF res
  <2>6. Range(c2s \o res) = Range(c2s) \cup Range(res)
    BY <1>1, <2>5, RangeOfConcat
  <2>7. ASSUME ~stale PROVE Transfer'
    <3>1. InBlkUp
      BY <2>7 DEF SessionInv, Transfer
    <3>2. InBlkUp'
      BY <1>1, <1>3, <2>2, <2>3, <2>5, <2>6, <3>1 DEF InBlkUp, Reply, history
    <3> QED BY <1>3, <2>3, <2>4, <3>2 DEF Transfer, Reply
  <2> QED BY <1>3, <2>3, <2>7, GoesOn
<1> QED BY <1>2, <1>3 DEF ClientBlkUpSub

LEMMA ClientBlkUpEndKeeps ==
  ASSUME FInv, SessionInv, s2c # <<>>, NEW m, m = Head(s2c),
         cli.st = "blk_up_end", ClientBlkUpEnd(m)
  PROVE  SessionInv'
<1>1. cli \in ClientState /\ m \in Range(s2c)
  BY RangeOfTail DEF FInv, ClientFits, Within
<1>2. CASE AbortReq
  BY <1>2, AbortKeeps
<1>3. CASE /\ m.k = "blk_up_end_res" /\ m.crc = cli.buf
           /\ Reply(Ended(cli, "ok"), <<[k |-> "blk_up_end"]>>)
  <2>1. ~stale => cli.op = "up" /\ cli.buf \in had
    BY <1>1, <1>3 DEF SessionInv, Transfer, InBlkUp
  <2> QED BY <1>1, <1>3, <2>1, EndKeeps
<1> QED BY <1>2, <1>3 DEF ClientBlkUpEnd

LEMMA ClientKeepsSession ==
  ASSUME FInv, SessionInv, ClientReceive
  PROVE  SessionInv'
<1> DEFINE m == Head(s2c)
<1>1. s2c # <<>> /\ m = Head(s2c)
  BY DEF ClientReceive
<1> HIDE DEF m
<1>2. CASE cli.st = "wait" /\ Reply(cli, <<>>)
  BY <1>2 DEF Reply, history, SessionInv, ConfirmedMeansStored, UploadIsAValue
<1>3. CASE AbortInd
  BY <1>3, AbortKeeps
<1>4. CASE ~IsAbort(m) /\ ClientDown(m)
  BY <1>1, <1>4, ClientDownKeeps
<1>5. CASE cli.st \in {"up_ini", "blk_up_ini"} /\ ~IsAbort(m) /\ ClientUpIni(m)
  BY <1>1, <1>5, ClientUpIniKeeps
<1>6. CASE cli.st = "up_seg" /\ ~IsAbort(m) /\ ClientUpSeg(m)
  BY <1>1, <1>6, ClientUpSegKeeps
<1>7. CASE cli.st = "blk_up_sub" /\ ClientBlkUpSub(m)
  BY <1>1, <1>7, ClientBlkUpSubKeeps
<1>8. CASE cli.st = "blk_up_end" /\ ClientBlkUpEnd(m)
  BY <1>1, <1>8, ClientBlkUpEndKeeps
<1> QED BY <1>2, <1>3, <1>4, <1>5, <1>6, <1>7, <1>8 DEF ClientReceive, m

-----------------------------------------------------------------------------
(* A transfer and the other steps                                          *)

LEMMA QuietKeeps ==
  ASSUME FInv, SessionInv, Quiet, stale' = stale, object' \in had'
  PROVE  SessionInv'
<1>1. cli' = cli /\ had \subseteq had' /\ written \subseteq written'
  BY DEF Quiet
<1>2. ConfirmedMeansStored' /\ UploadIsAValue'
  BY <1>1, ToldStays DEF SessionInv
<1>3. ASSUME cli.st # "wait", ~stale PROVE Transfer'
  BY <1>3, QuietTransfer DEF SessionInv
<1> QED BY <1>1, <1>2, <1>3 DEF SessionInv

LEMMA AppendConcat == \A S : \A q \in Seq(S), x \in S : Append(q, x) = q \o <<x>>
OBVIOUS

LEMMA GiveUpKeeps ==
  ASSUME FInv, SessionInv, GiveUp
  PROVE  SessionInv'
<1>1. cli \in ClientState
  BY DEF FInv, ClientFits, Within
<1>2. cli'.st = "wait" /\ cli'.result = "failed"
  BY <1>1 DEF GiveUp, Ended, ClientState
<1> QED BY <1>2 DEF GiveUp, history, SessionInv, ConfirmedMeansStored, UploadIsAValue

LEMMA OthersQuiet ==
  ASSUME FInv, object \in had,
         \/ LoseRequest \/ LoseResponse \/ ServerStop \/ ServerStart
         \/ \E v \in Local : LocalWrite(v)
         \/ UNCHANGED vars
  PROVE  /\ Quiet /\ UNCHANGED <<stale, mixed, cli>> /\ object' \in had'
         /\ object' = object \/ object' \in Whole
<1>1. s2c \in Seq(FromServer) /\ Abort \in FromServer
  BY ServerFrames DEF FInv, Abort
<1>2. Append(s2c, Abort) = s2c \o <<Abort>>
  BY <1>1, AppendConcat
<1>3. CASE LoseRequest \/ LoseResponse
  BY <1>3 DEF LoseRequest, LoseResponse, Quiet, Passive, history
<1>4. CASE ServerStop \/ ServerStart
  BY <1>2, <1>4 DEF ServerStop, ServerStart, ServerIn, Quiet, Passive, history
<1>5. ASSUME NEW v \in Local, LocalWrite(v)
      PROVE  /\ Quiet /\ UNCHANGED <<stale, mixed, cli>> /\ object' \in had'
             /\ object' \in Whole
  <2>1. object' = Segs(v) /\ had' = had \union {object'}
    BY <1>5 DEF LocalWrite
  <2>2. object' \in Whole
    BY <2>1, ValueAssumption DEF Whole
  <2> QED BY <1>5, <2>1, <2>2 DEF LocalWrite, Quiet, Passive
<1>6. CASE UNCHANGED vars
  BY <1>6 DEF vars, history, Quiet, Passive
<1> QED BY <1>3, <1>4, <1>5, <1>6

\* The transfer of the client c begins with the request x.
LEMMA BeginKeeps ==
  ASSUME FInv, SessionInv, NEW c, NEW x \in FromClient, Begin(c, x),
         c.st # "wait", c.result = "none",
         \/ /\ c.st = "dn_ini" /\ c.op = "dn" /\ c.toggle = 0 /\ 0 < Len(c.value)
            /\ c.pos \in {0, Len(c.value)}
            /\ x = IF c.pos = 0 THEN [k |-> "dn_ini", size |-> Len(c.value)]
                   ELSE [k |-> "dn_exp", data |-> c.value]
         \/ c.st = "blk_dn_ini" /\ c.op = "dn" /\ x.k = "blk_dn_ini"
         \/ /\ c.st \in {"up_ini", "blk_up_ini"} /\ c.op = "up" /\ c.toggle = 0
            /\ x.k = c.st
  PROVE  SessionInv'
<1>1. /\ cli' = c /\ had' = {object} /\ object' = object
      /\ stale' = (c2s \o s2c # <<>>) /\ c2s' = Append(c2s, x) /\ s2c' = s2c
      /\ c2s \in Seq(FromClient) /\ s2c \in Seq(FromServer)
  BY DEF Begin, FInv
<1>2. ASSUME ~stale' PROVE Transfer'
  <2>1. c2s \o s2c = <<>>
    BY <1>1, <1>2
  <2>2. c2s = <<>> /\ s2c = <<>>
    <3>1. Len(c2s \o s2c) = Len(c2s) + Len(s2c) /\ Len(c2s) \in Nat /\ Len(s2c) \in Nat
      BY <1>1, ConcatProperties, LenProperties
    <3>2. Len(c2s) = 0 /\ Len(s2c) = 0
      BY <2>1, <3>1
    <3> QED BY <1>1, <3>2, EmptySeq
  <2>3. c2s' = <<x>> /\ s2c' = <<>>
    BY <1>1, <2>2
  <2>4. Range(c2s') = {x} /\ Range(s2c') = {}
    BY <2>3, RangeOfOne
  <2>5. Alternating'
    BY <2>3, <2>4 DEF Alternating
  <2>6. CASE c.st = "dn_ini"
    <3>1. InDnIni'
      BY <1>1, <2>4, <2>5, <2>6 DEF InDnIni
    <3> QED BY <1>1, <2>6, <3>1 DEF Transfer
  <2>7. CASE c.st = "blk_dn_ini"
    <3>1. InBlkDnIni'
      BY <1>1, <2>4, <2>5, <2>7 DEF InBlkDnIni
    <3> QED BY <1>1, <2>7, <3>1 DEF Transfer
  <2>8. CASE c.st \in {"up_ini", "blk_up_ini"}
    <3>1. InUpIni'
      BY <1>1, <2>4, <2>5, <2>8 DEF InUpIni
    <3> QED BY <1>1, <2>8, <3>1 DEF Transfer
  <2> QED BY <2>6, <2>7, <2>8
<1> QED BY <1>1, <1>2 DEF SessionInv, ConfirmedMeansStored, UploadIsAValue

LEMMA RequestKeeps ==
  ASSUME FInv, SessionInv, Request
  PROVE  /\ SessionInv'
         /\ cli'.op = "dn" => cli'.value \in Whole
         /\ stale' => mixed'
         /\ mixed => mixed'
         /\ object' = object
<1>1. ASSUME NEW v \in Value
      PROVE  /\ Segs(v) \in Val /\ Segs(v) \in Seq(Segment) /\ Segs(v) \in Whole
             /\ Len(Segs(v)) = Length[v] /\ Length[v] \in 1 .. 15
  BY SegsVal, ValueAssumption DEF Val, Whole
<1>2. ASSUME NEW v \in Value, DnReq(v)
      PROVE  SessionInv' /\ cli'.value \in Whole /\ \E c, x : Begin(c, x)
  <2> DEFINE c == NewRequest("dn", "dn_ini", Segs(v))
             sent == [c EXCEPT !.pos = 1]
             exp  == [k |-> "dn_exp", data |-> Segs(v)]
             ini  == [k |-> "dn_ini", size |-> Length[v]]
  <2>1. /\ c.st = "dn_ini" /\ c.op = "dn" /\ c.toggle = 0 /\ c.value = Segs(v)
        /\ c.pos = 0 /\ c.result = "none"
    BY DEF NewRequest
  <2>2. /\ sent.st = "dn_ini" /\ sent.op = "dn" /\ sent.toggle = 0
        /\ sent.value = Segs(v) /\ sent.pos = 1 /\ sent.result = "none"
    BY DEF NewRequest
  <2>3. exp \in FromClient /\ ini \in FromClient
    BY <1>1, ClientFrames
  <2>4. IF v \in Small THEN Begin(sent, exp) ELSE Begin(c, ini)
    BY <1>2 DEF DnReq
  <2>5. v \in Small => Length[v] = 1
    BY ValueAssumption
  <2>6. ini = [k |-> "dn_ini", size |-> Len(Segs(v))] /\ exp = [k |-> "dn_exp", data |-> Segs(v)]
    BY <1>1
  <2> HIDE DEF c, sent, ini, exp
  <2>7. CASE v \in Small
    <3>1. Begin(sent, exp) /\ cli' = sent
      BY <2>4, <2>7 DEF Begin
    <3>2. sent.pos = Len(Segs(v)) /\ sent.pos # 0 /\ 0 < Len(Segs(v))
      <4>1. Len(Segs(v)) = 1
        BY <1>1, <2>5, <2>7, Zenon
      <4> QED BY <2>2, <4>1
    <3>3. SessionInv'
      BY <1>1, <2>2, <2>3, <2>6, <3>1, <3>2, BeginKeeps
    <3> QED BY <1>1, <2>2, <3>1, <3>3
  <2>8. CASE v \notin Small
    <3>1. Begin(c, ini) /\ cli' = c /\ 0 < Len(Segs(v))
      BY <1>1, <2>4, <2>8 DEF Begin
    <3>2. SessionInv'
      BY <1>1, <2>1, <2>3, <2>6, <3>1, BeginKeeps
    <3> QED BY <1>1, <2>1, <3>1, <3>2
  <2> QED BY <2>7, <2>8
<1>3. ASSUME NEW v \in Value, BlkDnReq(v)
      PROVE  SessionInv' /\ cli'.value \in Whole /\ \E c, x : Begin(c, x)
  <2> DEFINE c == NewRequest("dn", "blk_dn_ini", Segs(v))
             x == [k |-> "blk_dn_ini", size |-> Length[v]]
  <2>1. /\ c.st = "blk_dn_ini" /\ c.op = "dn" /\ c.value = Segs(v) /\ c.result = "none"
    BY DEF NewRequest
  <2>2. x \in FromClient /\ x.k = "blk_dn_ini"
    BY <1>1, ClientFrames
  <2>3. Begin(c, x) /\ cli' = c
    BY <1>3 DEF BlkDnReq, Begin
  <2> HIDE DEF c, x
  <2> QED BY <1>1, <2>1, <2>2, <2>3, BeginKeeps
<1>4. ASSUME UpReq
      PROVE  SessionInv' /\ cli'.op = "up" /\ \E c, x : Begin(c, x)
  <2> DEFINE c == NewRequest("up", "up_ini", <<>>)
             x == [k |-> "up_ini"]
  <2>1. c.st = "up_ini" /\ c.op = "up" /\ c.toggle = 0 /\ c.result = "none"
    BY DEF NewRequest
  <2>2. x \in FromClient /\ x.k = "up_ini"
    BY ClientFrames
  <2>3. Begin(c, x) /\ cli' = c
    BY <1>4 DEF UpReq, Begin
  <2> HIDE DEF c, x
  <2> QED BY <2>1, <2>2, <2>3, BeginKeeps
<1>5. ASSUME NEW pst \in Psts, BlkUpReq(pst)
      PROVE  SessionInv' /\ cli'.op = "up" /\ \E c, x : Begin(c, x)
  <2> DEFINE c == [NewRequest("up", "blk_up_ini", <<>>) EXCEPT !.blksize = maxSeqno]
             x == [k |-> "blk_up_ini", blksize |-> maxSeqno, pst |-> pst]
  <2>1. c.st = "blk_up_ini" /\ c.op = "up" /\ c.toggle = 0 /\ c.result = "none"
    BY DEF NewRequest
  <2>2. x \in FromClient /\ x.k = "blk_up_ini"
    <3>1. maxSeqno \in Seqno /\ pst \in Nat
      BY MaxSeqnoType, BoundAssumption DEF FInv, Seqno
    <3> QED BY <3>1, ClientFrames
  <2>3. Begin(c, x) /\ cli' = c
    BY <1>5 DEF BlkUpReq, Begin
  <2> HIDE DEF c, x
  <2> QED BY <2>1, <2>2, <2>3, BeginKeeps
<1>6. /\ SessionInv' /\ (cli'.op = "dn" => cli'.value \in Whole)
      /\ \E c, x : Begin(c, x)
  BY <1>2, <1>3, <1>4, <1>5 DEF Request
<1>7. (stale' => mixed') /\ (mixed => mixed') /\ object' = object
  BY <1>6 DEF Begin
<1> QED BY <1>6, <1>7

LEMMA InitSession == Init => SessionInv
<1> SUFFICES ASSUME Init PROVE SessionInv
  OBVIOUS
<1>1. cli.st = "wait" /\ cli.result = "none" /\ object \in had
  BY DEF Init, NewRequest
<1> QED BY <1>1 DEF SessionInv, ConfirmedMeansStored, UploadIsAValue

LEMMA StepSession ==
  ASSUME FInv, SessionInv, [Next]_vars
  PROVE  SessionInv'
<1>1. CASE ServerReceive
  BY <1>1, ServerKeepsSession
<1>2. CASE ClientReceive
  BY <1>2, ClientKeepsSession
<1>3. CASE Request
  BY <1>3, RequestKeeps
<1>4. CASE Timeout \/ EarlyTimeout
  BY <1>4, GiveUpKeeps DEF Timeout, EarlyTimeout
<1>5. CASE \/ LoseRequest \/ LoseResponse \/ ServerStop \/ ServerStart
           \/ \E v \in Local : LocalWrite(v)
           \/ UNCHANGED vars
  BY <1>5, OthersQuiet, QuietKeeps DEF SessionInv
<1> QED BY <1>1, <1>2, <1>3, <1>4, <1>5 DEF Next

LEMMA SessionsHold == Spec => [](FInv /\ SessionInv)
BY InitFits, StepFits, InitSession, StepSession, PTL DEF Spec

\* A client that is told that its download succeeded knows that the server has
\* stored this value since the request, for every number of lost frames, early
\* timeouts and stops of the server (co_csdo_dn_con).
THEOREM ConfirmationIsTrue == Spec => []ConfirmedMeansStored
<1>1. SessionInv => ConfirmedMeansStored
  BY DEF SessionInv
<1> QED BY <1>1, SessionsHold, PTL

\* An upload that succeeds returns a value that the object had as a whole since
\* the request, whatever was lost and whoever wrote in between (co_csdo_up_con).
THEOREM UploadsAreValues == Spec => []UploadIsAValue
<1>1. SessionInv => UploadIsAValue
  BY DEF SessionInv
<1> QED BY <1>1, SessionsHold, PTL

-----------------------------------------------------------------------------
(* Whole values                                                            *)

LEMMA ShortTail ==
  ASSUME NEW S, NEW q \in Seq(S), Len(q) <= 1
  PROVE  q # <<>> => Range(Tail(q)) = {}
<1> SUFFICES ASSUME q # <<>> PROVE Range(Tail(q)) = {}
  OBVIOUS
<1>1. Tail(q) = <<>>
  <2>1. Len(Tail(q)) = Len(q) - 1 /\ Tail(q) \in Seq(S) /\ Len(q) \in Nat /\ Len(q) # 0
    BY HeadTailProperties, LenProperties, EmptySeq
  <2>2. Len(Tail(q)) = 0
    BY <2>1
  <2> QED BY <2>1, <2>2, EmptySeq
<1> QED BY <1>1, RangeOfOne

\* During a transfer that began when no frame was under way, no request stores
\* anything but the client's value.
LEMMA TransferHarmless ==
  ASSUME FInv', Transfer', cli'.st # "wait",
         cli'.op = "dn" => cli'.value \in Whole
  PROVE  Harmless'
<1>1. /\ c2s' \in Seq(FromClient) /\ cli' \in ClientState
      /\ cli'.pos \in Nat /\ Len(cli'.value) \in Nat /\ cli'.pos <= Len(cli'.value)
  BY DEF FInv, ClientFits, Within, ClientState
<1>2. /\ c2s' # <<>> => Head(c2s') \in Range(c2s') /\ Range(Tail(c2s')) \subseteq Range(c2s')
      /\ Alternating' /\ c2s' # <<>> => Range(Tail(c2s')) = {}
  BY <1>1, RangeOfTail, ShortTail DEF Alternating
<1>3. CASE cli'.st = "dn_ini"
  <2>1. InDnIni'
    BY <1>3 DEF Transfer
  <2>2. /\ \A m \in Range(c2s') : m.k = "dn_ini" \/ (m.k = "dn_exp" /\ m.data \in Whole)
        /\ Alternating'
    BY <2>1 DEF InDnIni
  <2> QED BY <1>2, <2>2 DEF Harmless
<1>4. CASE cli'.st = "dn_seg"
  <2>1. InDnSeg'
    BY <1>4 DEF Transfer
  <2>2. \A m \in Range(c2s') :
          /\ m.k = "dn_seg" /\ m.data = cli'.value[cli'.pos]
          /\ m.toggle = Flip(cli'.toggle)
          /\ srv'.st = "dn_seg" => Taken(cli.pos - 1, Flip(cli.toggle))'
    BY <2>1 DEF InDnSeg
  <2>3. /\ Alternating' /\ cli'.value \in Whole /\ cli'.pos \in 1 .. Len(cli'.value)
    BY <1>1, <2>1 DEF InDnSeg
  <2>4. c2s' # <<>> =>
          /\ Head(c2s').k = "dn_seg" /\ Head(c2s').data = cli'.value[cli'.pos]
          /\ srv'.st = "dn_seg" => Taken(cli.pos - 1, Head(c2s).toggle)'
    BY <1>2, <2>2 DEF Taken
  <2> QED BY <1>2, <2>2, <2>3, <2>4 DEF Harmless
<1>5. CASE cli'.st \in {"blk_dn_ini", "blk_dn_sub", "blk_dn_end"}
  <2>1. \A m \in Range(c2s') :
          \/ m.k = "blk_dn_ini"
          \/ m.k = "seg" /\ srv'.st # "dn_seg"
          \/ m.k = "blk_dn_end" /\ m.crc \in Whole
    BY <1>5 DEF Transfer, InBlkDnIni, InBlkDnSub, InBlkDnEnd
  <2> QED BY <1>2, <2>1 DEF Harmless
<1>6. CASE cli'.st \in {"up_ini", "blk_up_ini", "up_seg", "blk_up_sub", "blk_up_end"}
  <2>1. \A m \in Range(c2s') :
          m.k \in {"up_ini", "blk_up_ini", "up_seg", "blk_up_start", "blk_up_res"}
    BY <1>6 DEF Transfer, InUpIni, InUpSeg, Receiving, InBlkUp
  <2> QED BY <1>2, <2>1 DEF Harmless
<1> QED BY <1>1, <1>3, <1>4, <1>5, <1>6 DEF ClientState

\* Requests that are left stay harmless when the first is taken or lost.
LEMMA QuietHarmless ==
  ASSUME FInv, Harmless, Quiet
  PROVE  Harmless'
<1>1. /\ c2s \in Seq(FromClient) /\ cli' = cli /\ Passive
      /\ c2s' = c2s \/ (c2s # <<>> /\ c2s' = Tail(c2s))
  BY DEF FInv, Quiet
<1>2. CASE c2s' = c2s
  BY <1>1, <1>2 DEF Harmless, Passive, Taken
<1>3. CASE c2s # <<>> /\ c2s' = Tail(c2s)
  <2>1. /\ Range(c2s') \subseteq Range(c2s)
        /\ c2s' # <<>> => /\ Range(Tail(c2s')) \subseteq Range(c2s')
                          /\ Head(c2s') \in Range(c2s')
    BY <1>1, <1>3, RangeOfTail
  <2>2. \A m \in Range(c2s') : m.k \notin {"dn_ini", "dn_seg"}
    BY <1>3 DEF Harmless
  <2> QED BY <1>1, <2>1, <2>2 DEF Harmless, Passive
<1> QED BY <1>1, <1>2, <1>3

LEMMA ServerHarmless ==
  ASSUME FInv, Harmless, object \in Whole, ServerReceive
  PROVE  Harmless' /\ object' \in Whole
<1> DEFINE m == Head(c2s)
<1>1. /\ c2s \in Seq(FromClient) /\ c2s # <<>> /\ m \in FromClient /\ Reaction(m)
      /\ Range(c2s) = {m} \cup Range(Tail(c2s)) /\ Tail(c2s) \in Seq(FromClient)
  BY ServerReacts, RangeOfTail DEF FInv
<1>2. /\ m.k = "dn_exp" => m.data \in Whole
      /\ m.k = "blk_dn_end" => m.crc \in Whole
      /\ \A x \in Range(c2s) : x.k = "seg" => srv.st # "dn_seg"
      /\ m.k = "dn_ini" => \A x \in Range(Tail(c2s)) : x.k # "seg"
      /\ m.k = "dn_seg" =>
           /\ cli.value \in Whole /\ cli.pos \in 1 .. Len(cli.value)
           /\ m.data = cli.value[cli.pos]
           /\ srv.st = "dn_seg" => Taken(cli.pos - 1, m.toggle)
  BY <1>1 DEF Harmless
<1>3. \A x \in Range(Tail(c2s)) : x.k \notin {"dn_ini", "dn_seg"}
  BY <1>1 DEF Harmless
<1> HIDE DEF m
<1>4. object' \in Whole
  <2>1. CASE SegmentTaken(m)
    <3>1. srv.st = "dn_seg" /\ m.k = "dn_seg"
      BY <1>1, <1>2, <2>1 DEF SegmentTaken
    <3>2. /\ cli.value \in Whole /\ cli.pos \in 1 .. Len(cli.value)
          /\ m.data = cli.value[cli.pos] /\ Taken(cli.pos - 1, m.toggle)
      BY <1>2, <3>1
    <3>3. cli.value \in Seq(Segment)
      BY DEF FInv, ClientFits, Within, ClientState
    <3>4. /\ Append(SubSeq(cli.value, 1, cli.pos - 1), cli.value[cli.pos])
               = SubSeq(cli.value, 1, cli.pos)
          /\ Len(SubSeq(cli.value, 1, cli.pos)) = cli.pos
          /\ SubSeq(cli.value, 1, Len(cli.value)) = cli.value
      BY <3>2, <3>3, Prefix
    <3>5. Append(srv.data, m.data) = SubSeq(cli.value, 1, cli.pos) /\ srv.size = Len(cli.value)
      BY <3>2, <3>4 DEF Taken
    <3> QED BY <2>1, <3>2, <3>4, <3>5 DEF SegmentTaken, Store, Keep
  <2>2. CASE ~SegmentTaken(m)
    BY <1>1, <1>2, <2>2
    DEF Reaction, Ignored, Acknowledged, Downloaded, DownloadBegun, BlkDownloadBegun,
        BlkDownloaded, Uploaded, UploadBegun, BlkUploadBegun, SegmentGiven, BlockGiven,
        BlkUploaded, Store, Keep
  <2> QED BY <2>1, <2>2
<1>5. /\ cli' = cli /\ c2s' = Tail(c2s)
      /\ \/ srv'.st # "dn_seg" \/ srv' = srv
         \/ m.k = "dn_ini" \/ (m.k \in {"dn_seg", "seg"} /\ srv.st = "dn_seg")
  BY <1>1
  DEF Reaction, Ignored, Passive, Acknowledged, Downloaded, DownloadBegun,
      BlkDownloadBegun, SegmentTaken, BlkDownloaded, Uploaded, UploadBegun,
      BlkUploadBegun, SegmentGiven, BlockGiven, BlkUploaded, Answers
<1>6. \A x \in Range(c2s') : x.k = "seg" => srv'.st # "dn_seg"
  BY <1>1, <1>2, <1>5
<1>7. /\ Range(c2s') \subseteq Range(c2s)
      /\ c2s' # <<>> => /\ Range(Tail(c2s')) \subseteq Range(c2s')
                        /\ Head(c2s') \in Range(c2s')
  BY <1>1, <1>5, RangeOfTail
<1>8. Harmless'
  BY <1>3, <1>5, <1>6, <1>7 DEF Harmless
<1> QED BY <1>4, <1>8

\* The client leaves its value alone, and when its transfer ends it sends
\* nothing but an abort or the end of a block upload.
KeepsValue ==
  /\ UNCHANGED <<srv, object, stale, mixed>>
  /\ cli'.value = cli.value /\ cli'.op = cli.op
  /\ cli'.st # "wait" => cli.st # "wait"
  /\ cli'.st = "wait" =>
       /\ cli'.pos = cli.pos
       /\ \/ c2s' = c2s
          \/ \E x \in FromClient :
               x.k \in {"abort", "blk_up_end"} /\ c2s' = c2s \o <<x>>

LEMMA GoesOnWith ==
  ASSUME FInv, NEW c, NEW tx, Reply(c, tx), c.value = cli.value, c.op = cli.op,
         c.st # "wait", cli.st # "wait"
  PROVE  KeepsValue
BY DEF Reply, history, KeepsValue

LEMMA EndsWith ==
  ASSUME FInv, NEW c \in ClientState, NEW result, NEW tx, Reply(Ended(c, result), tx),
         c.value = cli.value, c.op = cli.op, c.pos = cli.pos,
         tx = <<>> \/ tx = <<Abort>> \/ tx = <<[k |-> "blk_up_end"]>>
  PROVE  KeepsValue
<1>1. /\ cli'.st = "wait" /\ cli'.value = cli.value /\ cli'.op = cli.op
      /\ cli'.pos = cli.pos /\ UNCHANGED <<srv, object, stale, mixed>>
  BY DEF Reply, history, Ended, ClientState
<1>2. c2s \in Seq(FromClient) /\ c2s \o <<>> = c2s
  BY DEF FInv
<1>3. /\ Abort \in FromClient /\ [k |-> "blk_up_end"] \in FromClient /\ Abort.k = "abort"
  BY ClientFrames DEF Abort
<1>4. c2s' = c2s \o tx
  BY DEF Reply
<1>5. \/ c2s' = c2s
      \/ \E x \in FromClient : x.k \in {"abort", "blk_up_end"} /\ c2s' = c2s \o <<x>>
  BY <1>2, <1>3, <1>4
<1> QED BY <1>1, <1>5 DEF KeepsValue

LEMMA EnterBlkDnSubEnds ==
  ASSUME FInv, cli.st # "wait", NEW c \in ClientState, NEW blksize,
         c.value = cli.value, c.op = cli.op, EnterBlkDnSub(c, blksize)
  PROVE  KeepsValue
<1> DEFINE left == Len(c.value) - c.pos
           n    == IF left < blksize THEN left ELSE blksize
           r    == [c EXCEPT !.st = "blk_dn_sub", !.blksize = n, !.pos = @ + n]
           end  == [c EXCEPT !.st = "blk_dn_end", !.blksize = 0]
<1>1. cli \in ClientState
  BY DEF FInv, ClientFits, Within
<1>2. CASE AbortReq
  BY <1>1, <1>2, EndsWith DEF AbortReq
<1>3. ASSUME NEW tx, Reply(r, tx) PROVE KeepsValue
  <2>1. r.st = "blk_dn_sub" /\ r.value = c.value /\ r.op = c.op
    BY DEF ClientState
  <2> HIDE DEF r
  <2> QED BY <1>3, <2>1, GoesOnWith
<1>4. ASSUME NEW tx, Reply(end, tx) PROVE KeepsValue
  <2>1. end.st = "blk_dn_end" /\ end.value = c.value /\ end.op = c.op
    BY DEF ClientState
  <2> HIDE DEF end
  <2> QED BY <1>4, <2>1, GoesOnWith
<1> HIDE DEF r, end
<1> QED BY <1>2, <1>3, <1>4 DEF EnterBlkDnSub, r, end

LEMMA ClientEnds ==
  ASSUME FInv, ClientReceive
  PROVE  KeepsValue
<1> DEFINE m == Head(s2c)
<1>1. cli \in ClientState /\ c2s \in Seq(FromClient)
  BY DEF FInv, ClientFits, Within
<1>2. CASE cli.st = "wait" /\ Reply(cli, <<>>)
  <2>1. c2s \o <<>> = c2s
    BY <1>1
  <2> QED BY <1>2, <2>1 DEF Reply, history, KeepsValue
<1>3. CASE AbortInd \/ AbortReq
  BY <1>1, <1>3, EndsWith DEF AbortInd, AbortReq
<1>4. CASE cli.st # "wait" /\ ClientDown(m)
  <2>1. CASE EnterDnSeg(cli)
    <3> DEFINE c == [cli EXCEPT !.st = "dn_seg", !.pos = @ + 1, !.toggle = Flip(@)]
    <3>1. c.st = "dn_seg" /\ c.value = cli.value /\ c.op = cli.op
      BY <1>1 DEF ClientState
    <3>2. CASE Succeed(cli)
      BY <1>1, <3>2, EndsWith DEF Succeed
    <3>3. ASSUME NEW tx, Reply(c, tx) PROVE KeepsValue
      <4> HIDE DEF c
      <4> QED BY <1>4, <3>1, <3>3, GoesOnWith
    <3> HIDE DEF c
    <3> QED BY <2>1, <3>2, <3>3 DEF EnterDnSeg, c
  <2>2. CASE EnterBlkDnSub(cli, m.blksize)
    BY <1>1, <1>4, <2>2, EnterBlkDnSubEnds
  <2>3. CASE EnterBlkDnSub([cli EXCEPT !.pos = @ - (cli.blksize - m.ackseq)], m.blksize)
            /\ ClientBlkDnSub(m) /\ m.k = "blk_dn_res" /\ m.ackseq <= cli.blksize
            /\ s2c # <<>>
    <3> DEFINE back == cli.pos - (cli.blksize - m.ackseq)
               c == [cli EXCEPT !.pos = back]
    <3>1. m.ackseq \in Seqno
      BY <2>3, ReadByClient DEF FInv
    <3>2. /\ cli.blksize \in Seqno /\ cli.pos \in Nat /\ cli.blksize <= cli.pos
      BY <1>1, <2>3 DEF FInv, ClientFits, ClientState, ClientBlkDnSub
    <3>3. cli.blksize \in Nat
      BY <3>2, SeqnoNat, Zenon
    <3>4. back \in Nat
      <4>1. cli.blksize - m.ackseq \in Nat /\ cli.blksize - m.ackseq <= cli.pos
        BY <2>3, <3>1, <3>2, <3>3, Unconfirmed
      <4> QED BY <3>2, <4>1
    <3>5. EnterBlkDnSub(c, m.blksize)
      BY <2>3
    <3> HIDE DEF back
    <3>6. c \in ClientState
      BY <1>1, <3>4, Zenon DEF ClientState
    <3>7. c.value = cli.value /\ c.op = cli.op
      BY <1>1 DEF ClientState
    <3> HIDE DEF c
    <3> QED BY <1>4, <3>5, <3>6, <3>7, EnterBlkDnSubEnds
  <2>4. CASE Succeed(cli)
    BY <1>1, <2>4, EndsWith DEF Succeed
  <2> QED BY <1>3, <1>4, <2>1, <2>2, <2>3, <2>4
          DEF ClientDown, ClientDnIni, ClientDnSeg, ClientBlkDnIni, ClientBlkDnSub,
              ClientBlkDnEnd, ClientReceive
<1>5. ASSUME NEW d \in Seq(Segment), Succeed([cli EXCEPT !.buf = d]) PROVE KeepsValue
  <2> DEFINE c == [cli EXCEPT !.buf = d]
  <2>1. c \in ClientState
    BY <1>1, Zenon DEF ClientState
  <2>2. c.value = cli.value /\ c.op = cli.op /\ c.pos = cli.pos
    BY <1>1 DEF ClientState
  <2>3. Reply(Ended(c, "ok"), <<>>)
    BY <1>5 DEF Succeed
  <2> HIDE DEF c
  <2> QED BY <2>1, <2>2, <2>3, EndsWith
<1>6. CASE cli.st \in {"up_ini", "blk_up_ini"} /\ ClientUpIni(m) /\ s2c # <<>>
  <2> DEFINE u == [cli EXCEPT !.st = "up_seg", !.size = m.size, !.toggle = Flip(@)]
             v == [cli EXCEPT !.st = "blk_up_sub", !.size = m.size, !.ackseq = 0]
  <2>1. CASE m.k = "up_exp"
    <3>1. m.data \in Seq(Segment)
      BY <1>6, <2>1, ReadByClient DEF FInv
    <3> QED BY <1>5, <1>6, <2>1, <3>1 DEF ClientUpIni
  <2>2. CASE AbortReq
    BY <1>3, <2>2
  <2>3. ASSUME NEW tx, Reply(u, tx) \/ Reply(v, tx) PROVE KeepsValue
    <3>1. /\ u.st = "up_seg" /\ u.value = cli.value /\ u.op = cli.op
          /\ v.st = "blk_up_sub" /\ v.value = cli.value /\ v.op = cli.op
      BY <1>1 DEF ClientState
    <3> HIDE DEF u, v
    <3> QED BY <1>6, <2>3, <3>1, GoesOnWith
  <2> HIDE DEF u, v
  <2> QED BY <1>6, <2>1, <2>2, <2>3 DEF ClientUpIni, u, v
<1>7. CASE cli.st = "up_seg" /\ ClientUpSeg(m) /\ s2c # <<>>
  <2> DEFINE buf == Append(cli.buf, m.data)
             u == [cli EXCEPT !.buf = buf, !.toggle = Flip(@)]
  <2>1. CASE AbortReq
    BY <1>3, <2>1
  <2>2. CASE Reply(cli, <<>>)
    BY <1>7, <2>2, GoesOnWith
  <2>3. CASE m.k \in {"up_seg_res", "seg"} /\ Succeed([cli EXCEPT !.buf = buf])
    <3>1. buf \in Seq(Segment)
      BY <1>1, <1>7, <2>3, ReadByClient DEF FInv, ClientState
    <3> HIDE DEF buf
    <3> QED BY <1>5, <2>3, <3>1
  <2>4. ASSUME NEW tx, Reply(u, tx) PROVE KeepsValue
    <3> HIDE DEF buf
    <3>1. u.st = "up_seg" /\ u.value = cli.value /\ u.op = cli.op
      BY <1>1, <1>7 DEF ClientState
    <3> HIDE DEF u
    <3> QED BY <1>7, <2>4, <3>1, GoesOnWith
  <2> HIDE DEF u
  <2> QED BY <1>7, <2>1, <2>2, <2>3, <2>4 DEF ClientUpSeg, u
<1>8. CASE cli.st = "blk_up_sub" /\ ClientBlkUpSub(m)
  <2>1. CASE AbortReq
    BY <1>3, <2>1
  <2>2. ASSUME NEW b, NEW a, NEW st \in {"blk_up_sub", "blk_up_end"}, NEW tx,
               Reply([cli EXCEPT !.buf = b, !.ackseq = a, !.st = st], tx)
        PROVE  KeepsValue
    <3> DEFINE c == [cli EXCEPT !.buf = b, !.ackseq = a, !.st = st]
    <3>1. c.st = st /\ c.value = cli.value /\ c.op = cli.op
      BY <1>1 DEF ClientState
    <3>2. Reply(c, tx)
      BY <2>2
    <3> HIDE DEF c
    <3> QED BY <1>8, <3>1, <3>2, GoesOnWith
  <2>3. (IF LastInBlock(m) THEN "blk_up_end" ELSE cli.st) \in {"blk_up_sub", "blk_up_end"}
    BY <1>8
  <2> HIDE DEF m
  <2> QED BY <1>8, <2>1, <2>2, <2>3 DEF ClientBlkUpSub
<1>9. CASE ClientBlkUpEnd(m)
  BY <1>1, <1>3, <1>9, EndsWith DEF ClientBlkUpEnd
<1> HIDE DEF m
<1>10. s2c # <<>>
  BY DEF ClientReceive
<1>11. ClientDown(m) => cli.st # "wait"
  BY DEF ClientDown, ClientDnIni, ClientDnSeg, ClientBlkDnIni, ClientBlkDnSub,
         ClientBlkDnEnd
<1> QED BY <1>2, <1>3, <1>4, <1>6, <1>7, <1>8, <1>9, <1>10, <1>11 DEF ClientReceive, m

\* Requests that are left stay harmless when the client gives up.
LEMMA EndHarmless ==
  ASSUME FInv, Harmless, NEW x \in FromClient, x.k \in {"abort", "blk_up_end"},
         c2s' = c2s \/ c2s' = c2s \o <<x>>,
         srv' = srv, cli'.value = cli.value, cli'.pos = cli.pos
  PROVE  Harmless'
<1>1. c2s \in Seq(FromClient) /\ <<x>> \in Seq(FromClient) /\ Range(<<x>>) = {x}
  BY RangeOfOne DEF FInv
<1>2. CASE c2s' = c2s
  BY <1>2 DEF Harmless, Taken
<1>3. CASE c2s = <<>> /\ c2s' = c2s \o <<x>>
  <2>1. c2s' = <<x>>
    BY <1>3
  <2>2. Range(c2s') = {x} /\ Head(c2s') = x /\ Range(Tail(c2s')) = {}
    <3>1. Tail(<<x>>) = <<>>
      OBVIOUS
    <3> QED BY <1>1, <2>1, <3>1, RangeOfOne
  <2> QED BY <2>2 DEF Harmless
<1>4. CASE c2s # <<>> /\ c2s' = c2s \o <<x>>
  <2>1. Head(c2s') = Head(c2s) /\ Tail(c2s') = Tail(c2s) \o <<x>> /\ c2s' # <<>>
    BY <1>1, <1>4
  <2>2. Range(c2s') = Range(c2s) \cup {x}
    <3>1. Range(c2s \o <<x>>) = Range(c2s) \cup Range(<<x>>)
      BY <1>1, RangeOfConcat
    <3> QED BY <1>1, <1>4, <3>1
  <2>3. Range(Tail(c2s')) = Range(Tail(c2s)) \cup {x}
    <3>1. Tail(c2s) \in Seq(FromClient)
      BY <1>1, <1>4, RangeOfTail
    <3>2. Range(Tail(c2s) \o <<x>>) = Range(Tail(c2s)) \cup Range(<<x>>)
      BY <1>1, <3>1, RangeOfConcat
    <3> QED BY <1>1, <2>1, <3>2
  <2> QED BY <1>4, <2>1, <2>2, <2>3 DEF Harmless, Taken
<1> QED BY <1>2, <1>3, <1>4

LEMMA InitUnmixed == Init => UnmixedInv
<1> SUFFICES ASSUME Init PROVE UnmixedInv
  OBVIOUS
<1>1. object \in Whole
  BY ValueAssumption DEF Init, Whole
<1>2. cli.st = "wait" /\ c2s = <<>> /\ Range(c2s) = {} /\ stale = FALSE
  BY RangeOfOne DEF Init, NewRequest
<1> QED BY <1>1, <1>2 DEF UnmixedInv, Harmless

LEMMA StepUnmixed ==
  ASSUME FInv, FInv', SessionInv, SessionInv', UnmixedInv, [Next]_vars
  PROVE  UnmixedInv'
<1>1. CASE ServerReceive
  <2>1. cli' = cli /\ stale' = stale /\ mixed' = mixed
    BY <1>1, ServerReacts, ReactionKeeps DEF SessionInv
  <2> QED BY <1>1, <2>1, ServerHarmless DEF UnmixedInv
<1>2. CASE ClientReceive
  <2>1. KeepsValue
    BY <1>2, ClientEnds
  <2>2. ASSUME ~mixed PROVE Harmless'
    <3>1. CASE cli'.st = "wait"
      <4>1. CASE c2s' = c2s
        <5>1. Abort \in FromClient /\ Abort.k = "abort"
          BY ClientFrames DEF Abort
        <5> QED BY <2>1, <2>2, <3>1, <4>1, <5>1, EndHarmless DEF KeepsValue, UnmixedInv
      <4>2. CASE c2s' # c2s
        BY <2>1, <2>2, <3>1, <4>2, EndHarmless DEF KeepsValue, UnmixedInv
      <4> QED BY <4>1, <4>2
    <3>2. CASE cli'.st # "wait"
      <4>1. Transfer' /\ (cli'.op = "dn" => cli'.value \in Whole)
        BY <2>1, <2>2, <3>2 DEF KeepsValue, UnmixedInv, SessionInv
      <4> QED BY <3>2, <4>1, TransferHarmless
    <3> QED BY <3>1, <3>2
  <2> QED BY <2>1, <2>2 DEF KeepsValue, UnmixedInv
<1>3. CASE Request
  <2>1. /\ cli'.op = "dn" => cli'.value \in Whole
        /\ stale' => mixed'
        /\ mixed => mixed'
        /\ object' = object
    BY <1>3, RequestKeeps
  <2>2. cli'.st # "wait"
    <3>1. ASSUME NEW v \in Value, DnReq(v) PROVE cli'.st = "dn_ini"
      <4> DEFINE c == NewRequest("dn", "dn_ini", Segs(v))
      <4>1. c.st = "dn_ini" /\ [c EXCEPT !.pos = 1].st = "dn_ini"
        BY DEF NewRequest
      <4> HIDE DEF c
      <4> QED BY <3>1, <4>1 DEF DnReq, Begin, c
    <3>2. ASSUME NEW v \in Value, BlkDnReq(v) PROVE cli'.st = "blk_dn_ini"
      BY <3>2 DEF BlkDnReq, Begin, NewRequest
    <3>3. UpReq => cli'.st = "up_ini"
      BY DEF UpReq, Begin, NewRequest
    <3>4. ASSUME NEW pst \in Psts, BlkUpReq(pst) PROVE cli'.st = "blk_up_ini"
      BY <3>4 DEF BlkUpReq, Begin, NewRequest
    <3> QED BY <1>3, <3>1, <3>2, <3>3, <3>4 DEF Request
  <2>3. ASSUME ~mixed' PROVE Harmless'
    <3>1. Transfer'
      BY <2>1, <2>2, <2>3 DEF SessionInv
    <3> QED BY <2>1, <2>2, <3>1, TransferHarmless
  <2> QED BY <2>1, <2>3 DEF UnmixedInv
<1>4. CASE Timeout \/ EarlyTimeout
  <2>1. GiveUp
    BY <1>4 DEF Timeout, EarlyTimeout
  <2>2. /\ c2s' = c2s \o <<Abort>> /\ Abort \in FromClient /\ Abort.k = "abort"
    BY <2>1, ClientFrames, AppendConcat DEF GiveUp, FInv, Abort
  <2>3. /\ cli'.st = "wait" /\ cli'.value = cli.value /\ cli'.pos = cli.pos
        /\ UNCHANGED <<srv, object, stale, mixed>>
    BY <2>1 DEF GiveUp, history, Ended, FInv, ClientFits, Within, ClientState
  <2> QED BY <2>2, <2>3, EndHarmless DEF UnmixedInv
<1>5. CASE \/ LoseRequest \/ LoseResponse \/ ServerStop \/ ServerStart
           \/ \E v \in Local : LocalWrite(v)
           \/ UNCHANGED vars
  BY <1>5, OthersQuiet, QuietHarmless DEF UnmixedInv, SessionInv
<1> QED BY <1>1, <1>2, <1>3, <1>4, <1>5 DEF Next

\* Unless frames of an earlier transfer were ever under way when one began, the
\* object holds a whole value, for every number of faults: no transfer leaves a
\* part of a value or a mix of two (co_ssdo.c).
THEOREM UnmixedMeansWhole == Spec => [](~mixed => object \in Whole)
<1>1. UnmixedInv => (~mixed => object \in Whole)
  BY DEF UnmixedInv
<1>2. Spec => []UnmixedInv
  BY SessionsHold, InitUnmixed, StepUnmixed, PTL DEF Spec
<1> QED BY <1>1, <1>2, PTL

-----------------------------------------------------------------------------
(* FaultlessSucceeds: without a fault the two sides take turns              *)

EndReq == [k |-> "blk_up_end"]

Free == srv = ServerIn("wait")

\* The frames tx of the client have left, behind the frame that ends a block
\* upload and that nobody waits for.
Sent(tx) ==
  /\ s2c = <<>>
  /\ \/ Free /\ c2s = tx
     \/ srv.st = "blk_up_end" /\ c2s = <<EndReq>> \o tx

\* The one frame under way is a request of the client, a response to it.
Asks(m) == c2s = <<m>> /\ s2c = <<>>
Says(m) == c2s = <<>> /\ s2c = <<m>>

\* Why the server may refuse what the client asks for.
Unserved ==
  IF cli.op = "dn" THEN IsRefused(cli.value) \/ NoRoom(Len(cli.value))
  ELSE \E d \in had : NoRoom(Len(d))

Refuses == Says(Abort) /\ Free /\ Unserved

\* The server has collected n segments of the client's value.
Collects(st, n) ==
  /\ srv.st = st
  /\ srv.size = Len(cli.value) /\ srv.data = SubSeq(cli.value, 1, n)

\* The server has p segments of its value behind it.
Serves(st, p) ==
  /\ srv.st = st
  /\ srv.size = Len(srv.value) /\ srv.size >= 1 /\ srv.pos = p

\* A block of n segments from a value of size segments: a full one, or the last.
IsBlock(from, n, size) ==
  /\ from \in Nat /\ n \in 1 .. maxSeqno
  /\ n = IF size - from < maxSeqno THEN size - from ELSE maxSeqno

\* The frames of the block Block(d, from, n, from + n = Len(d)) after the first i.
Rest(d, from, n, i) ==
  [j \in 1 .. n - i |-> [k |-> "seg", seqno |-> i + j, data |-> d[from + (i + j)],
                         last |-> from + n = Len(d) /\ i + j = n]]

TurnWait ==
  /\ Sent(<<>>)
  /\ cli.result = "failed" => Unserved

TurnExp ==
  /\ cli.pos = Len(cli.value)
  /\ \/ Sent(<<[k |-> "dn_exp", data |-> cli.value]>>)
     \/ Says([k |-> "dn_ini_res"]) /\ Free
     \/ Refuses

TurnDnIni ==
  /\ cli.pos = 0 /\ cli.toggle = 0
  /\ \/ Sent(<<[k |-> "dn_ini", size |-> Len(cli.value)]>>)
     \/ /\ Says([k |-> "dn_ini_res"])
        /\ Collects("dn_seg", 0) /\ srv.toggle = 0

TurnDnSeg ==
  LET p == cli.pos
      t == Flip(cli.toggle)
      last == p = Len(cli.value)
  IN /\ p >= 1
     /\ \/ /\ Asks([k |-> "dn_seg", toggle |-> t, data |-> cli.value[p],
                    last |-> last])
           /\ Collects("dn_seg", p - 1) /\ srv.toggle = t
        \/ /\ Says([k |-> "dn_seg_res", toggle |-> t])
           /\ IF last THEN Free
              ELSE Collects("dn_seg", p) /\ srv.toggle = cli.toggle
        \/ Refuses

TurnBlkDnIni ==
  /\ cli.pos = 0
  /\ \/ Sent(<<[k |-> "blk_dn_ini", size |-> Len(cli.value)]>>)
     \/ /\ Says([k |-> "blk_dn_ini_res", blksize |-> maxSeqno])
        /\ Collects("blk_dn_sub", 0) /\ srv.ackseq = 0 /\ srv.blksize = maxSeqno

TurnBlkDnSub ==
  LET n == cli.blksize
      from == cli.pos - n
      last == cli.pos = Len(cli.value)
  IN /\ IsBlock(from, n, Len(cli.value)) /\ srv.blksize = maxSeqno
     /\ \/ /\ srv.ackseq \in 0 .. n - 1
           /\ Collects("blk_dn_sub", from + srv.ackseq)
           /\ c2s = Rest(cli.value, from, n, srv.ackseq) /\ s2c = <<>>
        \/ /\ srv.ackseq = 0
           /\ Collects(IF last THEN "blk_dn_end" ELSE "blk_dn_sub", cli.pos)
           /\ Says([k |-> "blk_dn_res", ackseq |-> n, blksize |-> maxSeqno])

TurnBlkDnEnd ==
  \/ /\ Asks([k |-> "blk_dn_end", crc |-> cli.value])
     /\ Collects("blk_dn_end", Len(cli.value))
  \/ Says([k |-> "blk_dn_end_res"]) /\ Free
  \/ Refuses

TurnUpIni ==
  /\ cli.op = "up" /\ cli.toggle = 0 /\ cli.buf = <<>>
  /\ \/ cli.st = "up_ini" /\ Sent(<<[k |-> "up_ini"]>>)
     \/ /\ cli.st = "blk_up_ini"
        /\ \E pst \in Psts :
             Sent(<<[k |-> "blk_up_ini", blksize |-> maxSeqno, pst |-> pst]>>)
     \/ (\E d \in Seq(Segment) : Says([k |-> "up_exp", data |-> d])) /\ Free
     \/ /\ Says([k |-> "up_ini_res", size |-> srv.size])
        /\ Serves("up_seg", 0) /\ srv.toggle = 0
     \/ /\ Says([k |-> "blk_up_ini_res", size |-> srv.size])
        /\ Serves("blk_up_sub", 0) /\ srv.win = 0 /\ srv.blksize = maxSeqno
        /\ cli.st = "blk_up_ini"
     \/ Refuses

TurnUpSeg ==
  LET p == Len(cli.buf)
      t == Flip(cli.toggle)
      last == p + 1 = cli.size
  IN /\ p < cli.size
     /\ \/ /\ Asks([k |-> "up_seg", toggle |-> t])
           /\ Serves("up_seg", p) /\ srv.size = cli.size /\ srv.toggle = t
        \/ /\ \E x \in Segment :
                Says([k |-> "up_seg_res", toggle |-> t, data |-> x, last |-> last])
           /\ IF last THEN Free
              ELSE /\ Serves("up_seg", p + 1)
                   /\ srv.size = cli.size /\ srv.toggle = cli.toggle

TurnBlkUpSub ==
  LET w == srv.win
      from == srv.pos - w
  IN /\ cli.blksize = maxSeqno /\ cli.size = srv.size
     /\ Serves("blk_up_sub", srv.pos)
     /\ \/ /\ srv.pos = 0 /\ w = 0 /\ srv.blksize = maxSeqno
           /\ cli.ackseq = 0 /\ cli.buf = <<>>
           /\ Asks([k |-> "blk_up_start"])
        \/ /\ IsBlock(from, w, srv.size) /\ srv.blksize = w
           /\ cli.ackseq \in 0 .. w - 1
           /\ cli.buf = SubSeq(srv.value, 1, from + cli.ackseq)
           /\ c2s = <<>> /\ s2c = Rest(srv.value, from, w, cli.ackseq)
        \/ /\ IsBlock(from, w, srv.size) /\ srv.blksize = w
           /\ srv.pos < srv.size
           /\ cli.ackseq = 0 /\ cli.buf = SubSeq(srv.value, 1, srv.pos)
           /\ Asks([k |-> "blk_up_res", ackseq |-> w, blksize |-> maxSeqno])

TurnBlkUpEnd ==
  /\ cli.size = Len(cli.buf)
  /\ \/ /\ Serves("blk_up_sub", srv.size) /\ srv.value = cli.buf
        /\ srv.win \in 1 .. maxSeqno /\ srv.blksize = srv.win
        /\ Asks([k |-> "blk_up_res", ackseq |-> srv.win, blksize |-> maxSeqno])
     \/ srv.st = "blk_up_end" /\ Says([k |-> "blk_up_end_res", crc |-> cli.buf])

Downloading == {"dn_ini", "dn_seg", "blk_dn_ini", "blk_dn_sub", "blk_dn_end"}

\* One of the two has the frames that the other waits for.
Turn ==
  /\ cli.st \in Downloading => cli.op = "dn" /\ cli.value \in Whole
  /\ cli.st = "wait" => TurnWait
  /\ cli.st = "dn_ini" => TurnExp \/ TurnDnIni
  /\ cli.st = "dn_seg" => TurnDnSeg
  /\ cli.st = "blk_dn_ini" => TurnBlkDnIni
  /\ cli.st = "blk_dn_sub" => TurnBlkDnSub
  /\ cli.st = "blk_dn_end" => TurnBlkDnEnd
  /\ cli.st \in {"up_ini", "blk_up_ini"} => TurnUpIni
  /\ cli.st = "blk_up_ini" => cli.blksize = maxSeqno
  /\ cli.st = "up_seg" => TurnUpSeg
  /\ cli.st = "blk_up_sub" => TurnBlkUpSub
  /\ cli.st = "blk_up_end" => TurnBlkUpEnd

\* The server had no room for a block download: it has answered the first segment
\* with an abort, which the client may have heard of, and now does so with the
\* segments that followed, each by itself.
Spill ==
  /\ Free /\ cli.op = "dn" /\ NoRoom(Len(cli.value))
  /\ \A i \in 1 .. Len(c2s) : c2s[i].k = "seg"
  /\ \A i \in 1 .. Len(s2c) : s2c[i] = Abort
  /\ \/ cli.st = "blk_dn_sub" /\ s2c # <<>>
     \/ cli.st = "wait" /\ cli.result = "failed"

TurnInv == faults = 0 /\ ~spilled => object \in Whole /\ (Turn \/ Spill)

-----------------------------------------------------------------------------
(* The steps of each state                                                 *)

LEMMA TailOfOne ==
  \A x : /\ <<x>> # <<>> /\ Head(<<x>>) = x /\ Tail(<<x>>) = <<>>
         /\ <<>> \o <<x>> = <<x>>
OBVIOUS

LEMMA NothingMore == <<>> \o <<>> = <<>>
OBVIOUS

\* The reason to refuse a request stays.
LEMMA StillUnserved ==
  ASSUME Unserved, cli'.op = cli.op, cli'.value = cli.value, had \subseteq had'
  PROVE  Unserved'
BY DEF Unserved, IsRefused

\* The handler of a state of the server.
LEMMA ServerHandles ==
  ASSUME ServerReceive
  PROVE  /\ c2s # <<>>
         /\ srv.st = "wait" => ServerWait(Head(c2s))
         /\ srv.st = "dn_seg" => ServerDnSeg(Head(c2s))
         /\ srv.st = "up_seg" => ServerUpSeg(Head(c2s))
         /\ srv.st = "blk_dn_sub" => ServerBlkDnSub(Head(c2s))
         /\ srv.st = "blk_dn_end" => ServerBlkDnEnd(Head(c2s))
         /\ srv.st = "blk_up_sub" => ServerBlkUpSub(Head(c2s))
         /\ srv.st = "blk_up_end" => ServerBlkUpEnd(Head(c2s))
<1> DEFINE m == Head(c2s)
<1>1. /\ ServerWait(m) => srv.st = "wait"
      /\ ServerDnSeg(m) => srv.st = "dn_seg"
      /\ ServerUpSeg(m) => srv.st = "up_seg"
      /\ ServerBlkDnSub(m) => srv.st = "blk_dn_sub"
  BY Zenon DEF ServerWait, ServerDnSeg, ServerUpSeg, ServerBlkDnSub
<1>2. /\ ServerBlkDnEnd(m) => srv.st = "blk_dn_end"
      /\ ServerBlkUpSub(m) => srv.st = "blk_up_sub"
      /\ ServerBlkUpEnd(m) => srv.st = "blk_up_end"
      /\ ServerDeaf(m) => srv.st \in {"stopped", "down"}
  BY Zenon DEF ServerBlkDnEnd, ServerBlkUpSub, ServerBlkUpEnd, ServerDeaf
<1>3. /\ c2s # <<>>
      /\ \/ ServerWait(m) \/ ServerDnSeg(m) \/ ServerUpSeg(m)
         \/ ServerBlkDnSub(m) \/ ServerBlkDnEnd(m) \/ ServerBlkUpSub(m)
         \/ ServerBlkUpEnd(m) \/ ServerDeaf(m)
  BY DEF ServerReceive
<1> HIDE DEF m
<1>4. /\ srv.st = "wait" => ServerWait(m)
      /\ srv.st = "dn_seg" => ServerDnSeg(m)
      /\ srv.st = "up_seg" => ServerUpSeg(m)
      /\ srv.st = "blk_dn_sub" => ServerBlkDnSub(m)
      /\ srv.st = "blk_dn_end" => ServerBlkDnEnd(m)
      /\ srv.st = "blk_up_sub" => ServerBlkUpSub(m)
      /\ srv.st = "blk_up_end" => ServerBlkUpEnd(m)
  BY <1>1, <1>2, <1>3
<1> QED BY <1>3, <1>4 DEF m

\* The handler of a state of the client, for a frame that is no abort.
LEMMA ClientHandles ==
  ASSUME ClientReceive, NEW m, m = Head(s2c), ~IsAbort(m)
  PROVE  /\ s2c # <<>>
         /\ cli.st = "dn_ini" => ClientDnIni(m)
         /\ cli.st = "dn_seg" => ClientDnSeg(m)
         /\ cli.st = "blk_dn_ini" => ClientBlkDnIni(m)
         /\ cli.st = "blk_dn_sub" => ClientBlkDnSub(m)
         /\ cli.st = "blk_dn_end" => ClientBlkDnEnd(m)
         /\ cli.st \in {"up_ini", "blk_up_ini"} => ClientUpIni(m)
         /\ cli.st = "up_seg" => ClientUpSeg(m)
         /\ cli.st = "blk_up_end" => ClientBlkUpEnd(m)
<1>1. ClientDown(m) =>
        /\ cli.st \in Downloading
        /\ cli.st = "dn_ini" => ClientDnIni(m)
        /\ cli.st = "dn_seg" => ClientDnSeg(m)
        /\ cli.st = "blk_dn_ini" => ClientBlkDnIni(m)
        /\ cli.st = "blk_dn_sub" => ClientBlkDnSub(m)
        /\ cli.st = "blk_dn_end" => ClientBlkDnEnd(m)
  <2>1. /\ ClientDnIni(m) => cli.st = "dn_ini"
        /\ ClientDnSeg(m) => cli.st = "dn_seg"
        /\ ClientBlkDnIni(m) => cli.st = "blk_dn_ini"
        /\ ClientBlkDnSub(m) => cli.st = "blk_dn_sub"
        /\ ClientBlkDnEnd(m) => cli.st = "blk_dn_end"
    BY Zenon DEF ClientDnIni, ClientDnSeg, ClientBlkDnIni, ClientBlkDnSub, ClientBlkDnEnd
  <2> QED BY <2>1 DEF ClientDown, Downloading
<1>2. m.k # "abort"
  BY DEF IsAbort
<1>3. /\ s2c # <<>>
      /\ \/ cli.st = "wait"
         \/ cli.st = "blk_up_sub"
         \/ ClientDown(m)
         \/ cli.st \in {"up_ini", "blk_up_ini"} /\ ClientUpIni(m)
         \/ cli.st = "up_seg" /\ ClientUpSeg(m)
         \/ cli.st = "blk_up_end" /\ ClientBlkUpEnd(m)
  BY <1>2 DEF ClientReceive
<1> QED BY <1>1, <1>3 DEF Downloading

LEMMA ClientAborts ==
  ASSUME ClientReceive, Head(s2c) = Abort,
         cli.st \in Downloading \cup {"up_ini", "blk_up_ini"}
  PROVE  AbortInd
<1> DEFINE m == Head(s2c)
<1>1. IsAbort(m) /\ m.k = "abort"
  BY DEF IsAbort, Abort
<1> HIDE DEF m
<1>2. /\ cli.st # "wait"
      /\ cli.st \notin {"up_seg", "blk_up_sub", "blk_up_end"}
  BY DEF Downloading
<1> QED BY <1>1, <1>2, Zenon DEF ClientReceive, m

\* The one frame after the step, which need not change with the variables.
SaysNext(x) == c2s' = <<>> /\ s2c' = <<x>>
AsksNext(x) == c2s' = <<x>> /\ s2c' = <<>>

\* The server answers the only frame with one.
LEMMA AnswersOne ==
  ASSUME NEW m, Asks(m), NEW r, NEW x, Answer(r, <<x>>)
  PROVE  srv' = r /\ SaysNext(x) /\ cli' = cli /\ maxSeqno' = maxSeqno
BY TailOfOne DEF Asks, SaysNext, Answer

\* The client replies to the only frame with one, or with nothing.
LEMMA RepliesOne ==
  ASSUME NEW m, Says(m), NEW c, NEW x, Reply(c, <<x>>)
  PROVE  cli' = c /\ AsksNext(x) /\ srv' = srv /\ maxSeqno' = maxSeqno /\ object' = object
BY TailOfOne DEF AsksNext, Says, Reply

LEMMA RepliesNothing ==
  ASSUME NEW m, Says(m), NEW c, Reply(c, <<>>)
  PROVE  /\ cli' = c /\ c2s' = <<>> /\ s2c' = <<>> /\ srv' = srv
         /\ maxSeqno' = maxSeqno /\ object' = object /\ had' = had
BY TailOfOne, NothingMore DEF Says, Reply, history

\* A download is stored or refused.
LEMMA DownloadEnds ==
  ASSUME NEW m, Asks(m), NEW x, object \in Whole, cli.value \in Whole, cli.op = "dn",
         Download(cli.value, ServerIn("wait"), <<x>>)
  PROVE  /\ object' \in Whole /\ cli' = cli /\ maxSeqno' = maxSeqno
         /\ (SaysNext(x) /\ Free') \/ Refuses'
<1>1. CASE IsRefused(cli.value)
  <2>1. Keep /\ Answer(ServerIn("wait"), <<Abort>>)
    BY <1>1, Zenon DEF Download, AbortRes, ServerEnd
  <2>2. srv' = ServerIn("wait") /\ SaysNext(Abort) /\ cli' = cli /\ maxSeqno' = maxSeqno
    BY <2>1, AnswersOne
  <2>3. object' = object
    BY <2>1 DEF Keep
  <2>4. Unserved'
    BY <1>1, <2>2 DEF Unserved, IsRefused
  <2> QED BY <2>2, <2>3, <2>4 DEF Refuses, Free, Says, SaysNext, Abort
<1>2. CASE ~IsRefused(cli.value)
  <2>1. Store(cli.value) /\ Answer(ServerIn("wait"), <<x>>)
    BY <1>2, Zenon DEF Download
  <2>2. srv' = ServerIn("wait") /\ SaysNext(x) /\ cli' = cli /\ maxSeqno' = maxSeqno
    BY <2>1, AnswersOne
  <2>3. object' = cli.value
    BY <2>1 DEF Store
  <2> QED BY <2>2, <2>3 DEF Free
<1> QED BY <1>1, <1>2

\* The frame that ends a block upload arrives.
LEMMA EndArrives ==
  ASSUME NEW tx \in Seq(FromClient), Sent(tx), ServerReceive
  PROVE  \/ Free /\ c2s = tx /\ s2c = <<>> /\ c2s # <<>> /\ ServerWait(Head(c2s))
         \/ /\ srv' = ServerIn("wait") /\ c2s' = tx /\ s2c' = <<>>
            /\ cli' = cli /\ maxSeqno' = maxSeqno /\ object' = object /\ had' = had
<1>1. CASE Free /\ c2s = tx
  <2>1. srv.st = "wait"
    BY <1>1 DEF Free, ServerIn
  <2> QED BY <1>1, <2>1, ServerHandles DEF Sent
<1>2. CASE srv.st = "blk_up_end" /\ c2s = <<EndReq>> \o tx
  <2>1. Head(c2s) = EndReq /\ Tail(c2s) = tx
    <3>1. EndReq \in FromClient
      BY ClientFrames DEF EndReq
    <3> HIDE DEF EndReq
    <3> QED BY <1>2, <3>1
  <2>2. ServerBlkUpEnd(EndReq)
    BY <1>2, <2>1, ServerHandles
  <2>3. Keep /\ Answer(ServerIn("wait"), <<>>)
    BY <2>2, Zenon DEF ServerBlkUpEnd, ServerEnd, EndReq
  <2>4. s2c = <<>>
    BY DEF Sent
  <2> QED BY <2>1, <2>3, <2>4, NothingMore DEF Answer, Keep
<1> QED BY <1>1, <1>2 DEF Sent

-----------------------------------------------------------------------------
(* The server's turn                                                       *)

ServerKept == object' \in Whole /\ cli' = cli /\ maxSeqno' = maxSeqno

LEMMA WholeVal == \A d \in Whole : d \in Val /\ d \in Seq(Segment) /\ Len(d) \in 1 .. 15
BY SegsVal, ValLen DEF Whole

\* A fresh server becomes r, which is all there is to show of it.
LEMMA FreshAnswers ==
  ASSUME NEW m, Free, c2s = <<m>>, s2c = <<>>, NEW r, NEW x,
         Answer(r, <<x>>), Keep, object \in Whole
  PROVE  ServerKept /\ SaysNext(x) /\ srv' = r
<1>1. Asks(m)
  BY DEF Asks
<1>2. srv' = r /\ SaysNext(x) /\ cli' = cli /\ maxSeqno' = maxSeqno
  BY <1>1, AnswersOne
<1> QED BY <1>2 DEF ServerKept, Keep

LEMMA ExpServed ==
  ASSUME FInv, object \in Whole, cli.value \in Whole, cli.op = "dn",
         TurnExp, ServerReceive
  PROVE  TurnExp' /\ ServerKept
<1> DEFINE m == [k |-> "dn_exp", data |-> cli.value]
<1>1. c2s # <<>> /\ Sent(<<m>>) /\ cli.pos = Len(cli.value)
  BY ServerHandles DEF TurnExp, Says, Refuses
<1>2. <<m>> \in Seq(FromClient)
  <2>1. m \in FromClient
    BY WholeVal, ClientFrames
  <2> HIDE DEF m
  <2> QED BY <2>1
<1>3. m.k = "dn_exp" /\ m.data = cli.value
  OBVIOUS
<1> HIDE DEF m
<1>4. \/ Free /\ c2s = <<m>> /\ s2c = <<>> /\ ServerWait(m)
      \/ /\ srv' = ServerIn("wait") /\ c2s' = <<m>> /\ s2c' = <<>>
         /\ cli' = cli /\ maxSeqno' = maxSeqno /\ object' = object
  BY <1>1, <1>2, EndArrives, TailOfOne
<1>5. CASE Free /\ c2s = <<m>> /\ s2c = <<>> /\ ServerWait(m)
  <2>1. Download(m.data, ServerIn("wait"), <<[k |-> "dn_ini_res"]>>)
    BY <1>3, <1>5, Zenon
    DEF ServerWait, ServerDnIni, ServerUpIni, ServerBlkDnIni, ServerBlkUpIni, IsAbort
  <2>2. Asks(m)
    BY <1>5 DEF Asks
  <2>3. /\ object' \in Whole /\ cli' = cli /\ maxSeqno' = maxSeqno
        /\ (SaysNext([k |-> "dn_ini_res"]) /\ Free') \/ Refuses'
    BY <1>3, <2>1, <2>2, DownloadEnds
  <2> QED BY <1>1, <2>3 DEF TurnExp, ServerKept, Says, SaysNext
<1>6. CASE /\ srv' = ServerIn("wait") /\ c2s' = <<m>> /\ s2c' = <<>>
           /\ cli' = cli /\ maxSeqno' = maxSeqno /\ object' = object
  <2>1. Sent(<<m>>)'
    BY <1>6 DEF Sent, Free, m
  <2> QED BY <1>1, <1>6, <2>1 DEF TurnExp, ServerKept, m
<1> QED BY <1>4, <1>5, <1>6

LEMMA DnIniServed ==
  ASSUME FInv, object \in Whole, cli.value \in Whole, TurnDnIni, ServerReceive
  PROVE  TurnDnIni' /\ ServerKept
<1> DEFINE m == [k |-> "dn_ini", size |-> Len(cli.value)]
<1>1. c2s # <<>> /\ Sent(<<m>>) /\ cli.pos = 0 /\ cli.toggle = 0
  BY ServerHandles DEF TurnDnIni, Says
<1>2. <<m>> \in Seq(FromClient)
  <2>1. m \in FromClient
    BY WholeVal, ClientFrames
  <2> HIDE DEF m
  <2> QED BY <2>1
<1>3. m.k = "dn_ini" /\ m.size = Len(cli.value)
  OBVIOUS
<1> HIDE DEF m
<1>4. \/ Free /\ c2s = <<m>> /\ s2c = <<>> /\ ServerWait(m)
      \/ /\ srv' = ServerIn("wait") /\ c2s' = <<m>> /\ s2c' = <<>>
         /\ cli' = cli /\ maxSeqno' = maxSeqno /\ object' = object
  BY <1>1, <1>2, EndArrives, TailOfOne
<1>5. CASE Free /\ c2s = <<m>> /\ s2c = <<>> /\ ServerWait(m)
  <2> DEFINE r == [srv EXCEPT !.st = "dn_seg", !.size = m.size]
  <2>1. Keep /\ Answer(r, <<[k |-> "dn_ini_res"]>>)
    BY <1>3, <1>5, Zenon
    DEF ServerWait, ServerDnIni, ServerUpIni, ServerBlkDnIni, ServerBlkUpIni, IsAbort
  <2>2. ServerKept /\ SaysNext([k |-> "dn_ini_res"]) /\ srv' = r
    BY <1>5, <2>1, FreshAnswers
  <2>3. /\ r.st = "dn_seg" /\ r.size = Len(cli.value) /\ r.data = <<>>
        /\ r.toggle = 0
    BY <1>3, <1>5 DEF Free, ServerIn
  <2>4. SubSeq(cli.value, 1, 0) = <<>>
    BY WholeVal, Prefix
  <2> HIDE DEF r
  <2> QED BY <1>1, <2>2, <2>3, <2>4 DEF TurnDnIni, Collects, ServerKept, Says, SaysNext
<1>6. CASE /\ srv' = ServerIn("wait") /\ c2s' = <<m>> /\ s2c' = <<>>
           /\ cli' = cli /\ maxSeqno' = maxSeqno /\ object' = object
  <2>1. Sent(<<m>>)'
    BY <1>6 DEF Sent, Free, m
  <2> QED BY <1>1, <1>6, <2>1 DEF TurnDnIni, ServerKept, m
<1> QED BY <1>4, <1>5, <1>6

LEMMA BlkDnIniServed ==
  ASSUME FInv, object \in Whole, cli.value \in Whole, TurnBlkDnIni, ServerReceive
  PROVE  TurnBlkDnIni' /\ ServerKept
<1> DEFINE m == [k |-> "blk_dn_ini", size |-> Len(cli.value)]
<1>1. c2s # <<>> /\ Sent(<<m>>) /\ cli.pos = 0
  BY ServerHandles DEF TurnBlkDnIni, Says
<1>2. <<m>> \in Seq(FromClient)
  <2>1. m \in FromClient
    BY WholeVal, ClientFrames
  <2> HIDE DEF m
  <2> QED BY <2>1
<1>3. m.k = "blk_dn_ini" /\ m.size = Len(cli.value)
  OBVIOUS
<1> HIDE DEF m
<1>4. \/ Free /\ c2s = <<m>> /\ s2c = <<>> /\ ServerWait(m)
      \/ /\ srv' = ServerIn("wait") /\ c2s' = <<m>> /\ s2c' = <<>>
         /\ cli' = cli /\ maxSeqno' = maxSeqno /\ object' = object
  BY <1>1, <1>2, EndArrives, TailOfOne
<1>5. CASE Free /\ c2s = <<m>> /\ s2c = <<>> /\ ServerWait(m)
  <2> DEFINE r == [srv EXCEPT !.st = "blk_dn_sub", !.size = m.size,
                              !.blksize = maxSeqno]
             x == [k |-> "blk_dn_ini_res", blksize |-> maxSeqno]
  <2>1. Keep /\ Answer(r, <<x>>)
    BY <1>3, <1>5, Zenon
    DEF ServerWait, ServerDnIni, ServerUpIni, ServerBlkDnIni, ServerBlkUpIni, IsAbort
  <2>3. /\ r.st = "blk_dn_sub" /\ r.size = Len(cli.value) /\ r.data = <<>>
        /\ r.ackseq = 0 /\ r.blksize = maxSeqno
    BY <1>3, <1>5 DEF Free, ServerIn
  <2> HIDE DEF r, x
  <2>2. ServerKept /\ SaysNext(x) /\ srv' = r
    BY <1>5, <2>1, FreshAnswers
  <2>4. SubSeq(cli.value, 1, 0) = <<>>
    BY WholeVal, Prefix
  <2> HIDE DEF r
  <2> QED BY <1>1, <2>2, <2>3, <2>4 DEF TurnBlkDnIni, Collects, ServerKept, Says, SaysNext, x
<1>6. CASE /\ srv' = ServerIn("wait") /\ c2s' = <<m>> /\ s2c' = <<>>
           /\ cli' = cli /\ maxSeqno' = maxSeqno /\ object' = object
  <2>1. Sent(<<m>>)'
    BY <1>6 DEF Sent, Free, m
  <2> QED BY <1>1, <1>6, <2>1 DEF TurnBlkDnIni, ServerKept, m
<1> QED BY <1>4, <1>5, <1>6

LEMMA DnSegServed ==
  ASSUME FInv, object \in Whole, cli.value \in Whole, cli.op = "dn",
         TurnDnSeg, ServerReceive
  PROVE  TurnDnSeg' /\ ServerKept
<1> DEFINE d == cli.value
           p == cli.pos
           t == Flip(cli.toggle)
           last == p = Len(d)
           m == [k |-> "dn_seg", toggle |-> t, data |-> d[p], last |-> last]
           x == [k |-> "dn_seg_res", toggle |-> t]
           data == Append(srv.data, d[p])
           next == IF last THEN ServerIn("wait")
                   ELSE [srv EXCEPT !.data = data, !.toggle = Flip(@)]
<1>1. /\ p >= 1 /\ Asks(m) /\ Collects("dn_seg", p - 1) /\ srv.toggle = t
  BY ServerHandles DEF TurnDnSeg, Says, Refuses
<1>2. /\ d \in Seq(Segment) /\ Len(d) \in Nat /\ p \in 1 .. Len(d)
      /\ cli.toggle \in 0 .. 1 /\ srv \in ServerState
  BY <1>1, WholeVal DEF FInv, ClientFits, Within, ClientState, ServerFits
<1>3. data = SubSeq(d, 1, p) /\ Len(data) = p /\ (last => data = d)
  <2>1. srv.data = SubSeq(d, 1, p - 1)
    BY <1>1 DEF Collects
  <2> HIDE DEF d, p
  <2> QED BY <1>2, <2>1, Prefix
<1>4. c2s = <<m>> /\ Head(c2s) = m
  BY <1>1, TailOfOne DEF Asks
<1>5. ServerDnSeg(m)
  BY <1>1, <1>4, ServerHandles DEF Collects
<1>6. /\ m.k = "dn_seg" /\ Toggle(m) = srv.toggle /\ LastOf(m) = last /\ ~IsAbort(m)
      /\ m.data = d[p]
  BY <1>1 DEF Toggle, LastOf, IsAbort
<1>7. Len(data) <= srv.size /\ (last => Len(data) = srv.size)
      /\ (Len(data) = srv.size => last) /\ Len(data) \in Nat /\ srv.size \in Nat
  <2> DEFINE size == Len(d)
  <2>1. /\ Len(data) = p /\ srv.size = size /\ p \in 1 .. size /\ size \in Nat
        /\ last <=> p = size
    BY <1>1, <1>2, <1>3 DEF Collects
  <2> HIDE DEF size, data, p, last
  <2> QED BY <2>1
<1> HIDE DEF m, x, data
<1>8. IF NoRoom(srv.size) THEN AbortRes
      ELSE IF last THEN Download(data, next, <<x>>)
      ELSE Answer(next, <<x>>) /\ Keep
  <2>1. IF \/ Len(data) > srv.size \/ (last /\ Len(data) # srv.size)
           \/ NoRoom(srv.size)
        THEN AbortRes
        ELSE IF Len(data) = srv.size THEN Download(data, next, <<x>>)
        ELSE Answer(next, <<x>>) /\ Keep
    <3> HIDE DEF last, d, p, t
    <3>1. Toggle(m) = srv.toggle /\ ~(Toggle(m) # srv.toggle) /\ m.k \in {"dn_seg", "seg"}
      BY <1>6
    <3>2. IF \/ Len(Append(srv.data, m.data)) > srv.size
             \/ (LastOf(m) /\ Len(Append(srv.data, m.data)) # srv.size)
             \/ NoRoom(srv.size)
          THEN AbortRes
          ELSE IF Len(Append(srv.data, m.data)) = srv.size
               THEN Download(Append(srv.data, m.data),
                             IF LastOf(m) THEN ServerIn("wait")
                             ELSE [srv EXCEPT !.data = Append(srv.data, m.data),
                                              !.toggle = Flip(@)],
                             <<[k |-> "dn_seg_res", toggle |-> srv.toggle]>>)
               ELSE /\ Answer(IF LastOf(m) THEN ServerIn("wait")
                              ELSE [srv EXCEPT !.data = Append(srv.data, m.data),
                                               !.toggle = Flip(@)],
                              <<[k |-> "dn_seg_res", toggle |-> srv.toggle]>>)
                    /\ Keep
      BY <1>5, <1>6, <3>1, Zenon DEF ServerDnSeg
    <3>3. srv.toggle = t
      BY <1>1
    <3> QED BY <1>6, <3>2, <3>3, Zenon DEF data, x, d, p
  <2> HIDE DEF last, next
  <2> QED BY <1>7, <2>1
<1>11. CASE NoRoom(srv.size)
  <2>1. Keep /\ Answer(ServerIn("wait"), <<Abort>>)
    BY <1>8, <1>11, Zenon DEF AbortRes, ServerEnd
  <2>2. srv' = ServerIn("wait") /\ SaysNext(Abort) /\ cli' = cli /\ maxSeqno' = maxSeqno
    BY <1>1, <2>1, AnswersOne
  <2>3. object' = object
    BY <2>1 DEF Keep
  <2>4. Unserved'
    BY <1>1, <1>11, <2>2 DEF Unserved, Collects
  <2>5. Refuses'
    BY <2>2, <2>4 DEF Refuses, Free, Says, SaysNext, Abort
  <2> QED BY <1>1, <2>2, <2>3, <2>5 DEF TurnDnSeg, ServerKept
<1>9. CASE last /\ ~NoRoom(srv.size)
  <2>1. Download(d, ServerIn("wait"), <<x>>)
    BY <1>3, <1>8, <1>9
  <2>2. /\ object' \in Whole /\ cli' = cli /\ maxSeqno' = maxSeqno
        /\ (SaysNext(x) /\ Free') \/ Refuses'
    BY <1>1, <2>1, DownloadEnds
  <2> QED BY <1>1, <1>9, <2>2 DEF TurnDnSeg, ServerKept, x, Says, SaysNext
<1>10. CASE ~last /\ ~NoRoom(srv.size)
  <2> DEFINE r == [srv EXCEPT !.data = data, !.toggle = Flip(@)]
  <2>1. Answer(r, <<x>>) /\ Keep
    BY <1>8, <1>10
  <2>2. /\ r.st = "dn_seg" /\ r.size = Len(d) /\ r.data = data
        /\ r.toggle = cli.toggle
    BY <1>1, <1>2 DEF Collects, ServerState, Flip
  <2> HIDE DEF r
  <2>3. srv' = r /\ SaysNext(x) /\ cli' = cli /\ maxSeqno' = maxSeqno
    BY <1>1, <2>1, AnswersOne
  <2>4. object' = object
    BY <2>1 DEF Keep
  <2> QED
    BY <1>1, <1>3, <1>10, <2>2, <2>3, <2>4
    DEF TurnDnSeg, ServerKept, Collects, x, Says, SaysNext
<1> QED BY <1>9, <1>10, <1>11

LEMMA BlkDnEndServed ==
  ASSUME FInv, object \in Whole, cli.value \in Whole, cli.op = "dn",
         TurnBlkDnEnd, ServerReceive
  PROVE  TurnBlkDnEnd' /\ ServerKept
<1> DEFINE d == cli.value
           m == [k |-> "blk_dn_end", crc |-> d]
<1>1. Asks(m) /\ Collects("blk_dn_end", Len(d))
  BY ServerHandles DEF TurnBlkDnEnd, Says, Refuses
<1>2. d \in Seq(Segment) /\ Len(d) \in 1 .. Len(d)
  <2>1. d \in Seq(Segment) /\ Len(d) \in 1 .. 15
    BY WholeVal
  <2> DEFINE n == Len(d)
  <2>2. n \in 1 .. 15
    BY <2>1
  <2> HIDE DEF n
  <2>3. n \in 1 .. n
    BY <2>2
  <2> QED BY <2>1, <2>3 DEF n
<1>3. srv.data = d /\ Len(d) = srv.size
  BY <1>1, <1>2, Prefix DEF Collects
<1>4. ServerBlkDnEnd(m)
  BY <1>1, ServerHandles, TailOfOne DEF Asks, Collects
<1>5. m.k = "blk_dn_end" /\ m.crc = d
  OBVIOUS
<1> HIDE DEF m
<1>6. Download(d, ServerIn("wait"), <<[k |-> "blk_dn_end_res"]>>)
  BY <1>3, <1>4, <1>5, Zenon DEF ServerBlkDnEnd, IsAbort
<1>7. /\ object' \in Whole /\ cli' = cli /\ maxSeqno' = maxSeqno
      /\ (SaysNext([k |-> "blk_dn_end_res"]) /\ Free') \/ Refuses'
  BY <1>1, <1>6, DownloadEnds
<1> QED BY <1>7 DEF TurnBlkDnEnd, ServerKept, Says, SaysNext

\* The frames of a block are taken one by one.
LEMMA RestOfBlock ==
  ASSUME NEW d \in Seq(Segment), NEW from \in Nat, NEW n \in Nat,
         from + n <= Len(d), n < 128
  PROVE  /\ Rest(d, from, n, 0) = Block(d, from, n, from + n = Len(d))
         /\ Rest(d, from, n, n) = <<>>
         /\ \A i \in 0 .. n - 1 :
              /\ Rest(d, from, n, i) # <<>>
              /\ Head(Rest(d, from, n, i)) =
                   [k |-> "seg", seqno |-> i + 1, data |-> d[from + (i + 1)],
                    last |-> from + n = Len(d) /\ i + 1 = n]
              /\ Tail(Rest(d, from, n, i)) = Rest(d, from, n, i + 1)
<1> DEFINE f(i, j) == [k |-> "seg", seqno |-> i + j, data |-> d[from + (i + j)],
                       last |-> from + n = Len(d) /\ i + j = n]
<1>1. Rest(d, from, n, 0) = Block(d, from, n, from + n = Len(d))
  <2>1. \A j \in 1 .. n : 0 + j = j
    OBVIOUS
  <2>2. n - 0 = n
    OBVIOUS
  <2> QED BY <2>1, <2>2 DEF Rest, Block
<1>2. Rest(d, from, n, n) = <<>>
  BY DEF Rest
<1>3. ASSUME NEW i \in 0 .. n - 1
      PROVE  /\ Rest(d, from, n, i) # <<>>
             /\ Head(Rest(d, from, n, i)) = f(i, 1)
             /\ Tail(Rest(d, from, n, i)) = Rest(d, from, n, i + 1)
  <2> DEFINE s == Rest(d, from, n, i)
             u == Rest(d, from, n, i + 1)
  <2>1. \A a \in 0 .. n : \A j \in 1 .. n - a : f(a, j) \in FromClient
    <3> SUFFICES ASSUME NEW a \in 0 .. n, NEW j \in 1 .. n - a
                 PROVE  f(a, j) \in FromClient
      OBVIOUS
    <3>1. a + j \in Seqno /\ from + (a + j) \in 1 .. Len(d)
      BY DEF Seqno
    <3>2. d[from + (a + j)] \in Segment
          /\ (from + n = Len(d) /\ a + j = n) \in BOOLEAN
      BY <3>1
    <3> QED BY <3>1, <3>2, ClientFrames
  <2>2. s = [j \in 1 .. n - i |-> f(i, j)] /\ u = [j \in 1 .. n - (i + 1) |-> f(i + 1, j)]
    BY DEF Rest
  <2>3. \A j \in 1 .. n - (i + 1) : f(i, j + 1) = f(i + 1, j)
    <3>1. \A j \in 1 .. n - (i + 1) : i + (j + 1) = (i + 1) + j
      OBVIOUS
    <3> QED BY <3>1
  <2> HIDE DEF f
  <2>4. /\ s \in Seq(FromClient) /\ Len(s) = n - i
        /\ \A j \in 1 .. n - i : s[j] = f(i, j)
    <3>1. n - i \in Nat /\ \A j \in 1 .. n - i : f(i, j) \in FromClient
      BY <2>1
    <3> QED BY <2>2, <3>1
  <2>5. /\ u \in Seq(FromClient) /\ Len(u) = n - (i + 1)
        /\ \A j \in 1 .. n - (i + 1) : u[j] = f(i + 1, j)
    <3>1. n - (i + 1) \in Nat /\ i + 1 \in 0 .. n
      OBVIOUS
    <3>2. \A j \in 1 .. n - (i + 1) : f(i + 1, j) \in FromClient
      BY <2>1, <3>1
    <3> QED BY <2>2, <3>1, <3>2
  <2> HIDE DEF s, u
  <2>6. s # <<>> /\ Head(s) = f(i, 1)
    BY <2>4
  <2>7. /\ Tail(s) \in Seq(FromClient) /\ Len(Tail(s)) = n - (i + 1)
        /\ \A j \in 1 .. n - (i + 1) : Tail(s)[j] = s[j + 1]
    BY <2>4, <2>6
  <2>8. \A j \in 1 .. n - (i + 1) : Tail(s)[j] = u[j]
    <3>1. \A j \in 1 .. n - (i + 1) : j + 1 \in 1 .. n - i
      OBVIOUS
    <3> QED BY <2>3, <2>4, <2>5, <2>7, <3>1
  <2>9. Tail(s) = u
    BY <2>5, <2>7, <2>8, SeqEqual
  <2> QED BY <2>6, <2>9 DEF s, u
<1> QED BY <1>1, <1>2, <1>3

LEMMA RestIsSegments ==
  ASSUME NEW d, NEW from, NEW n, NEW i, n - i \in Nat
  PROVE  \A j \in 1 .. Len(Rest(d, from, n, i)) : Rest(d, from, n, i)[j].k = "seg"
<1> DEFINE q == Rest(d, from, n, i)
           len == n - i
           f(j) == [k |-> "seg", seqno |-> i + j, data |-> d[from + (i + j)],
                    last |-> from + n = Len(d) /\ i + j = n]
<1>1. q = [j \in 1 .. len |-> f(j)] /\ \A j \in 1 .. len : f(j).k = "seg"
  BY DEF Rest
<1> HIDE DEF q, len, f
<1>2. Len(q) = len
  BY <1>1 DEF len
<1>3. \A j \in 1 .. Len(q) : q[j].k = "seg"
  BY <1>1, <1>2
<1> QED BY <1>3 DEF q

LEMMA BlockBounds ==
  ASSUME FInv, NEW from, NEW n, NEW size \in 1 .. 15, IsBlock(from, n, size)
  PROVE  /\ from \in Nat /\ n \in 1 .. 127 /\ n \in Nat /\ n < 128 /\ n >= 1
         /\ from + n <= size /\ n <= maxSeqno /\ maxSeqno \in 1 .. 127
         /\ n # maxSeqno => from + n = size
BY MaxSeqnoType DEF IsBlock, FInv

LEMMA BlkDnSubServed ==
  ASSUME FInv, object \in Whole, cli.value \in Whole, cli.op = "dn",
         TurnBlkDnSub, ServerReceive
  PROVE  /\ TurnBlkDnSub' \/ (cli.st = "blk_dn_sub" => Spill')
         /\ ServerKept
<1> DEFINE d == cli.value
           n == cli.blksize
           from == cli.pos - n
           last == cli.pos = Len(d)
           i == srv.ackseq
           m == [k |-> "seg", seqno |-> i + 1, data |-> d[from + (i + 1)],
                 last |-> from + n = Len(d) /\ i + 1 = n]
           data == SubSeq(d, 1, from + (i + 1))
           x == [k |-> "blk_dn_res", ackseq |-> n, blksize |-> maxSeqno]
<1>1. /\ IsBlock(from, n, Len(d)) /\ srv.blksize = maxSeqno
      /\ i \in 0 .. n - 1 /\ Collects("blk_dn_sub", from + i)
      /\ c2s = Rest(d, from, n, i) /\ s2c = <<>>
  BY ServerHandles DEF TurnBlkDnSub, Says
<1>2. d \in Seq(Segment) /\ Len(d) \in 1 .. 15 /\ cli.pos \in Nat /\ n \in Seqno
      /\ srv \in ServerState
  BY WholeVal DEF FInv, ClientFits, Within, ClientState, ServerFits
<1>3. /\ from \in Nat /\ n \in Nat /\ n < 128 /\ n >= 1
      /\ from + n <= Len(d) /\ n <= maxSeqno /\ maxSeqno \in 1 .. 127
      /\ n # maxSeqno => from + n = Len(d)
  <2> DEFINE size == Len(d)
  <2> HIDE DEF from, n, d, size, i
  <2>1. IsBlock(from, n, size) /\ size \in 1 .. 15
    BY <1>1, <1>2 DEF size
  <2>2. /\ from \in Nat /\ n \in Nat /\ n < 128 /\ n >= 1
        /\ from + n <= size /\ n <= maxSeqno /\ maxSeqno \in 1 .. 127
        /\ n # maxSeqno => from + n = size
    BY <2>1, BlockBounds
  <2> QED BY <2>2 DEF size
<1>4. from + n = cli.pos /\ (last <=> from + n = Len(d)) /\ i \in Nat
  <2>1. from = cli.pos - n /\ n \in Nat /\ cli.pos \in Nat /\ i \in 0 .. n - 1
    BY <1>1, <1>2, <1>3
  <2> HIDE DEF from, n, i
  <2>2. from + n = cli.pos /\ i \in Nat
    BY <2>1
  <2> QED BY <2>2
<1> HIDE DEF n, from, i
<1>5. c2s # <<>> /\ Head(c2s) = m /\ Tail(c2s) = Rest(d, from, n, i + 1)
  BY <1>1, <1>2, <1>3, RestOfBlock
<1>6. ServerBlkDnSub(m)
  BY <1>1, <1>5, ServerHandles DEF Collects
<1>7. /\ m.k = "seg" /\ SeqnoOf(m) = i + 1 /\ Accept(m, srv.ackseq)
      /\ m.data = d[from + (i + 1)]
      /\ LastInBlock(m) <=> (from + n = Len(d) /\ i + 1 = n)
  BY DEF SeqnoOf, Accept, LastInBlock, i
<1>8. /\ Append(srv.data, m.data) = data /\ Len(srv.data) < srv.size
  <2>1. srv.data = SubSeq(d, 1, from + i) /\ srv.size = Len(d)
    BY <1>1 DEF Collects
  <2>2. from + (i + 1) \in 1 .. Len(d) /\ (from + (i + 1)) - 1 = from + i
        /\ from + i \in 0 .. Len(d) - 1
    BY <1>1, <1>2, <1>3, <1>4
  <2>3. Len(srv.data) = from + i
    BY <1>2, <2>1, <2>2, SubSeqProperties
  <2> HIDE DEF d, m
  <2>4. Append(SubSeq(d, 1, from + i), d[from + (i + 1)]) = SubSeq(d, 1, from + (i + 1))
    BY <1>2, <2>2, Prefix
  <2>5. Append(srv.data, m.data) = Append(SubSeq(d, 1, from + i), d[from + (i + 1)])
    BY <1>7, <2>1
  <2>6. Len(srv.data) < srv.size
    <3> DEFINE size == Len(d)
    <3>1. Len(srv.data) = from + i /\ srv.size = size /\ from + i \in 0 .. size - 1
          /\ size \in 1 .. 15
      BY <1>2, <2>1, <2>2, <2>3
    <3> HIDE DEF size
    <3> QED BY <3>1
  <2> QED BY <2>4, <2>5, <2>6
<1>9. LastInBlock(m) \in BOOLEAN
  BY DEF LastInBlock
<1> DEFINE end == LastInBlock(m)
           full == i + 1 = srv.blksize \/ end
           r == [srv EXCEPT !.data = data,
                            !.ackseq = IF full THEN 0 ELSE i + 1,
                            !.st = IF end THEN "blk_dn_end" ELSE @]
           tx == IF full THEN <<[k |-> "blk_dn_res", ackseq |-> i + 1,
                                 blksize |-> srv.blksize]>>
                 ELSE <<>>
<1>10. full <=> i + 1 = n
  BY <1>1, <1>3, <1>4, <1>7
\* Without room the first segment that is taken is refused.
<1>16. CASE NoRoom(srv.size)
  <2>1. AbortRes
    <3>1. m.k # "abort" /\ Accept(m, srv.ackseq)
      BY <1>7
    <3> HIDE DEF m
    <3> QED BY <1>6, <1>16, <3>1, Zenon DEF ServerBlkDnSub
  <2>2. Keep /\ Answer(ServerIn("wait"), <<Abort>>)
    BY <2>1, Zenon DEF AbortRes, ServerEnd
  <2>3. /\ srv' = ServerIn("wait") /\ c2s' = Rest(d, from, n, i + 1)
        /\ s2c' = <<Abort>> /\ cli' = cli /\ maxSeqno' = maxSeqno /\ object' = object
    BY <1>1, <1>5, <2>2, TailOfOne DEF Answer, Keep
  <2>4. \A j \in 1 .. Len(c2s') : c2s'[j].k = "seg"
    <3>1. n - (i + 1) \in Nat
      BY <1>1, <1>3, <1>4
    <3> HIDE DEF d
    <3> QED BY <2>3, <3>1, RestIsSegments
  <2>5. /\ \A j \in 1 .. Len(s2c') : s2c'[j] = Abort
        /\ s2c' # <<>>
    BY <2>3
  <2>6. NoRoom(Len(cli.value))'
    BY <1>1, <1>16, <2>3 DEF Collects
  <2>7. cli.st = "blk_dn_sub" => Spill'
    BY <2>3, <2>4, <2>5, <2>6 DEF Spill, Free
  <2> QED BY <2>3, <2>7 DEF ServerKept
<1>17. SUFFICES ASSUME ~NoRoom(srv.size)
                PROVE  TurnBlkDnSub' /\ ServerKept
  BY <1>16
<1>11. Keep /\ Answer(r, tx)
  <2>1. i + 1 # 0 /\ ~(i + 1 > srv.blksize) /\ i = srv.ackseq
    BY <1>1, <1>3, <1>4 DEF i
  <2> DEFINE seqno == SeqnoOf(m)
             take == Accept(m, srv.ackseq)
             room == Len(srv.data) < srv.size
             ack == IF take THEN srv.ackseq + 1 ELSE srv.ackseq
             full1 == seqno = srv.blksize \/ end
  <2> HIDE DEF m
  <2>2. /\ Keep
        /\ Answer([srv EXCEPT !.data = IF take /\ room THEN Append(@, m.data) ELSE @,
                              !.ackseq = IF full1 THEN 0 ELSE ack,
                              !.st = IF end THEN "blk_dn_end" ELSE @],
                  IF full1 THEN <<[k |-> "blk_dn_res", ackseq |-> ack,
                                   blksize |-> srv.blksize]>>
                  ELSE <<>>)
    <3>1. m.k # "abort" /\ ~(seqno = 0 \/ seqno > srv.blksize
                              \/ (take /\ (NoRoom(srv.size) \/ (~end /\ ~room))))
      BY <1>7, <1>8, <1>17, <2>1
    <3> QED BY <1>6, <3>1, Zenon DEF ServerBlkDnSub
  <2>3. take /\ room /\ (full1 <=> full) /\ ack = i + 1
    BY <1>7, <1>8, <2>1
  <2> HIDE DEF seqno, take, room, ack, full1, end, full, data
  <2>4. r = [srv EXCEPT !.data = IF take /\ room THEN Append(@, m.data) ELSE @,
                        !.ackseq = IF full1 THEN 0 ELSE ack,
                        !.st = IF end THEN "blk_dn_end" ELSE @]
    BY <1>8, <2>3
  <2>5. tx = IF full1 THEN <<[k |-> "blk_dn_res", ackseq |-> ack,
                              blksize |-> srv.blksize]>>
             ELSE <<>>
    BY <2>3
  <2> QED BY <2>2, <2>4, <2>5
<1>12. /\ srv' = r /\ c2s' = Rest(d, from, n, i + 1) /\ s2c' = tx
       /\ cli' = cli /\ maxSeqno' = maxSeqno /\ object' = object
  <2>1. s2c \o tx = tx
    BY <1>1, NothingMore, TailOfOne
  <2> QED BY <1>5, <1>11, <2>1 DEF Answer, Keep
<1>13. /\ r.data = data /\ r.ackseq = (IF full THEN 0 ELSE i + 1)
       /\ r.st = (IF end THEN "blk_dn_end" ELSE "blk_dn_sub")
       /\ r.size = Len(d) /\ r.blksize = maxSeqno
  BY <1>1, <1>2 DEF Collects, ServerState
<1> HIDE DEF r, m
<1>14. CASE i + 1 = n
  <2>1. end <=> last
    BY <1>4, <1>7, <1>14
  <2>2. c2s' = <<>> /\ s2c' = <<x>>
    <3>1. Rest(d, from, n, i + 1) = <<>>
      BY <1>2, <1>3, <1>14, RestOfBlock
    <3> QED BY <1>1, <1>10, <1>12, <1>14, <3>1
  <2>3. data = SubSeq(d, 1, cli.pos)
    BY <1>4, <1>14
  <2> HIDE DEF data, end, full
  <2> QED BY <1>1, <1>10, <1>12, <1>13, <1>14, <2>1, <2>2, <2>3
          DEF TurnBlkDnSub, ServerKept, Collects, Says, IsBlock, n, from
<1>15. CASE i + 1 # n
  <2>1. ~full /\ ~end
    BY <1>7, <1>10, <1>15
  <2>2. s2c' = <<>> /\ r.ackseq = i + 1 /\ r.st = "blk_dn_sub"
    BY <1>12, <1>13, <2>1
  <2>3. i + 1 \in 0 .. n - 1
    BY <1>1, <1>3, <1>4, <1>15
  <2> HIDE DEF end, full
  <2> QED BY <1>1, <1>12, <1>13, <2>2, <2>3
          DEF TurnBlkDnSub, ServerKept, Collects, IsBlock, n, from
<1> QED BY <1>14, <1>15

LEMMA UpIniServed ==
  ASSUME FInv, object \in Whole, object \in had, TurnUpIni, ServerReceive
  PROVE  TurnUpIni' /\ ServerKept
<1>1. object \in Seq(Segment) /\ Len(object) \in 1 .. 15 /\ Len(object) >= 1
  <2> DEFINE n == Len(object)
  <2>1. object \in Seq(Segment) /\ n \in 1 .. 15
    BY WholeVal
  <2> HIDE DEF n
  <2>2. n >= 1
    BY <2>1
  <2> QED BY <2>1, <2>2 DEF n
<1>2. PICK m \in FromClient :
        /\ Sent(<<m>>)
        /\ \/ m = [k |-> "up_ini"] /\ cli.st = "up_ini"
           \/ /\ cli.st = "blk_up_ini"
              /\ \E pst \in Psts :
                   m = [k |-> "blk_up_ini", blksize |-> maxSeqno, pst |-> pst]
  <2>1. c2s # <<>>
    BY ServerHandles
  <2>2. \/ cli.st = "up_ini" /\ Sent(<<[k |-> "up_ini"]>>)
        \/ /\ cli.st = "blk_up_ini"
           /\ \E pst \in Psts :
                Sent(<<[k |-> "blk_up_ini", blksize |-> maxSeqno, pst |-> pst]>>)
    BY <2>1 DEF TurnUpIni, Says, Refuses
  <2>3. maxSeqno \in Seqno /\ Psts \subseteq Nat
    BY MaxSeqnoType, BoundAssumption DEF FInv, Seqno
  <2>4. [k |-> "up_ini"] \in FromClient
        /\ \A pst \in Psts : [k |-> "blk_up_ini", blksize |-> maxSeqno, pst |-> pst] \in FromClient
    BY <2>3, ClientFrames
  <2> QED BY <2>2, <2>4
<1>3. <<m>> \in Seq(FromClient)
  BY Single
<1>4. cli.op = "up" /\ cli.toggle = 0 /\ cli.buf = <<>>
  BY DEF TurnUpIni
<1>5. \/ Free /\ c2s = <<m>> /\ s2c = <<>> /\ ServerWait(m)
      \/ /\ srv' = ServerIn("wait") /\ c2s' = <<m>> /\ s2c' = <<>>
         /\ cli' = cli /\ maxSeqno' = maxSeqno /\ object' = object
  BY <1>2, <1>3, EndArrives, TailOfOne
<1>6. CASE /\ srv' = ServerIn("wait") /\ c2s' = <<m>> /\ s2c' = <<>>
           /\ cli' = cli /\ maxSeqno' = maxSeqno /\ object' = object
  <2>1. CASE m = [k |-> "up_ini"] /\ cli.st = "up_ini"
    BY <1>4, <1>6, <2>1 DEF TurnUpIni, ServerKept, Sent, Free
  <2>2. ASSUME NEW pst \in Psts, cli.st = "blk_up_ini",
               m = [k |-> "blk_up_ini", blksize |-> maxSeqno, pst |-> pst]
        PROVE  TurnUpIni' /\ ServerKept
    <3>1. /\ Free' /\ s2c' = <<>>
          /\ c2s' = <<[k |-> "blk_up_ini", blksize |-> maxSeqno', pst |-> pst]>>
      BY <1>6, <2>2 DEF Free
    <3>2. Sent(<<[k |-> "blk_up_ini", blksize |-> maxSeqno, pst |-> pst]>>)'
      BY <3>1 DEF Sent
    <3> QED BY <1>4, <1>6, <2>2, <3>2 DEF TurnUpIni, ServerKept
  <2> QED BY <1>2, <2>1, <2>2
<1>7. CASE Free /\ c2s = <<m>> /\ s2c = <<>> /\ ServerWait(m)
  <2> DEFINE e == [k |-> "up_exp", data |-> object]
             r == [srv EXCEPT !.st = "up_seg", !.size = Len(object), !.value = object]
             x == [k |-> "up_ini_res", size |-> Len(object)]
             q == [srv EXCEPT !.st = "blk_up_sub", !.blksize = maxSeqno,
                              !.size = Len(object), !.value = object]
             y == [k |-> "blk_up_ini_res", size |-> Len(object)]
  <2>1. /\ Keep
        /\ \/ NoRoom(Len(object)) /\ AbortRes
           \/ Upload
           \/ cli.st = "blk_up_ini" /\ Answer(q, <<y>>)
    <3>1. CASE m = [k |-> "up_ini"]
      <4>1. m.k = "up_ini"
        BY <3>1
      <4> QED BY <1>7, <4>1, Zenon
              DEF ServerWait, ServerDnIni, ServerUpIni, ServerBlkDnIni, ServerBlkUpIni,
                  IsAbort
    <3>2. ASSUME NEW pst \in Psts, cli.st = "blk_up_ini",
                 m = [k |-> "blk_up_ini", blksize |-> maxSeqno, pst |-> pst]
          PROVE  /\ Keep
                 /\ \/ NoRoom(Len(object)) /\ AbortRes
                    \/ Upload
                    \/ cli.st = "blk_up_ini" /\ Answer(q, <<y>>)
      <4>1. m.k = "blk_up_ini" /\ m.blksize = maxSeqno
        BY <3>2
      <4>2. /\ Keep
            /\ \/ NoRoom(Len(object)) /\ AbortRes
               \/ Upload
               \/ Answer([srv EXCEPT !.st = "blk_up_sub", !.blksize = m.blksize,
                                     !.size = Len(object), !.value = object], <<y>>)
        BY <1>7, <4>1, Zenon
        DEF ServerWait, ServerDnIni, ServerUpIni, ServerBlkDnIni, ServerBlkUpIni, IsAbort
      <4> QED BY <3>2, <4>1, <4>2
    <3> QED BY <1>2, <3>1, <3>2
  <2>2. CASE Upload /\ IsSmall(object)
    <3>1. Answer(ServerIn("wait"), <<e>>)
      BY <2>2, Zenon DEF Upload
    <3> HIDE DEF e
    <3>2. ServerKept /\ SaysNext(e) /\ srv' = ServerIn("wait")
      BY <1>7, <2>1, <3>1, FreshAnswers
    <3>3. (\E d \in Seq(Segment) : Says([k |-> "up_exp", data |-> d]))'
      BY <1>1, <3>2 DEF Says, SaysNext, e
    <3> QED BY <1>4, <3>2, <3>3 DEF TurnUpIni, Free, ServerKept
  <2>3. CASE Upload /\ ~IsSmall(object)
    <3>1. Answer(r, <<x>>)
      BY <2>3, Zenon DEF Upload
    <3>2. /\ r.st = "up_seg" /\ r.size = Len(object) /\ r.value = object
          /\ r.pos = 0 /\ r.toggle = 0
      BY <1>7 DEF Free, ServerIn
    <3> HIDE DEF x, r
    <3>3. ServerKept /\ SaysNext(x) /\ srv' = r
      BY <1>7, <2>1, <3>1, FreshAnswers
    <3>4. Says([k |-> "up_ini_res", size |-> srv.size])'
      BY <3>2, <3>3 DEF Says, SaysNext, x
    <3> QED BY <1>1, <1>4, <3>2, <3>3, <3>4 DEF TurnUpIni, Serves, ServerKept
  <2>4. CASE cli.st = "blk_up_ini" /\ Answer(q, <<y>>)
    <3>2. /\ q.st = "blk_up_sub" /\ q.size = Len(object) /\ q.value = object
          /\ q.pos = 0 /\ q.win = 0 /\ q.blksize = maxSeqno
      BY <1>7 DEF Free, ServerIn
    <3> HIDE DEF y, q
    <3>3. ServerKept /\ SaysNext(y) /\ srv' = q
      BY <1>7, <2>1, <2>4, FreshAnswers
    <3>4. Says([k |-> "blk_up_ini_res", size |-> srv.size])'
      BY <3>2, <3>3 DEF Says, SaysNext, y
    <3> QED BY <1>1, <1>4, <2>4, <3>2, <3>3, <3>4 DEF TurnUpIni, Serves, ServerKept
  <2>5. CASE NoRoom(Len(object)) /\ AbortRes
    <3>1. Answer(ServerIn("wait"), <<Abort>>)
      BY <2>5, Zenon DEF AbortRes, ServerEnd
    <3>2. ServerKept /\ SaysNext(Abort) /\ srv' = ServerIn("wait")
      BY <1>7, <2>1, <3>1, FreshAnswers
    <3>3. Unserved'
      BY <1>4, <2>1, <2>5, <3>2 DEF Unserved, Keep, ServerKept
    <3>4. Refuses'
      BY <3>2, <3>3 DEF Refuses, Free, Says, SaysNext, Abort
    <3> QED BY <1>4, <3>2, <3>4 DEF TurnUpIni, ServerKept
  <2> QED BY <2>1, <2>2, <2>3, <2>4, <2>5
<1> QED BY <1>5, <1>6, <1>7

LEMMA UpSegServed ==
  ASSUME FInv, object \in Whole, TurnUpSeg, ServerReceive
  PROVE  TurnUpSeg' /\ ServerKept
<1> DEFINE p == Len(cli.buf)
           t == Flip(cli.toggle)
           last == p + 1 = cli.size
           m == [k |-> "up_seg", toggle |-> t]
           y == srv.value[p + 1]
           x == [k |-> "up_seg_res", toggle |-> t, data |-> y, last |-> last]
           r == [srv EXCEPT !.pos = @ + 1, !.toggle = Flip(@)]
<1>1. /\ p < cli.size /\ Asks(m) /\ Serves("up_seg", p)
      /\ srv.size = cli.size /\ srv.toggle = t
  BY ServerHandles DEF TurnUpSeg, Says
<1>2. /\ p \in Nat /\ cli.toggle \in 0 .. 1 /\ srv \in ServerState
      /\ srv.value \in Seq(Segment) /\ srv.size = Len(srv.value) /\ srv.size \in Nat
  BY <1>1 DEF FInv, ClientFits, Within, ClientState, ServerFits, ServerState, Serves
<1>3. y \in Segment /\ (p + 1) \in Nat
  <2>1. p + 1 \in 1 .. Len(srv.value)
    BY <1>1, <1>2
  <2> QED BY <1>2, <2>1
<1>4. ServerUpSeg(m)
  BY <1>1, ServerHandles, TailOfOne DEF Asks, Serves
<1>5. Keep /\ Answer(IF last THEN ServerIn("wait") ELSE r, <<x>>)
  <2>1. m.k = "up_seg" /\ m.toggle = srv.toggle /\ ~(m.toggle # srv.toggle)
    BY <1>1
  <2> HIDE DEF m
  <2>2. /\ Keep
        /\ Answer(IF srv.pos + 1 = srv.size THEN ServerIn("wait") ELSE r,
                  <<[k |-> "up_seg_res", toggle |-> srv.toggle,
                     data |-> srv.value[srv.pos + 1],
                     last |-> srv.pos + 1 = srv.size]>>)
    BY <1>4, <2>1, Zenon DEF ServerUpSeg, IsAbort
  <2>3. srv.pos = p
    BY <1>1 DEF Serves
  <2> QED BY <1>1, <2>2, <2>3
<1> HIDE DEF m, x, y
<1>6. /\ srv' = (IF last THEN ServerIn("wait") ELSE r) /\ SaysNext(x)
      /\ cli' = cli /\ maxSeqno' = maxSeqno /\ object' = object
  <2> DEFINE s == IF last THEN ServerIn("wait") ELSE r
  <2> HIDE DEF s
  <2>1. srv' = s /\ SaysNext(x) /\ cli' = cli /\ maxSeqno' = maxSeqno
    BY <1>1, <1>5, AnswersOne DEF s
  <2> QED BY <1>5, <2>1 DEF Keep, s
<1>7. (\E z \in Segment :
         Says([k |-> "up_seg_res", toggle |-> t, data |-> z, last |-> last]))'
  BY <1>3, <1>6 DEF Says, SaysNext, x
<1>8. CASE last
  BY <1>1, <1>6, <1>7, <1>8 DEF TurnUpSeg, ServerKept, Free
<1>9. CASE ~last
  <2>1. /\ r.st = "up_seg" /\ r.pos = p + 1 /\ r.toggle = cli.toggle
        /\ r.size = srv.size /\ r.value = srv.value
    BY <1>1, <1>2 DEF Serves, ServerState, Flip
  <2> HIDE DEF r
  <2>2. srv' = r
    BY <1>6, <1>9
  <2> QED BY <1>1, <1>6, <1>7, <1>9, <2>1, <2>2 DEF TurnUpSeg, ServerKept, Serves
<1> QED BY <1>8, <1>9

\* The next block of an upload, after a start or a whole block.
LEMMA NextBlock ==
  ASSUME FInv, NEW m, ServerBlkUpSub(m), Serves("blk_up_sub", srv.pos), Asks(m),
         \/ m = [k |-> "blk_up_start"] /\ srv.pos = 0 /\ srv.win = 0 /\ srv.blksize = maxSeqno
         \/ /\ m = [k |-> "blk_up_res", ackseq |-> srv.win, blksize |-> maxSeqno]
            /\ srv.pos > 0 /\ srv.blksize = srv.win
  PROVE  /\ cli' = cli /\ maxSeqno' = maxSeqno /\ object' = object /\ c2s' = <<>>
         /\ LET n == IF srv.pos + maxSeqno < srv.size THEN maxSeqno
                     ELSE srv.size - srv.pos
            IN \/ /\ n > 0
                  /\ srv' = [srv EXCEPT !.pos = srv.pos + n, !.win = n, !.blksize = n]
                  /\ s2c' = Block(srv.value, srv.pos, n, srv.pos + n = srv.size)
               \/ /\ n = 0
                  /\ srv' = [srv EXCEPT !.st = "blk_up_end", !.win = 0, !.blksize = 0]
                  /\ s2c' = <<[k |-> "blk_up_end_res", crc |-> srv.value]>>
<1>1. /\ srv \in ServerState /\ srv.pos \in Nat /\ srv.win \in Nat
      /\ srv.size \in Nat /\ maxSeqno \in 1 .. 127 /\ srv.blksize \in Nat
  BY MaxSeqnoType, SeqnoNat DEF FInv, ServerFits, ServerState
<1> DEFINE first == srv.pos = 0
           ok == \/ m.k = "blk_up_start" /\ first
                 \/ /\ m.k = "blk_up_res" /\ ~first
                    /\ m.ackseq <= srv.blksize
                    /\ m.blksize \in 1 .. maxSeqno
           left == IF m.k = "blk_up_res" THEN srv.win - m.ackseq ELSE srv.win
           max == IF m.k = "blk_up_res" THEN m.blksize ELSE srv.blksize
           from == srv.pos - left
           n == IF from + max < srv.size THEN max ELSE srv.size - from
<1>2. /\ m.k \in {"blk_up_start", "blk_up_res"} /\ ~IsAbort(m)
  BY DEF IsAbort
<1>3. ok /\ left = 0 /\ max = maxSeqno
  <2>1. CASE m = [k |-> "blk_up_start"] /\ srv.pos = 0 /\ srv.win = 0 /\ srv.blksize = maxSeqno
    BY <2>1
  <2>2. CASE /\ m = [k |-> "blk_up_res", ackseq |-> srv.win, blksize |-> maxSeqno]
             /\ srv.pos > 0 /\ srv.blksize = srv.win
    <3>1. m.k = "blk_up_res" /\ m.ackseq = srv.win /\ m.blksize = maxSeqno
      BY <2>2
    <3> HIDE DEF ok, left, max
    <3>2. left = 0
      BY <1>1, <3>1 DEF left
    <3>3. max = maxSeqno
      BY <3>1 DEF max
    <3>4. m.ackseq <= srv.blksize /\ m.blksize \in 1 .. maxSeqno /\ srv.pos # 0
      BY <1>1, <2>2, <3>1
    <3>5. ok
      BY <3>1, <3>4 DEF ok
    <3> QED BY <3>2, <3>3, <3>5
  <2> QED BY <2>1, <2>2
<1>4. \/ /\ ok /\ n > 0
         /\ Answer([srv EXCEPT !.pos = from + n, !.win = n, !.blksize = n],
                   Block(srv.value, from, n, from + n = srv.size))
      \/ /\ ok /\ n = 0
         /\ Answer([srv EXCEPT !.st = "blk_up_end", !.win = 0, !.blksize = 0],
                   <<[k |-> "blk_up_end_res", crc |-> srv.value]>>)
  BY <1>2, <1>3, Zenon DEF ServerBlkUpSub
<1>5. Keep
  BY Zenon DEF ServerBlkUpSub
<1>6. from = srv.pos
  <2> HIDE DEF left
  <2> QED BY <1>1, <1>3
<1>7. n = IF srv.pos + maxSeqno < srv.size THEN maxSeqno ELSE srv.size - srv.pos
  <2> HIDE DEF from, max
  <2> QED BY <1>3, <1>6
<1> HIDE DEF n, from, ok
<1>8. c2s = <<m>> /\ s2c = <<>> /\ Tail(c2s) = <<>>
  BY TailOfOne DEF Asks
<1>9. \A v, a, b, l : <<>> \o Block(v, a, b, l) = Block(v, a, b, l)
  BY DEF Block
<1>10. cli' = cli /\ maxSeqno' = maxSeqno /\ object' = object /\ c2s' = <<>>
  BY <1>4, <1>5, <1>8 DEF Answer, Keep
<1>11. \/ /\ n > 0
          /\ srv' = [srv EXCEPT !.pos = srv.pos + n, !.win = n, !.blksize = n]
          /\ s2c' = Block(srv.value, srv.pos, n, srv.pos + n = srv.size)
       \/ /\ n = 0
          /\ srv' = [srv EXCEPT !.st = "blk_up_end", !.win = 0, !.blksize = 0]
          /\ s2c' = <<[k |-> "blk_up_end_res", crc |-> srv.value]>>
  BY <1>4, <1>6, <1>8, <1>9, TailOfOne DEF Answer
<1> QED BY <1>7, <1>10, <1>11

LEMMA BlkUpSubServed ==
  ASSUME FInv, object \in Whole, TurnBlkUpSub, ServerReceive
  PROVE  TurnBlkUpSub' /\ ServerKept
<1> DEFINE d == srv.value
           p == srv.pos
           n == IF p + maxSeqno < srv.size THEN maxSeqno ELSE srv.size - p
           m == Head(c2s)
<1>1. /\ cli.blksize = maxSeqno /\ cli.size = srv.size
      /\ Serves("blk_up_sub", p) /\ cli.ackseq = 0 /\ c2s # <<>>
  BY ServerHandles DEF TurnBlkUpSub
<1>2. /\ d \in Seq(Segment) /\ Len(d) \in 1 .. 15 /\ srv.size = Len(d)
      /\ p \in Nat /\ maxSeqno \in 1 .. 127 /\ srv \in ServerState /\ srv.win \in Nat
  BY <1>1, ValLen, MaxSeqnoType DEF FInv, ServerFits, ServerState, Serves
<1>3. /\ Asks(m) /\ p < srv.size /\ cli.buf = SubSeq(d, 1, p)
      /\ \/ m = [k |-> "blk_up_start"] /\ srv.pos = 0 /\ srv.win = 0 /\ srv.blksize = maxSeqno
         \/ /\ m = [k |-> "blk_up_res", ackseq |-> srv.win, blksize |-> maxSeqno]
            /\ srv.pos > 0 /\ srv.blksize = srv.win
  <2>1. CASE /\ srv.pos = 0 /\ srv.win = 0 /\ srv.blksize = maxSeqno
             /\ cli.ackseq = 0 /\ cli.buf = <<>>
             /\ Asks([k |-> "blk_up_start"])
    <3>1. m = [k |-> "blk_up_start"]
      BY <2>1, TailOfOne DEF Asks
    <3>2. SubSeq(d, 1, 0) = <<>>
      <4> HIDE DEF d
      <4> QED BY <1>2, Prefix
    <3>3. 0 < srv.size
      <4> DEFINE size == srv.size
      <4>1. size \in 1 .. 15
        BY <1>2
      <4> HIDE DEF size
      <4>2. 0 < size
        BY <4>1
      <4> QED BY <4>2 DEF size
    <3> HIDE DEF m
    <3> QED BY <2>1, <3>1, <3>2, <3>3
  <2>2. CASE /\ IsBlock(srv.pos - srv.win, srv.win, srv.size) /\ srv.blksize = srv.win
             /\ srv.pos < srv.size
             /\ cli.ackseq = 0 /\ cli.buf = SubSeq(srv.value, 1, srv.pos)
             /\ Asks([k |-> "blk_up_res", ackseq |-> srv.win, blksize |-> maxSeqno])
    <3>1. m = [k |-> "blk_up_res", ackseq |-> srv.win, blksize |-> maxSeqno]
      BY <2>2, TailOfOne DEF Asks
    <3>2. srv.pos > 0
      BY <1>2, <2>2 DEF IsBlock
    <3> HIDE DEF m
    <3> QED BY <2>2, <3>1, <3>2
  <2> QED BY <1>1, <2>1, <2>2 DEF TurnBlkUpSub
<1>4. ServerBlkUpSub(m)
  BY <1>1, ServerHandles DEF Serves
<1>5. n > 0 /\ n \in Nat /\ n < 128 /\ p + n <= Len(d) /\ IsBlock(p, n, srv.size)
      /\ n \in 1 .. n
  <2> DEFINE size == srv.size
  <2>1. size \in 1 .. 15 /\ p < size /\ size = Len(d)
    BY <1>2, <1>3
  <2> HIDE DEF p, size, d
  <2> QED BY <1>2, <2>1 DEF IsBlock, size
<1> HIDE DEF m
<1>6. /\ cli' = cli /\ maxSeqno' = maxSeqno /\ object' = object /\ c2s' = <<>>
      /\ \/ /\ n > 0
            /\ srv' = [srv EXCEPT !.pos = srv.pos + n, !.win = n, !.blksize = n]
            /\ s2c' = Block(srv.value, srv.pos, n, srv.pos + n = srv.size)
         \/ n = 0
  BY <1>1, <1>3, <1>4, NextBlock
<1> HIDE DEF n
<1>7. /\ srv' = [srv EXCEPT !.pos = srv.pos + n, !.win = n, !.blksize = n]
      /\ s2c' = Block(d, p, n, p + n = srv.size)
  BY <1>5, <1>6
<1>8. s2c' = Rest(d, p, n, 0)
  BY <1>2, <1>5, <1>7, RestOfBlock
<1>9. /\ srv'.pos = p + n /\ srv'.win = n /\ srv'.blksize = n
      /\ srv'.size = srv.size /\ srv'.value = d /\ srv'.st = "blk_up_sub"
  BY <1>1, <1>2, <1>7 DEF ServerState, Serves
<1>10. srv'.pos - srv'.win = p /\ p + 0 = p /\ 0 \in 0 .. n - 1
  BY <1>2, <1>5, <1>9
<1>11. /\ IsBlock(srv.pos - srv.win, srv.win, srv.size)'
       /\ srv'.blksize = srv'.win /\ cli'.ackseq \in 0 .. srv'.win - 1
       /\ cli'.buf = SubSeq(srv'.value, 1, (srv'.pos - srv'.win) + cli'.ackseq)
       /\ c2s' = <<>> /\ s2c' = Rest(srv'.value, srv'.pos - srv'.win, srv'.win, cli'.ackseq)
  BY <1>1, <1>3, <1>5, <1>6, <1>8, <1>9, <1>10 DEF IsBlock
<1>12. Serves("blk_up_sub", srv.pos)'
  BY <1>1, <1>9 DEF Serves
<1> QED BY <1>1, <1>6, <1>9, <1>11, <1>12 DEF TurnBlkUpSub, ServerKept

LEMMA BlkUpEndServed ==
  ASSUME FInv, object \in Whole, TurnBlkUpEnd, ServerReceive
  PROVE  TurnBlkUpEnd' /\ ServerKept
<1> DEFINE m == [k |-> "blk_up_res", ackseq |-> srv.win, blksize |-> maxSeqno]
<1>1. /\ cli.size = Len(cli.buf)
      /\ Serves("blk_up_sub", srv.size) /\ srv.value = cli.buf
      /\ srv.win \in 1 .. maxSeqno /\ srv.blksize = srv.win /\ Asks(m)
  BY ServerHandles DEF TurnBlkUpEnd, Says
<1>2. /\ srv.pos = srv.size /\ srv.size \in Nat /\ srv.size > 0 /\ maxSeqno \in 1 .. 127
      /\ srv \in ServerState
  BY <1>1, ValLen, MaxSeqnoType DEF FInv, ServerFits, ServerState, Serves
<1>3. ServerBlkUpSub(m)
  BY <1>1, ServerHandles, TailOfOne DEF Asks, Serves
<1>4. Serves("blk_up_sub", srv.pos)
  BY <1>1, <1>2
<1> DEFINE n == IF srv.pos + maxSeqno < srv.size THEN maxSeqno ELSE srv.size - srv.pos
<1>5. n = 0
  BY <1>2
<1>6. m = [k |-> "blk_up_res", ackseq |-> srv.win, blksize |-> maxSeqno] /\ srv.pos > 0
  BY <1>2
<1> HIDE DEF m
<1>7. /\ cli' = cli /\ maxSeqno' = maxSeqno /\ object' = object /\ c2s' = <<>>
      /\ \/ n > 0
         \/ /\ srv' = [srv EXCEPT !.st = "blk_up_end", !.win = 0, !.blksize = 0]
            /\ s2c' = <<[k |-> "blk_up_end_res", crc |-> srv.value]>>
  BY <1>1, <1>3, <1>4, <1>6, NextBlock
<1> HIDE DEF n
<1>8. /\ srv'.st = "blk_up_end"
      /\ s2c' = <<[k |-> "blk_up_end_res", crc |-> cli.buf]>>
  <2>1. ~(n > 0)
    BY <1>5
  <2>2. /\ srv' = [srv EXCEPT !.st = "blk_up_end", !.win = 0, !.blksize = 0]
        /\ s2c' = <<[k |-> "blk_up_end_res", crc |-> srv.value]>>
    BY <1>7, <2>1
  <2> QED BY <1>1, <1>2, <2>2 DEF ServerState
<1> QED BY <1>1, <1>7, <1>8 DEF TurnBlkUpEnd, ServerKept, Says

LEMMA NotEmpty == \A d \in Whole : 0 # Len(d)
<1> SUFFICES ASSUME NEW d \in Whole PROVE 0 # Len(d)
  OBVIOUS
<1> DEFINE n == Len(d)
<1>1. n \in 1 .. 15
  BY WholeVal
<1> HIDE DEF n
<1>2. 0 # n
  BY <1>1
<1> QED BY <1>2 DEF n

\* The server handles the next frame.
LEMMA ServerTurn ==
  ASSUME FInv, object \in Whole, object \in had, Turn, ServerReceive
  PROVE  object' \in Whole /\ (Turn' \/ Spill')
<1>1. CASE cli.st = "wait"
  <2>1. TurnWait
    BY <1>1 DEF Turn
  <2>2. Sent(<<>>)
    BY <2>1 DEF TurnWait
  <2>3. \/ Free /\ c2s = <<>> /\ c2s # <<>>
        \/ /\ srv' = ServerIn("wait") /\ c2s' = <<>> /\ s2c' = <<>>
           /\ cli' = cli /\ maxSeqno' = maxSeqno /\ object' = object /\ had' = had
    <3>1. <<>> \in Seq(FromClient)
      OBVIOUS
    <3> QED BY <2>2, <3>1, EndArrives
  <2>4. Sent(<<>>)' /\ cli' = cli /\ object' = object /\ had' = had
    BY <2>3 DEF Sent, Free
  <2>5. TurnWait'
    BY <2>1, <2>4, StillUnserved DEF TurnWait
  <2> QED BY <1>1, <2>4, <2>5 DEF Turn, Downloading
<1>2. CASE cli.st = "dn_ini"
  <2>1. cli.op = "dn" /\ cli.value \in Whole /\ (TurnExp \/ TurnDnIni)
    BY <1>2 DEF Turn, Downloading
  <2>2. (TurnExp' \/ TurnDnIni') /\ ServerKept
    BY <2>1, ExpServed, DnIniServed
  <2> QED BY <1>2, <2>1, <2>2 DEF Turn, Downloading, ServerKept
<1>3. CASE cli.st = "dn_seg"
  <2>1. cli.op = "dn" /\ cli.value \in Whole /\ TurnDnSeg
    BY <1>3 DEF Turn, Downloading
  <2>2. TurnDnSeg' /\ ServerKept
    BY <2>1, DnSegServed
  <2> QED BY <1>3, <2>1, <2>2 DEF Turn, Downloading, ServerKept
<1>4. CASE cli.st = "blk_dn_ini"
  <2>1. cli.op = "dn" /\ cli.value \in Whole /\ TurnBlkDnIni
    BY <1>4 DEF Turn, Downloading
  <2>2. TurnBlkDnIni' /\ ServerKept
    BY <2>1, BlkDnIniServed
  <2> QED BY <1>4, <2>1, <2>2 DEF Turn, Downloading, ServerKept
<1>5. CASE cli.st = "blk_dn_sub"
  <2>1. cli.op = "dn" /\ cli.value \in Whole /\ TurnBlkDnSub
    BY <1>5 DEF Turn, Downloading
  <2>2. (TurnBlkDnSub' \/ Spill') /\ ServerKept
    BY <1>5, <2>1, BlkDnSubServed
  <2> QED BY <1>5, <2>1, <2>2 DEF Turn, Downloading, ServerKept
<1>6. CASE cli.st = "blk_dn_end"
  <2>1. cli.op = "dn" /\ cli.value \in Whole /\ TurnBlkDnEnd
    BY <1>6 DEF Turn, Downloading
  <2>2. TurnBlkDnEnd' /\ ServerKept
    BY <2>1, BlkDnEndServed
  <2> QED BY <1>6, <2>1, <2>2 DEF Turn, Downloading, ServerKept
<1>7. CASE cli.st \in {"up_ini", "blk_up_ini"}
  <2>1. TurnUpIni /\ (cli.st = "blk_up_ini" => cli.blksize = maxSeqno)
    BY <1>7 DEF Turn
  <2>2. TurnUpIni' /\ ServerKept
    BY <2>1, UpIniServed
  <2> QED BY <1>7, <2>1, <2>2 DEF Turn, Downloading, ServerKept
<1>8. CASE cli.st = "up_seg"
  <2>1. TurnUpSeg' /\ ServerKept
    BY <1>8, UpSegServed DEF Turn
  <2> QED BY <1>8, <2>1 DEF Turn, Downloading, ServerKept
<1>9. CASE cli.st = "blk_up_sub"
  <2>1. TurnBlkUpSub' /\ ServerKept
    BY <1>9, BlkUpSubServed DEF Turn
  <2> QED BY <1>9, <2>1 DEF Turn, Downloading, ServerKept
<1>10. CASE cli.st = "blk_up_end"
  <2>1. TurnBlkUpEnd' /\ ServerKept
    BY <1>10, BlkUpEndServed DEF Turn
  <2> QED BY <1>10, <2>1 DEF Turn, Downloading, ServerKept
<1>11. cli.st \in {"wait", "dn_ini", "dn_seg", "up_ini", "up_seg", "blk_dn_ini",
                   "blk_dn_sub", "blk_dn_end", "blk_up_ini", "blk_up_sub", "blk_up_end"}
  BY DEF FInv, ClientFits, Within, ClientState
<1> QED BY <1>1, <1>2, <1>3, <1>4, <1>5, <1>6, <1>7, <1>8, <1>9, <1>10, <1>11

-----------------------------------------------------------------------------
(* The client's turn                                                       *)

LEMMA Succeeds ==
  ASSUME NEW c \in ClientState, Succeed(c), NEW m, Says(m), Free
  PROVE  Turn' /\ object' = object
<1>1. /\ cli' = Ended(c, "ok") /\ c2s' = <<>> /\ s2c' = <<>> /\ srv' = srv
      /\ object' = object
  BY RepliesNothing DEF Succeed
<1>2. cli'.st = "wait" /\ cli'.result = "ok"
  BY <1>1 DEF Ended, ClientState
<1>3. TurnWait'
  BY <1>1, <1>2 DEF TurnWait, Sent, Free
<1> QED BY <1>1, <1>2, <1>3 DEF Turn, Downloading

LEMMA IsToldSo ==
  ASSUME FInv, Refuses, AbortInd
  PROVE  Turn' /\ object' = object
<1>1. cli \in ClientState
  BY DEF FInv, ClientFits, Within
<1>2. /\ cli' = Ended(cli, "failed") /\ c2s' = <<>> /\ s2c' = <<>> /\ srv' = srv
      /\ object' = object /\ had' = had
  BY RepliesNothing DEF AbortInd, Refuses
<1>3. cli'.st = "wait" /\ cli'.op = cli.op /\ cli'.value = cli.value
  BY <1>1, <1>2 DEF Ended, ClientState
<1>4. Unserved'
  BY <1>2, <1>3, StillUnserved DEF Refuses
<1>5. TurnWait'
  BY <1>2, <1>3, <1>4 DEF TurnWait, Sent, Free, Refuses
<1> QED BY <1>2, <1>3, <1>5 DEF Turn, Downloading

LEMMA EntersDnSeg ==
  ASSUME FInv, cli.value \in Whole, cli.op = "dn", NEW m, Says(m), EnterDnSeg(cli),
         IF cli.pos = Len(cli.value) THEN Free
         ELSE Collects("dn_seg", cli.pos) /\ srv.toggle = cli.toggle
  PROVE  Turn' /\ object' = object
<1> DEFINE d == cli.value
           p == cli.pos
           last == p + 1 = Len(d)
           x == [k |-> "dn_seg", toggle |-> cli.toggle, data |-> d[p + 1], last |-> last]
           c == [cli EXCEPT !.st = "dn_seg", !.pos = @ + 1, !.toggle = Flip(@)]
<1>1. cli \in ClientState /\ p \in Nat /\ cli.toggle \in 0 .. 1
  BY DEF FInv, ClientFits, Within, ClientState
<1>2. CASE p = Len(d)
  <2>1. Succeed(cli)
    BY <1>2, Zenon DEF EnterDnSeg
  <2> QED BY <1>1, <1>2, <2>1, Succeeds
<1>3. CASE p # Len(d)
  <2>1. Reply(c, <<x>>)
    BY <1>3, Zenon DEF EnterDnSeg
  <2>2. /\ c.st = "dn_seg" /\ c.pos = p + 1 /\ Flip(c.toggle) = cli.toggle
        /\ c.value = d /\ c.op = "dn"
    BY <1>1 DEF ClientState, Flip
  <2> HIDE DEF c, x
  <2>3. cli' = c /\ AsksNext(x) /\ srv' = srv /\ maxSeqno' = maxSeqno /\ object' = object
    BY <2>1, RepliesOne
  <2>4. c.pos - 1 = p /\ c.pos >= 1
    BY <1>1, <2>2
  <2>5. Collects("dn_seg", p) /\ srv.toggle = cli.toggle
    BY <1>3
  <2>6. Collects("dn_seg", cli.pos - 1)'
    BY <2>2, <2>3, <2>4, <2>5 DEF Collects
  <2>7. Asks([k |-> "dn_seg", toggle |-> Flip(cli.toggle), data |-> cli.value[cli.pos],
              last |-> cli.pos = Len(cli.value)])'
    BY <2>2, <2>3 DEF Asks, AsksNext, x
  <2>8. TurnDnSeg'
    BY <2>2, <2>3, <2>4, <2>5, <2>6, <2>7 DEF TurnDnSeg
  <2> QED BY <2>2, <2>3, <2>8 DEF Turn, Downloading
<1> QED BY <1>2, <1>3

LEMMA EntersBlkDnSub ==
  ASSUME FInv, cli.value \in Whole, cli.op = "dn", NEW m, Says(m),
         EnterBlkDnSub(cli, maxSeqno),
         srv.ackseq = 0, srv.blksize = maxSeqno,
         Collects(IF cli.pos = Len(cli.value) THEN "blk_dn_end" ELSE "blk_dn_sub", cli.pos)
  PROVE  Turn' /\ object' = object
<1> DEFINE d == cli.value
           p == cli.pos
           left == Len(d) - p
           n == IF left < maxSeqno THEN left ELSE maxSeqno
           x == [k |-> "blk_dn_end", crc |-> d]
           c == [cli EXCEPT !.st = "blk_dn_sub", !.blksize = n, !.pos = @ + n]
           e == [cli EXCEPT !.st = "blk_dn_end", !.blksize = 0]
<1>1. /\ cli \in ClientState /\ p \in Nat /\ maxSeqno \in 1 .. 127
      /\ d \in Seq(Segment) /\ Len(d) \in 1 .. 15 /\ Len(d) \in Nat /\ p <= Len(d)
  BY WholeVal, MaxSeqnoType DEF FInv, ClientFits, Within, ClientState
<1>2. IF n > 0 THEN Reply(c, Block(d, p, n, n = left)) ELSE Reply(e, <<x>>)
  <2>1. ~((left > 0 /\ maxSeqno = 0) \/ maxSeqno > maxSeqno)
    BY <1>1
  <2> QED BY <2>1, Zenon DEF EnterBlkDnSub
<1>3. CASE p = Len(d)
  <2>1. ~(n > 0)
    BY <1>1, <1>3
  <2>2. Reply(e, <<x>>)
    BY <1>2, <2>1
  <2>3. e.st = "blk_dn_end" /\ e.value = d /\ e.op = "dn"
    BY <1>1 DEF ClientState
  <2> HIDE DEF e, x
  <2>4. cli' = e /\ AsksNext(x) /\ srv' = srv /\ maxSeqno' = maxSeqno /\ object' = object
    BY <2>2, RepliesOne
  <2>5. Asks([k |-> "blk_dn_end", crc |-> cli.value])'
    BY <2>3, <2>4 DEF Asks, AsksNext, x
  <2>6. Collects("blk_dn_end", Len(cli.value))'
    BY <1>3, <2>3, <2>4 DEF Collects
  <2>7. TurnBlkDnEnd'
    BY <2>5, <2>6 DEF TurnBlkDnEnd
  <2> QED BY <2>3, <2>4, <2>7 DEF Turn, Downloading
<1>4. CASE p # Len(d)
  <2>1. /\ n > 0 /\ n \in 1 .. maxSeqno /\ n \in Seqno /\ n \in Nat /\ n < 128 /\ p + n <= Len(d)
        /\ (n = left <=> p + n = Len(d))
        /\ n = IF Len(d) - p < maxSeqno THEN Len(d) - p ELSE maxSeqno
    <3> DEFINE size == Len(d)
    <3>1. /\ left = size - p /\ n = IF size - p < maxSeqno THEN size - p ELSE maxSeqno
          /\ size \in 1 .. 15 /\ p \in Nat /\ p <= size /\ p # size
          /\ maxSeqno \in 1 .. 127
      BY <1>1, <1>4
    <3> HIDE DEF size, left, n, p, d
    <3>2. /\ n > 0 /\ n \in 1 .. maxSeqno /\ n \in Seqno /\ n \in Nat /\ n < 128
          /\ p + n <= size /\ (n = left <=> p + n = size)
      BY <3>1 DEF Seqno
    <3>3. Len(d) = size
      BY DEF size
    <3> QED BY <3>1, <3>2, <3>3, Zenon
  <2>2. Reply(c, Block(d, p, n, n = left))
    BY <1>2, <2>1
  <2> HIDE DEF n
  <2>3. /\ c.st = "blk_dn_sub" /\ c.value = d /\ c.op = "dn" /\ c.pos = p + n
        /\ c.blksize = n
    BY <1>1 DEF ClientState
  <2> HIDE DEF c
  <2>4. (n = left) = (p + n = Len(d))
    BY <2>1
  <2>5. /\ cli' = c /\ srv' = srv /\ maxSeqno' = maxSeqno /\ object' = object
        /\ c2s' = Block(d, p, n, p + n = Len(d)) /\ s2c' = <<>>
    <3>1. <<>> \o Block(d, p, n, n = left) = Block(d, p, n, n = left)
      BY DEF Block
    <3> QED BY <2>2, <2>4, <3>1, TailOfOne DEF Reply, Says
  <2>6. c.pos - n = p /\ p + 0 = p /\ 0 \in 0 .. n - 1
    BY <1>1, <2>1, <2>3
  <2>7. c2s' = Rest(d, p, n, 0)
    BY <1>1, <2>1, <2>5, RestOfBlock
  <2>8. IsBlock(p, n, Len(d))
    BY <1>1, <2>1 DEF IsBlock
  <2>9. IsBlock(cli.pos - cli.blksize, cli.blksize, Len(cli.value))'
    BY <2>3, <2>5, <2>6, <2>8 DEF IsBlock
  <2>10. Collects("blk_dn_sub", (cli.pos - cli.blksize) + srv.ackseq)'
    BY <1>4, <2>3, <2>5, <2>6 DEF Collects
  <2>11. TurnBlkDnSub'
    BY <2>3, <2>5, <2>6, <2>7, <2>9, <2>10 DEF TurnBlkDnSub
  <2> QED BY <2>3, <2>5, <2>11 DEF Turn, Downloading
<1> QED BY <1>3, <1>4

LEMMA DnIniTurn ==
  ASSUME FInv, cli.value \in Whole, cli.op = "dn", cli.st = "dn_ini",
         TurnExp \/ TurnDnIni, ClientReceive
  PROVE  Turn' /\ object' = object
<1>1. s2c # <<>>
  BY DEF ClientReceive
<1>2. CASE Refuses
  <2>1. Head(s2c) = Abort
    BY <1>2, TailOfOne DEF Refuses, Says
  <2> QED BY <1>2, <2>1, ClientAborts, IsToldSo DEF Downloading
<1>3. CASE /\ Says([k |-> "dn_ini_res"])
           /\ IF cli.pos = Len(cli.value) THEN Free
              ELSE Collects("dn_seg", cli.pos) /\ srv.toggle = cli.toggle
  <2> DEFINE m == [k |-> "dn_ini_res"]
  <2>1. m = Head(s2c) /\ ~IsAbort(m) /\ m.k = "dn_ini_res"
    BY <1>3, TailOfOne DEF Says, IsAbort
  <2> HIDE DEF m
  <2>2. ClientDnIni(m)
    BY <2>1, ClientHandles
  <2>3. EnterDnSeg(cli)
    BY <2>1, <2>2, Zenon DEF ClientDnIni
  <2> QED BY <1>3, <2>3, EntersDnSeg
<1>4. CASE TurnExp
  BY <1>1, <1>2, <1>3, <1>4 DEF TurnExp, Sent
<1>5. CASE TurnDnIni
  <2>1. 0 # Len(cli.value)
    BY NotEmpty
  <2> QED BY <1>1, <1>3, <1>5, <2>1 DEF TurnDnIni, Sent
<1> QED BY <1>4, <1>5

LEMMA DnSegTurn ==
  ASSUME FInv, cli.value \in Whole, cli.op = "dn", cli.st = "dn_seg",
         TurnDnSeg, ClientReceive
  PROVE  Turn' /\ object' = object
<1>1. s2c # <<>>
  BY DEF ClientReceive
<1>2. CASE Refuses
  <2>1. Head(s2c) = Abort
    BY <1>2, TailOfOne DEF Refuses, Says
  <2> QED BY <1>2, <2>1, ClientAborts, IsToldSo DEF Downloading
<1> DEFINE t == Flip(cli.toggle)
           m == [k |-> "dn_seg_res", toggle |-> t]
<1>3. CASE /\ Says(m)
           /\ IF cli.pos = Len(cli.value) THEN Free
              ELSE Collects("dn_seg", cli.pos) /\ srv.toggle = cli.toggle
  <2>1. m = Head(s2c) /\ ~IsAbort(m) /\ m.k = "dn_seg_res" /\ m.toggle # cli.toggle
    <3>1. cli.toggle \in 0 .. 1
      BY DEF FInv, ClientFits, Within, ClientState
    <3> QED BY <1>3, <3>1, TailOfOne DEF Says, IsAbort, Flip
  <2> HIDE DEF m
  <2>2. ClientDnSeg(m)
    BY <2>1, ClientHandles
  <2>3. EnterDnSeg(cli)
    BY <2>1, <2>2, Zenon DEF ClientDnSeg
  <2> QED BY <1>3, <2>3, EntersDnSeg
<1> QED BY <1>1, <1>2, <1>3 DEF TurnDnSeg, Asks

LEMMA BlkDnTurn ==
  ASSUME FInv, cli.value \in Whole, cli.op = "dn", ClientReceive,
         \/ cli.st = "blk_dn_ini" /\ TurnBlkDnIni
         \/ cli.st = "blk_dn_sub" /\ TurnBlkDnSub
  PROVE  Turn' /\ object' = object
<1>1. s2c # <<>>
  BY DEF ClientReceive
<1>2. CASE cli.st = "blk_dn_ini" /\ TurnBlkDnIni
  <2> DEFINE m == [k |-> "blk_dn_ini_res", blksize |-> maxSeqno]
  <2>1. /\ Says(m) /\ cli.pos = 0
        /\ Collects("blk_dn_sub", 0) /\ srv.ackseq = 0 /\ srv.blksize = maxSeqno
    BY <1>1, <1>2 DEF TurnBlkDnIni, Sent
  <2>2. m = Head(s2c) /\ ~IsAbort(m) /\ m.k = "blk_dn_ini_res" /\ m.blksize = maxSeqno
    BY <2>1, TailOfOne DEF Says, IsAbort
  <2> HIDE DEF m
  <2>3. ClientBlkDnIni(m)
    BY <1>2, <2>2, ClientHandles
  <2>4. EnterBlkDnSub(cli, m.blksize)
    BY <2>2, <2>3, Zenon DEF ClientBlkDnIni
  <2>5. 0 # Len(cli.value)
    BY NotEmpty
  <2> QED BY <2>1, <2>2, <2>4, <2>5, EntersBlkDnSub
<1>3. CASE cli.st = "blk_dn_sub" /\ TurnBlkDnSub
  <2> DEFINE n == cli.blksize
             m == [k |-> "blk_dn_res", ackseq |-> n, blksize |-> maxSeqno]
             size == Len(cli.value)
             from == cli.pos - n
  <2>1. /\ cli \in ClientState /\ n \in Nat /\ cli.pos \in Nat
        /\ cli.value \in Seq(Segment) /\ size \in 1 .. 15
    BY WholeVal, SeqnoNat DEF FInv, ClientFits, Within, ClientState
  <2>2. IsBlock(from, n, size)
    BY <1>3 DEF TurnBlkDnSub
  <2>3. Says(m) /\ srv.ackseq = 0 /\ srv.blksize = maxSeqno
        /\ Collects(IF cli.pos = size THEN "blk_dn_end" ELSE "blk_dn_sub", cli.pos)
    BY <1>1, <1>3 DEF TurnBlkDnSub
  <2>4. /\ m = Head(s2c) /\ ~IsAbort(m) /\ m.k = "blk_dn_res"
        /\ m.blksize = maxSeqno /\ m.ackseq = n
    BY <2>3, TailOfOne DEF Says, IsAbort
  <2> HIDE DEF m
  <2>5. ClientBlkDnSub(m)
    BY <1>3, <2>4, ClientHandles
  <2>6. EnterBlkDnSub([cli EXCEPT !.pos = @ - (cli.blksize - m.ackseq)], m.blksize)
    <3>1. m.ackseq <= cli.blksize
      BY <2>1, <2>4
    <3> QED BY <2>4, <2>5, <3>1, Zenon DEF ClientBlkDnSub
  <2>7. [cli EXCEPT !.pos = @ - (cli.blksize - m.ackseq)] = cli
    <3>1. cli.pos - (cli.blksize - m.ackseq) = cli.pos
      BY <2>1, <2>4
    <3> QED BY <2>1, <3>1 DEF ClientState
  <2> QED BY <2>3, <2>4, <2>6, <2>7, EntersBlkDnSub
<1> QED BY <1>2, <1>3

LEMMA BlkDnEndTurn ==
  ASSUME FInv, cli.op = "dn", cli.st = "blk_dn_end", TurnBlkDnEnd, ClientReceive
  PROVE  Turn' /\ object' = object
<1>1. s2c # <<>>
  BY DEF ClientReceive
<1>2. CASE Refuses
  <2>1. Head(s2c) = Abort
    BY <1>2, TailOfOne DEF Refuses, Says
  <2> QED BY <1>2, <2>1, ClientAborts, IsToldSo DEF Downloading
<1>3. CASE Says([k |-> "blk_dn_end_res"]) /\ Free
  <2> DEFINE m == [k |-> "blk_dn_end_res"]
  <2>1. m = Head(s2c) /\ ~IsAbort(m) /\ m.k = "blk_dn_end_res"
    BY <1>3, TailOfOne DEF Says, IsAbort
  <2> HIDE DEF m
  <2>2. ClientBlkDnEnd(m)
    BY <2>1, ClientHandles
  <2>3. Succeed(cli) /\ cli \in ClientState
    BY <2>1, <2>2, Zenon DEF ClientBlkDnEnd, FInv, ClientFits, Within
  <2> QED BY <1>3, <2>3, Succeeds
<1> QED BY <1>1, <1>2, <1>3 DEF TurnBlkDnEnd, Asks

LEMMA UpIniTurn ==
  ASSUME FInv, cli.st \in {"up_ini", "blk_up_ini"}, TurnUpIni, ClientReceive,
         cli.st = "blk_up_ini" => cli.blksize = maxSeqno
  PROVE  Turn' /\ object' = object
<1>1. s2c # <<>> /\ cli.toggle = 0 /\ cli.buf = <<>>
  BY DEF ClientReceive, TurnUpIni
<1>2. cli \in ClientState /\ srv \in ServerState /\ srv.size \in Nat
  BY DEF FInv, ClientFits, Within, ServerFits, ServerState
<1>3. ASSUME NEW d \in Seq(Segment), Says([k |-> "up_exp", data |-> d]), Free
      PROVE  Turn' /\ object' = object
  <2> DEFINE m == [k |-> "up_exp", data |-> d]
             c == [cli EXCEPT !.buf = d]
  <2>1. m = Head(s2c) /\ ~IsAbort(m) /\ m.k = "up_exp" /\ m.data = d
    BY <1>3, TailOfOne DEF Says, IsAbort
  <2>2. c \in ClientState
    BY <1>2, <1>3 DEF ClientState
  <2>3. Says(m)
    BY <1>3
  <2> HIDE DEF m
  <2>4. ClientUpIni(m)
    BY <2>1, ClientHandles
  <2>5. Succeed(c)
    BY <2>1, <2>4 DEF ClientUpIni
  <2> HIDE DEF c
  <2> QED BY <1>3, <2>2, <2>3, <2>5, Succeeds
<1>4. CASE /\ Says([k |-> "up_ini_res", size |-> srv.size])
           /\ Serves("up_seg", 0) /\ srv.toggle = 0
  <2> DEFINE m == [k |-> "up_ini_res", size |-> srv.size]
             c == [cli EXCEPT !.st = "up_seg", !.size = m.size, !.toggle = Flip(@)]
             x == [k |-> "up_seg", toggle |-> cli.toggle]
  <2>1. m = Head(s2c) /\ ~IsAbort(m) /\ m.k = "up_ini_res" /\ m.size = srv.size
    BY <1>4, TailOfOne DEF Says, IsAbort
  <2>2. Says(m)
    BY <1>4
  <2> HIDE DEF m
  <2>3. ClientUpIni(m)
    BY <2>1, ClientHandles
  <2>4. Reply(c, <<x>>)
    BY <2>1, <2>3 DEF ClientUpIni
  <2>5. /\ c.st = "up_seg" /\ c.size = srv.size /\ c.buf = <<>>
        /\ c.toggle = 1 /\ Flip(c.toggle) = 0
    BY <1>1, <1>2, <2>1 DEF ClientState, Flip
  <2> HIDE DEF c, x
  <2>6. cli' = c /\ AsksNext(x) /\ srv' = srv /\ maxSeqno' = maxSeqno /\ object' = object
    BY <2>2, <2>4, RepliesOne
  <2>7. Len(cli'.buf) = 0 /\ 0 < c.size
    BY <1>2, <1>4, <2>5, <2>6 DEF Serves
  <2>8. Asks([k |-> "up_seg", toggle |-> Flip(cli.toggle)])'
    BY <1>1, <2>5, <2>6 DEF Asks, AsksNext, x
  <2>9. Serves("up_seg", Len(cli.buf))'
    BY <1>4, <2>6, <2>7 DEF Serves
  <2>10. TurnUpSeg'
    BY <1>4, <2>5, <2>6, <2>7, <2>8, <2>9 DEF TurnUpSeg
  <2> QED BY <2>5, <2>6, <2>10 DEF Turn, Downloading
<1>5. CASE /\ Says([k |-> "blk_up_ini_res", size |-> srv.size])
           /\ Serves("blk_up_sub", 0) /\ srv.win = 0 /\ srv.blksize = maxSeqno
           /\ cli.st = "blk_up_ini"
  <2> DEFINE m == [k |-> "blk_up_ini_res", size |-> srv.size]
             c == [cli EXCEPT !.st = "blk_up_sub", !.size = m.size, !.ackseq = 0]
             x == [k |-> "blk_up_start"]
  <2>1. m = Head(s2c) /\ ~IsAbort(m) /\ m.k = "blk_up_ini_res" /\ m.size = srv.size
    BY <1>5, TailOfOne DEF Says, IsAbort
  <2>2. Says(m)
    BY <1>5
  <2> HIDE DEF m
  <2>3. ClientUpIni(m)
    BY <2>1, ClientHandles
  <2>4. Reply(c, <<x>>)
    BY <1>5, <2>1, <2>3 DEF ClientUpIni
  <2>5. /\ c.st = "blk_up_sub" /\ c.size = srv.size /\ c.buf = <<>>
        /\ c.ackseq = 0 /\ c.blksize = maxSeqno
    BY <1>1, <1>2, <1>5, <2>1 DEF ClientState
  <2> HIDE DEF c, x
  <2>6. cli' = c /\ AsksNext(x) /\ srv' = srv /\ maxSeqno' = maxSeqno /\ object' = object
    BY <2>2, <2>4, RepliesOne
  <2>7. Asks([k |-> "blk_up_start"])'
    BY <2>6 DEF Asks, AsksNext, x
  <2>8. srv.pos = 0 /\ Serves("blk_up_sub", srv.pos)'
    BY <1>5, <2>6 DEF Serves
  <2>9. TurnBlkUpSub'
    BY <1>5, <2>5, <2>6, <2>7, <2>8 DEF TurnBlkUpSub
  <2> QED BY <2>5, <2>6, <2>9 DEF Turn, Downloading
<1>6. CASE Refuses
  <2>1. Head(s2c) = Abort
    BY <1>6, TailOfOne DEF Refuses, Says
  <2> QED BY <1>6, <2>1, ClientAborts, IsToldSo
<1> QED BY <1>1, <1>3, <1>4, <1>5, <1>6 DEF TurnUpIni, Sent

LEMMA UpSegTurn ==
  ASSUME FInv, cli.st = "up_seg", TurnUpSeg, ClientReceive
  PROVE  Turn' /\ object' = object
<1> DEFINE p == Len(cli.buf)
           t == Flip(cli.toggle)
           last == p + 1 = cli.size
<1>1. s2c # <<>>
  BY DEF ClientReceive
<1>2. /\ cli \in ClientState /\ cli.buf \in Seq(Segment) /\ cli.size \in Nat
      /\ p \in Nat /\ cli.toggle \in 0 .. 1
  BY DEF FInv, ClientFits, Within, ClientState
<1>3. PICK x \in Segment :
        Says([k |-> "up_seg_res", toggle |-> t, data |-> x, last |-> last])
  BY <1>1 DEF TurnUpSeg, Asks
<1>4. /\ p < cli.size
      /\ IF last THEN Free
         ELSE /\ Serves("up_seg", p + 1)
              /\ srv.size = cli.size /\ srv.toggle = cli.toggle
  BY <1>1 DEF TurnUpSeg, Asks
<1> DEFINE m == [k |-> "up_seg_res", toggle |-> t, data |-> x, last |-> last]
           buf == Append(cli.buf, x)
           c == [cli EXCEPT !.buf = buf]
           e == [cli EXCEPT !.buf = buf, !.toggle = Flip(@)]
           q == [k |-> "up_seg", toggle |-> cli.toggle]
<1>5. /\ m = Head(s2c) /\ ~IsAbort(m) /\ m.k = "up_seg_res" /\ m.data = x
      /\ Toggle(m) # cli.toggle /\ LastOf(m) = last
  BY <1>2, <1>3, TailOfOne DEF Says, IsAbort, Toggle, LastOf, Flip
<1>6. Says(m)
  BY <1>3
<1>7. buf \in Seq(Segment) /\ Len(buf) = p + 1
  BY <1>2
<1>8. p + 1 <= cli.size
  BY <1>2, <1>4
<1> HIDE DEF m
<1>9. ClientUpSeg(m)
  BY <1>5, ClientHandles
<1>10. IF last THEN Succeed(c) ELSE Reply(e, <<q>>)
  <2> HIDE DEF p, t
  <2>1. /\ m.k \in {"up_seg_res", "seg"} /\ ~(Toggle(m) = cli.toggle)
        /\ ~(Len(buf) > cli.size \/ (last /\ Len(buf) # cli.size))
    BY <1>2, <1>5, <1>7, <1>8 DEF p
  <2> HIDE DEF last
  <2> QED BY <1>5, <1>9, <2>1, Zenon DEF ClientUpSeg
<1> HIDE DEF buf
<1>11. CASE last
  <2>1. c \in ClientState
    BY <1>2, <1>7 DEF ClientState
  <2> QED BY <1>4, <1>6, <1>10, <1>11, <2>1, Succeeds
<1>12. CASE ~last
  <2>1. /\ e.st = "up_seg" /\ e.size = cli.size /\ e.buf = buf
        /\ Flip(e.toggle) = cli.toggle
    BY <1>2 DEF ClientState, Flip
  <2>2. Reply(e, <<q>>)
    BY <1>10, <1>12
  <2> HIDE DEF e, q
  <2>3. cli' = e /\ AsksNext(q) /\ srv' = srv /\ maxSeqno' = maxSeqno /\ object' = object
    BY <1>6, <2>2, RepliesOne
  <2>4. Len(cli'.buf) = p + 1 /\ p + 1 < cli'.size
    BY <1>2, <1>4, <1>7, <1>8, <1>12, <2>1, <2>3
  <2>5. Asks([k |-> "up_seg", toggle |-> Flip(cli.toggle)])'
    BY <2>1, <2>3 DEF Asks, AsksNext, q
  <2>6. Serves("up_seg", Len(cli.buf))'
    BY <1>4, <1>12, <2>3, <2>4 DEF Serves
  <2>7. TurnUpSeg'
    BY <1>4, <1>12, <2>1, <2>3, <2>4, <2>5, <2>6 DEF TurnUpSeg
  <2> QED BY <2>1, <2>3, <2>7 DEF Turn, Downloading
<1> QED BY <1>11, <1>12

\* The client takes the next segment of a block.
LEMMA BlkUpSubTurn ==
  ASSUME FInv, cli.st = "blk_up_sub", TurnBlkUpSub, ClientReceive
  PROVE  Turn' /\ object' = object
<1> DEFINE d == srv.value
           w == srv.win
           from == srv.pos - w
           i == cli.ackseq
           m == [k |-> "seg", seqno |-> i + 1, data |-> d[from + (i + 1)],
                 last |-> from + w = Len(d) /\ i + 1 = w]
           buf == SubSeq(d, 1, from + (i + 1))
<1>1. /\ cli.blksize = maxSeqno /\ cli.size = srv.size /\ s2c # <<>>
      /\ Serves("blk_up_sub", srv.pos)
      /\ IsBlock(from, w, srv.size) /\ srv.blksize = w
      /\ i \in 0 .. w - 1 /\ cli.buf = SubSeq(d, 1, from + i)
      /\ c2s = <<>> /\ s2c = Rest(d, from, w, i)
  BY DEF TurnBlkUpSub, ClientReceive, Asks
<1>2. /\ cli \in ClientState /\ srv \in ServerState /\ srv.pos \in Nat /\ w \in Nat
      /\ d \in Seq(Segment) /\ Len(d) \in 1 .. 15 /\ srv.size = Len(d)
  BY <1>1, ValLen, SeqnoNat DEF FInv, ClientFits, Within, ServerFits, ServerState, Serves
<1>3. /\ from \in Nat /\ w < 128 /\ w >= 1 /\ w \in 1 .. maxSeqno
      /\ from + w <= Len(d) /\ w <= maxSeqno /\ maxSeqno \in 1 .. 127
      /\ w # maxSeqno => from + w = Len(d)
  <2> DEFINE size == Len(d)
  <2> HIDE DEF from, w, d, size
  <2>1. IsBlock(from, w, size) /\ size \in 1 .. 15
    BY <1>1, <1>2 DEF size
  <2>2. /\ from \in Nat /\ w < 128 /\ w >= 1 /\ w \in 1 .. maxSeqno
        /\ from + w <= size /\ w <= maxSeqno /\ maxSeqno \in 1 .. 127
        /\ w # maxSeqno => from + w = size
    BY <2>1, BlockBounds DEF IsBlock
  <2> QED BY <2>2 DEF size
<1>4. from + w = srv.pos /\ i \in Nat /\ i + 1 \in 1 .. w
  <2>1. from = srv.pos - w /\ w \in Nat /\ srv.pos \in Nat /\ i \in 0 .. w - 1
    BY <1>1, <1>2
  <2> HIDE DEF from, w, i
  <2> QED BY <2>1
<1> HIDE DEF w, from, i
<1>5. s2c # <<>> /\ Head(s2c) = m /\ Tail(s2c) = Rest(d, from, w, i + 1)
  <2> HIDE DEF d
  <2>1. /\ d \in Seq(Segment) /\ from \in Nat /\ w \in Nat /\ from + w <= Len(d) /\ w < 128
        /\ i \in 0 .. w - 1 /\ s2c = Rest(d, from, w, i)
    BY <1>1, <1>2, <1>3
  <2> QED BY <2>1, RestOfBlock
<1>6. /\ m.k = "seg" /\ SeqnoOf(m) = i + 1 /\ Accept(m, cli.ackseq)
      /\ m.data = d[from + (i + 1)]
      /\ LastInBlock(m) <=> (from + w = Len(d) /\ i + 1 = w)
      /\ LastInBlock(m) \in BOOLEAN
  BY DEF SeqnoOf, Accept, LastInBlock, i
<1>7. ClientBlkUpSub(m)
  <2>1. m.k # "abort" /\ m = Head(s2c) /\ cli.st # "wait"
        /\ cli.st \notin {"up_ini", "blk_up_ini"} /\ cli.st # "up_seg" /\ cli.st # "blk_up_end"
    BY <1>5, <1>6
  <2> HIDE DEF m
  <2> QED BY <2>1, Zenon DEF ClientReceive
<1>8. /\ Append(cli.buf, m.data) = buf /\ Len(cli.buf) < cli.size
      /\ buf \in Seq(Segment) /\ Len(buf) = from + (i + 1)
  <2>1. cli.buf = SubSeq(d, 1, from + i) /\ cli.size = Len(d)
    BY <1>1, <1>2
  <2>2. from + (i + 1) \in 1 .. Len(d) /\ (from + (i + 1)) - 1 = from + i
        /\ from + i \in 0 .. Len(d) - 1
    BY <1>1, <1>2, <1>3, <1>4
  <2>3. Len(cli.buf) = from + i
    BY <1>2, <2>1, <2>2, SubSeqProperties
  <2> HIDE DEF d, m
  <2>4. /\ Append(SubSeq(d, 1, from + i), d[from + (i + 1)]) = SubSeq(d, 1, from + (i + 1))
        /\ Len(SubSeq(d, 1, from + (i + 1))) = from + (i + 1)
        /\ SubSeq(d, 1, from + (i + 1)) \in Seq(Segment)
    BY <1>2, <2>2, Prefix
  <2>5. Append(cli.buf, m.data) = Append(SubSeq(d, 1, from + i), d[from + (i + 1)])
    BY <1>6, <2>1
  <2>6. Len(cli.buf) < cli.size
    <3> DEFINE size == Len(d)
    <3>1. Len(cli.buf) = from + i /\ cli.size = size /\ from + i \in 0 .. size - 1
          /\ size \in 1 .. 15
      BY <1>2, <2>1, <2>2, <2>3
    <3> HIDE DEF size
    <3> QED BY <3>1
  <2> QED BY <2>4, <2>5, <2>6
<1> DEFINE end == LastInBlock(m)
           full == i + 1 = cli.blksize \/ end
           c == [cli EXCEPT !.buf = buf,
                            !.ackseq = IF full THEN 0 ELSE i + 1,
                            !.st = IF end THEN "blk_up_end" ELSE @]
           tx == IF full THEN <<[k |-> "blk_up_res", ackseq |-> i + 1,
                                 blksize |-> cli.blksize]>>
                 ELSE <<>>
<1>9. full <=> i + 1 = w
  BY <1>1, <1>3, <1>4, <1>6
<1>10. Reply(c, tx)
  <2> DEFINE take == Accept(m, cli.ackseq)
             room == Len(cli.buf) < cli.size
             ack == IF take THEN cli.ackseq + 1 ELSE cli.ackseq
             full1 == SeqnoOf(m) = cli.blksize \/ end
  <2> HIDE DEF m
  <2>1. Reply([cli EXCEPT !.buf = IF take /\ room THEN Append(@, m.data) ELSE @,
                          !.ackseq = IF full1 THEN 0 ELSE ack,
                          !.st = IF end THEN "blk_up_end" ELSE @],
              IF full1 THEN <<[k |-> "blk_up_res", ackseq |-> ack,
                               blksize |-> cli.blksize]>>
              ELSE <<>>)
    <3>1. ~(take /\ ~end /\ ~room)
      BY <1>8
    <3> QED BY <1>7, <3>1, Zenon DEF ClientBlkUpSub
  <2>2. take /\ room /\ (full1 <=> full) /\ ack = i + 1
    BY <1>6, <1>8 DEF i
  <2> HIDE DEF take, room, ack, full1, end, full, buf
  <2>3. c = [cli EXCEPT !.buf = IF take /\ room THEN Append(@, m.data) ELSE @,
                        !.ackseq = IF full1 THEN 0 ELSE ack,
                        !.st = IF end THEN "blk_up_end" ELSE @]
    BY <1>8, <2>2
  <2>4. tx = IF full1 THEN <<[k |-> "blk_up_res", ackseq |-> ack,
                              blksize |-> cli.blksize]>>
             ELSE <<>>
    BY <2>2
  <2> QED BY <2>1, <2>3, <2>4
<1>11. /\ cli' = c /\ s2c' = Rest(d, from, w, i + 1) /\ c2s' = tx
       /\ srv' = srv /\ maxSeqno' = maxSeqno /\ object' = object
  <2>1. c2s \o tx = tx
    BY <1>1, NothingMore, TailOfOne
  <2> QED BY <1>5, <1>10, <2>1 DEF Reply
<1>12. /\ c.buf = buf /\ c.ackseq = (IF full THEN 0 ELSE i + 1)
       /\ c.st = (IF end THEN "blk_up_end" ELSE "blk_up_sub")
       /\ c.size = srv.size /\ c.blksize = maxSeqno
  BY <1>1, <1>2 DEF ClientState
<1> HIDE DEF c, m
<1>13. CASE i + 1 = w
  <2>1. s2c' = <<>>
    BY <1>2, <1>3, <1>11, <1>13, RestOfBlock
  <2>2. c2s' = <<[k |-> "blk_up_res", ackseq |-> w, blksize |-> maxSeqno]>>
        /\ c.ackseq = 0
    BY <1>1, <1>9, <1>11, <1>12, <1>13
  <2>3. buf = SubSeq(d, 1, srv.pos) /\ Len(buf) = srv.pos
    BY <1>4, <1>8, <1>13
  <2>4. Asks([k |-> "blk_up_res", ackseq |-> srv.win, blksize |-> maxSeqno])'
    BY <1>11, <2>1, <2>2 DEF Asks, w
  <2> HIDE DEF full
  <2>5. CASE end
    <3>1. srv.pos = Len(d)
      BY <1>4, <1>6, <2>5
    <3>2. c.buf = d /\ c.st = "blk_up_end"
      <4>1. SubSeq(d, 1, Len(d)) = d
        BY <1>2
      <4> QED BY <1>12, <2>3, <2>5, <3>1, <4>1
    <3>3. TurnBlkUpEnd'
      BY <1>1, <1>2, <1>3, <1>11, <1>12, <2>4, <3>1, <3>2 DEF TurnBlkUpEnd, Serves, w
    <3> QED BY <1>11, <3>2, <3>3 DEF Turn, Downloading
  <2>6. CASE ~end
    <3>1. srv.pos < srv.size
      <4> DEFINE size == Len(d)
      <4>1. from + w # size /\ from + w <= size /\ size \in 1 .. 15
            /\ srv.pos = from + w /\ srv.size = size
        BY <1>2, <1>3, <1>4, <1>6, <1>13, <2>6
      <4> HIDE DEF size
      <4> QED BY <1>2, <1>3, <4>1
    <3>2. c.st = "blk_up_sub"
      BY <1>12, <2>6
    <3> HIDE DEF buf, end
    <3>3. TurnBlkUpSub'
      BY <1>1, <1>11, <1>12, <2>2, <2>3, <2>4, <3>1
         DEF TurnBlkUpSub, Serves, IsBlock, w, from
    <3> QED BY <1>11, <3>2, <3>3 DEF Turn, Downloading
  <2> QED BY <2>5, <2>6
<1>14. CASE i + 1 # w
  <2>1. ~full /\ ~end
    BY <1>6, <1>9, <1>14
  <2>2. c2s' = <<>> /\ c.ackseq = i + 1 /\ c.st = "blk_up_sub"
    BY <1>11, <1>12, <2>1
  <2>3. i + 1 \in 0 .. w - 1
    BY <1>2, <1>3, <1>4, <1>14
  <2> HIDE DEF end, full
  <2>4. TurnBlkUpSub'
    BY <1>1, <1>11, <1>12, <2>2, <2>3 DEF TurnBlkUpSub, Serves, IsBlock, w, from
  <2> QED BY <1>11, <2>2, <2>4 DEF Turn, Downloading
<1> QED BY <1>13, <1>14

LEMMA BlkUpEndTurn ==
  ASSUME FInv, cli.st = "blk_up_end", TurnBlkUpEnd, ClientReceive
  PROVE  Turn' /\ object' = object
<1> DEFINE m == [k |-> "blk_up_end_res", crc |-> cli.buf]
           c == Ended(cli, "ok")
<1>1. /\ Says(m) /\ cli.size = Len(cli.buf) /\ srv.st = "blk_up_end" /\ cli \in ClientState
  BY DEF TurnBlkUpEnd, ClientReceive, Asks, FInv, ClientFits, Within
<1>2. m = Head(s2c) /\ ~IsAbort(m) /\ m.k = "blk_up_end_res" /\ m.crc = cli.buf
  BY <1>1, TailOfOne DEF Says, IsAbort
<1> HIDE DEF m
<1>3. ClientBlkUpEnd(m)
  BY <1>2, ClientHandles
<1>4. Reply(c, <<EndReq>>)
  BY <1>1, <1>2, <1>3, Zenon DEF ClientBlkUpEnd, EndReq
<1>5. c.st = "wait" /\ c.result = "ok"
  BY <1>1 DEF Ended, ClientState
<1> HIDE DEF c
<1>6. cli' = c /\ AsksNext(EndReq) /\ srv' = srv /\ maxSeqno' = maxSeqno /\ object' = object
  BY <1>1, <1>4, RepliesOne
<1>7. TurnWait'
  <2>1. <<EndReq>> \o <<>> = <<EndReq>>
    OBVIOUS
  <2> QED BY <1>1, <1>5, <1>6, <2>1 DEF TurnWait, Sent, AsksNext
<1> QED BY <1>5, <1>6, <1>7 DEF Turn, Downloading

\* The client handles the next frame.
LEMMA ClientTurn ==
  ASSUME FInv, object \in Whole, Turn, ClientReceive
  PROVE  object' \in Whole /\ Turn'
<1>1. CASE cli.st = "wait"
  BY <1>1 DEF Turn, TurnWait, Sent, ClientReceive
<1>2. CASE cli.st = "dn_ini"
  BY <1>2, DnIniTurn DEF Turn, Downloading
<1>3. CASE cli.st = "dn_seg"
  BY <1>3, DnSegTurn DEF Turn, Downloading
<1>4. CASE cli.st \in {"blk_dn_ini", "blk_dn_sub"}
  BY <1>4, BlkDnTurn DEF Turn, Downloading
<1>5. CASE cli.st = "blk_dn_end"
  BY <1>5, BlkDnEndTurn DEF Turn, Downloading
<1>6. CASE cli.st \in {"up_ini", "blk_up_ini"}
  BY <1>6, UpIniTurn DEF Turn
<1>7. CASE cli.st = "up_seg"
  BY <1>7, UpSegTurn DEF Turn
<1>8. CASE cli.st = "blk_up_sub"
  BY <1>8, BlkUpSubTurn DEF Turn
<1>9. CASE cli.st = "blk_up_end"
  BY <1>9, BlkUpEndTurn DEF Turn
<1>10. cli.st \in {"wait", "dn_ini", "dn_seg", "up_ini", "up_seg", "blk_dn_ini",
                   "blk_dn_sub", "blk_dn_end", "blk_up_ini", "blk_up_sub", "blk_up_end"}
  BY DEF FInv, ClientFits, Within, ClientState
<1> QED BY <1>1, <1>2, <1>3, <1>4, <1>5, <1>6, <1>7, <1>8, <1>9, <1>10

-----------------------------------------------------------------------------
(* The other steps                                                         *)

\* A request leaves, behind the frame that ends a block upload if that is not
\* yet taken.
SentNext(tx) ==
  /\ s2c' = <<>>
  /\ \/ Free' /\ c2s' = tx
     \/ srv'.st = "blk_up_end" /\ c2s' = <<EndReq>> \o tx

LEMMA RequestLeaves ==
  ASSUME FInv, Turn, NEW c, NEW m, Begin(c, m)
  PROVE  SentNext(<<m>>) /\ cli' = c /\ maxSeqno' = maxSeqno /\ object' = object
<1>1. Sent(<<>>)
  BY DEF Begin, Turn, TurnWait
<1>2. Append(<<>>, m) = <<m>> /\ Append(<<EndReq>> \o <<>>, m) = <<EndReq>> \o <<m>>
  <2> DEFINE e == EndReq
  <2> HIDE DEF e
  <2>1. Append(<<e>> \o <<>>, m) = <<e>> \o <<m>>
    OBVIOUS
  <2> QED BY <2>1 DEF e
<1> QED BY <1>1, <1>2 DEF Begin, Sent, SentNext, Free

LEMMA DnReqTurn ==
  ASSUME FInv, Turn, NEW v \in Value, DnReq(v)
  PROVE  Turn' /\ object' = object
<1> DEFINE d == Segs(v)
           c == NewRequest("dn", "dn_ini", d)
           e == [c EXCEPT !.pos = 1]
           m == [k |-> "dn_exp", data |-> d]
           x == [k |-> "dn_ini", size |-> Length[v]]
<1>1. d \in Whole /\ Len(d) = Length[v]
  BY SegsVal DEF Whole
<1>2. /\ c.st = "dn_ini" /\ c.op = "dn" /\ c.value = d /\ c.pos = 0 /\ c.toggle = 0
      /\ e.st = "dn_ini" /\ e.op = "dn" /\ e.value = d /\ e.pos = 1
  BY DEF NewRequest
<1>3. CASE v \in Small
  <2>1. Begin(e, m) /\ Len(d) = 1
    BY <1>1, <1>3, ValueAssumption, Zenon DEF DnReq
  <2> HIDE DEF d, c, e, m
  <2>2. SentNext(<<m>>) /\ cli' = e /\ object' = object
    BY <2>1, RequestLeaves
  <2>3. Sent(<<[k |-> "dn_exp", data |-> cli.value]>>)'
    BY <1>2, <2>2 DEF Sent, SentNext, m
  <2>4. TurnExp'
    BY <1>2, <2>1, <2>2, <2>3 DEF TurnExp
  <2> QED BY <1>1, <1>2, <2>2, <2>4 DEF Turn, Downloading
<1>4. CASE v \notin Small
  <2>1. Begin(c, x)
    BY <1>4, Zenon DEF DnReq
  <2> HIDE DEF d, c, x
  <2>2. SentNext(<<x>>) /\ cli' = c /\ object' = object
    BY <2>1, RequestLeaves
  <2>3. Sent(<<[k |-> "dn_ini", size |-> Len(cli.value)]>>)'
    BY <1>1, <1>2, <2>2 DEF Sent, SentNext, x
  <2>4. TurnDnIni'
    BY <1>2, <2>2, <2>3 DEF TurnDnIni
  <2> QED BY <1>1, <1>2, <2>2, <2>4 DEF Turn, Downloading
<1> QED BY <1>3, <1>4

LEMMA BlkDnReqTurn ==
  ASSUME FInv, Turn, NEW v \in Value, BlkDnReq(v)
  PROVE  Turn' /\ object' = object
<1> DEFINE d == Segs(v)
           c == NewRequest("dn", "blk_dn_ini", d)
           x == [k |-> "blk_dn_ini", size |-> Length[v]]
<1>1. d \in Whole /\ Len(d) = Length[v]
  BY SegsVal DEF Whole
<1>2. c.st = "blk_dn_ini" /\ c.op = "dn" /\ c.value = d /\ c.pos = 0
  BY DEF NewRequest
<1>3. Begin(c, x)
  BY DEF BlkDnReq
<1> HIDE DEF d, c, x
<1>4. SentNext(<<x>>) /\ cli' = c /\ object' = object
  BY <1>3, RequestLeaves
<1>5. Sent(<<[k |-> "blk_dn_ini", size |-> Len(cli.value)]>>)'
  BY <1>1, <1>2, <1>4 DEF Sent, SentNext, x
<1>6. TurnBlkDnIni'
  BY <1>2, <1>4, <1>5 DEF TurnBlkDnIni
<1> QED BY <1>1, <1>2, <1>4, <1>6 DEF Turn, Downloading

LEMMA UpReqTurn ==
  ASSUME FInv, Turn, UpReq
  PROVE  Turn' /\ object' = object
<1> DEFINE c == NewRequest("up", "up_ini", <<>>)
           x == [k |-> "up_ini"]
<1>1. c.st = "up_ini" /\ c.op = "up" /\ c.toggle = 0 /\ c.buf = <<>>
  BY DEF NewRequest
<1>2. Begin(c, x)
  BY DEF UpReq
<1> HIDE DEF c, x
<1>3. SentNext(<<x>>) /\ cli' = c /\ object' = object
  BY <1>2, RequestLeaves
<1>4. Sent(<<[k |-> "up_ini"]>>)'
  BY <1>3 DEF Sent, SentNext, x
<1>5. TurnUpIni'
  BY <1>1, <1>3, <1>4 DEF TurnUpIni
<1> QED BY <1>1, <1>3, <1>5 DEF Turn, Downloading

LEMMA BlkUpReqTurn ==
  ASSUME FInv, Turn, NEW pst \in Psts, BlkUpReq(pst)
  PROVE  Turn' /\ object' = object
<1> DEFINE c == [NewRequest("up", "blk_up_ini", <<>>) EXCEPT !.blksize = maxSeqno]
           x == [k |-> "blk_up_ini", blksize |-> maxSeqno, pst |-> pst]
<1>1. /\ c.st = "blk_up_ini" /\ c.op = "up" /\ c.toggle = 0 /\ c.buf = <<>>
      /\ c.blksize = maxSeqno
  BY DEF NewRequest
<1>2. Begin(c, x)
  BY DEF BlkUpReq
<1> HIDE DEF c, x
<1>3. SentNext(<<x>>) /\ cli' = c /\ object' = object /\ maxSeqno' = maxSeqno
  BY <1>2, RequestLeaves
<1>4. \E p \in Psts :
        Sent(<<[k |-> "blk_up_ini", blksize |-> maxSeqno, pst |-> p]>>)'
  BY <1>3 DEF Sent, SentNext, x
<1>5. TurnUpIni'
  BY <1>1, <1>3, <1>4 DEF TurnUpIni
<1> QED BY <1>1, <1>3, <1>5 DEF Turn, Downloading

\* While the client waits for an answer there is a frame under way.
LEMMA SomethingUnderWay ==
  ASSUME FInv, Turn, cli.st # "wait"
  PROVE  ~(c2s = <<>> /\ s2c = <<>>)
<1>1. \A m : <<m>> # <<>> /\ <<EndReq>> \o <<m>> # <<>>
  <2> DEFINE e == EndReq
  <2> HIDE DEF e
  <2>1. \A m : <<m>> # <<>> /\ <<e>> \o <<m>> # <<>>
    OBVIOUS
  <2> QED BY <2>1 DEF e
<1>2. /\ \A m : Sent(<<m>>) => c2s # <<>>
      /\ \A m : Asks(m) => c2s # <<>>
      /\ \A m : Says(m) => s2c # <<>>
      /\ Refuses => s2c # <<>>
  BY <1>1 DEF Sent, Asks, Says, Refuses
<1>3. ASSUME NEW d \in Val, NEW from, NEW n, IsBlock(from, n, Len(d)), NEW i \in 0 .. n - 1
      PROVE  Rest(d, from, n, i) # <<>>
  <2> DEFINE size == Len(d)
  <2>1. size \in 1 .. 15 /\ d \in Seq(Segment)
    BY ValLen
  <2> HIDE DEF size
  <2>2. from \in Nat /\ n \in Nat /\ n < 128 /\ from + n <= size
    BY <1>3, <2>1, BlockBounds DEF size
  <2> QED BY <2>1, <2>2, RestOfBlock DEF size
<1>4. CASE cli.st \in {"dn_ini", "dn_seg", "blk_dn_ini", "blk_dn_end"}
  BY <1>2, <1>4 DEF Turn, TurnExp, TurnDnIni, TurnDnSeg, TurnBlkDnIni, TurnBlkDnEnd
<1>5. CASE cli.st = "blk_dn_sub"
  <2>1. cli.value \in Val /\ TurnBlkDnSub
    BY <1>5, WholeVal DEF Turn, Downloading
  <2> QED BY <1>2, <1>3, <2>1 DEF TurnBlkDnSub
<1>6. CASE cli.st \in {"up_ini", "blk_up_ini", "up_seg", "blk_up_end"}
  BY <1>2, <1>6 DEF Turn, TurnUpIni, TurnUpSeg, TurnBlkUpEnd
<1>7. CASE cli.st = "blk_up_sub"
  <2>1. TurnBlkUpSub
    BY <1>7 DEF Turn
  <2>2. srv.value \in Val /\ srv.size = Len(srv.value)
    BY <2>1 DEF TurnBlkUpSub, Serves, FInv, ServerFits
  <2> QED BY <1>2, <1>3, <2>1, <2>2 DEF TurnBlkUpSub
<1>8. cli.st \in {"wait", "dn_ini", "dn_seg", "up_ini", "up_seg", "blk_dn_ini",
                  "blk_dn_sub", "blk_dn_end", "blk_up_ini", "blk_up_sub", "blk_up_end"}
  BY DEF FInv, ClientFits, Within, ClientState
<1> QED BY <1>4, <1>5, <1>6, <1>7, <1>8

LEMMA NothingUnderWay ==
  ASSUME FInv, c2s \o s2c = <<>>
  PROVE  c2s = <<>> /\ s2c = <<>>
<1>1. c2s \in Seq(FromClient) /\ s2c \in Seq(FromServer)
  BY DEF FInv
<1>2. Len(c2s \o s2c) = Len(c2s) + Len(s2c) /\ Len(c2s) \in Nat /\ Len(s2c) \in Nat
  BY <1>1, ConcatProperties, LenProperties
<1>3. Len(c2s) = 0 /\ Len(s2c) = 0
  BY <1>2
<1> QED BY <1>1, <1>3, EmptySeq

LEMMA NoTimeout == ASSUME FInv, Turn \/ Spill, Timeout PROVE FALSE
<1>1. cli.st # "wait" /\ c2s = <<>> /\ s2c = <<>>
  BY NothingUnderWay DEF Timeout, GiveUp
<1>2. ~Spill
  BY <1>1 DEF Spill
<1> QED BY <1>1, <1>2, SomethingUnderWay

\* The server runs.
LEMMA ServerRuns == ASSUME FInv, Turn \/ Spill PROVE srv.st \notin {"stopped", "down"}
<1>9. CASE Spill
  BY <1>9 DEF Spill, Free, ServerIn
<1> SUFFICES ASSUME Turn PROVE srv.st \notin {"stopped", "down"}
  BY <1>9
<1>1. /\ Free => srv.st = "wait"
      /\ Refuses => srv.st = "wait"
      /\ \A tx : Sent(tx) => srv.st \in {"wait", "blk_up_end"}
  BY DEF Free, ServerIn, Refuses, Sent
<1>2. \A st, n : (Collects(st, n) \/ Serves(st, n)) => srv.st = st
  BY DEF Collects, Serves
<1>3. CASE cli.st = "wait"
  BY <1>1, <1>3 DEF Turn, TurnWait
<1>4. CASE cli.st \in {"dn_ini", "dn_seg"}
  BY <1>1, <1>2, <1>4 DEF Turn, TurnExp, TurnDnIni, TurnDnSeg
<1>5. CASE cli.st \in {"blk_dn_ini", "blk_dn_sub", "blk_dn_end"}
  BY <1>1, <1>2, <1>5 DEF Turn, TurnBlkDnIni, TurnBlkDnSub, TurnBlkDnEnd
<1>6. CASE cli.st \in {"up_ini", "blk_up_ini", "up_seg"}
  BY <1>1, <1>2, <1>6 DEF Turn, TurnUpIni, TurnUpSeg
<1>7. CASE cli.st \in {"blk_up_sub", "blk_up_end"}
  BY <1>1, <1>2, <1>7 DEF Turn, TurnBlkUpSub, TurnBlkUpEnd
<1>8. cli.st \in {"wait", "dn_ini", "dn_seg", "up_ini", "up_seg", "blk_dn_ini",
                  "blk_dn_sub", "blk_dn_end", "blk_up_ini", "blk_up_sub", "blk_up_end"}
  BY DEF FInv, ClientFits, Within, ClientState
<1> QED BY <1>3, <1>4, <1>5, <1>6, <1>7, <1>8

\* Whose turn it is does not depend on the object, nor does what is left of a block.
LEMMA TurnStays ==
  ASSUME UNCHANGED <<cli, srv, c2s, s2c, maxSeqno>>, had \subseteq had', Turn \/ Spill
  PROVE  Turn' \/ Spill'
<1>8. Spill => Spill'
  BY DEF Spill, Free
<1> SUFFICES ASSUME Turn PROVE Turn'
  BY <1>8
<1>9. Unserved => Unserved'
  BY StillUnserved
<1>1. /\ Free' <=> Free
      /\ Refuses => Refuses'
      /\ TurnWait => TurnWait'
  BY <1>9 DEF Free, Refuses, Says, Sent, TurnWait
<1>10. /\ TurnExp => TurnExp'
       /\ TurnDnIni => TurnDnIni'
  BY <1>1 DEF Free, Says, Sent, TurnExp, TurnDnIni, Collects
<1>2. /\ TurnDnSeg => TurnDnSeg'
      /\ TurnBlkDnIni => TurnBlkDnIni'
      /\ TurnBlkDnEnd => TurnBlkDnEnd'
  BY <1>1 DEF TurnDnSeg, TurnBlkDnIni, TurnBlkDnEnd, Asks, Says, Sent, Collects, Free
<1>3. TurnBlkDnSub => TurnBlkDnSub'
  BY DEF TurnBlkDnSub, IsBlock, Collects, Says
<1>4. TurnUpIni => TurnUpIni'
  BY <1>1 DEF TurnUpIni, Sent, Says, Serves, Free
<1>5. TurnUpSeg => TurnUpSeg'
  BY DEF TurnUpSeg, Asks, Says, Serves, Free
<1>6. TurnBlkUpSub => TurnBlkUpSub'
  BY DEF TurnBlkUpSub, IsBlock, Asks, Serves
<1>7. TurnBlkUpEnd => TurnBlkUpEnd'
  BY DEF TurnBlkUpEnd, Asks, Says, Serves
<1> QED BY <1>10, <1>1, <1>2, <1>3, <1>4, <1>5, <1>6, <1>7 DEF Turn

LEMMA NoFault ==
  ASSUME ServerReceive \/ ClientReceive
  PROVE  faults' = faults /\ spilled' = spilled
<1> DEFINE same == faults' = faults /\ spilled' = spilled
<1>1. \A r, tx : Answer(r, tx) => same
  BY DEF Answer
<1>2. \A r, tx : Reply(r, tx) => same
  BY DEF Reply, history
<1> HIDE DEF same
<1>3. /\ \A tx : ServerEnd(tx) => same
      /\ \A d, r, tx : Download(d, r, tx) => same
      /\ Upload => same
  BY <1>1, Zenon DEF ServerEnd, AbortRes, Download, Upload
<1>4. ASSUME NEW m PROVE ServerWait(m) \/ ServerDnSeg(m) \/ ServerUpSeg(m) => same
  BY <1>1, <1>3, Zenon DEF ServerWait, ServerDnIni, ServerUpIni, ServerBlkDnIni,
     ServerBlkUpIni, ServerDnSeg, ServerUpSeg, AbortRes
<1>5. ASSUME NEW m PROVE ServerBlkDnSub(m) \/ ServerBlkDnEnd(m) \/ ServerBlkUpSub(m) => same
  BY <1>1, <1>3, Zenon DEF ServerBlkDnSub, ServerBlkDnEnd, ServerBlkUpSub, AbortRes
<1>6. ASSUME NEW m PROVE ServerBlkUpEnd(m) \/ ServerDeaf(m) => same
  BY <1>1, <1>3, Zenon DEF ServerBlkUpEnd, ServerDeaf, AbortRes
<1>7. /\ \A c : Succeed(c) => same
      /\ AbortReq \/ AbortInd => same
      /\ \A c : EnterDnSeg(c) => same
  BY <1>2, Zenon DEF Succeed, AbortReq, AbortInd, EnterDnSeg
<1>8. \A c, n : EnterBlkDnSub(c, n) => same
  BY <1>2, <1>7, Zenon DEF EnterBlkDnSub
<1>9. ASSUME NEW m PROVE ClientDown(m) => same
  BY <1>7, <1>8, Zenon DEF ClientDown, ClientDnIni, ClientDnSeg, ClientBlkDnIni,
     ClientBlkDnSub, ClientBlkDnEnd
<1>10. ASSUME NEW m PROVE ClientUpIni(m) \/ ClientUpSeg(m) => same
  BY <1>2, <1>7, Zenon DEF ClientUpIni, ClientUpSeg
<1>11. ASSUME NEW m PROVE ClientBlkUpSub(m) \/ ClientBlkUpEnd(m) => same
  BY <1>2, <1>7, Zenon DEF ClientBlkUpSub, ClientBlkUpEnd
<1>12. ServerReceive => same
  BY <1>4, <1>5, <1>6, Zenon DEF ServerReceive
<1>13. ClientReceive => same
  BY <1>2, <1>7, <1>9, <1>10, <1>11, Zenon DEF ClientReceive
<1> QED BY <1>12, <1>13 DEF same

LEMMA InitTurn == Init => TurnInv
<1> SUFFICES ASSUME Init PROVE object \in Whole /\ Turn
  BY DEF TurnInv
<1>1. object \in Whole
  BY ValueAssumption DEF Init, Whole
<1>2. cli.st = "wait" /\ cli.result = "none" /\ Sent(<<>>)
  BY DEF Init, NewRequest, Sent, Free
<1> QED BY <1>1, <1>2 DEF Turn, TurnWait, Downloading

\* The server answers what is left of a block, segment by segment.
LEMMA SpillServed ==
  ASSUME FInv, object \in Whole, Spill, ServerReceive
  PROVE  object' \in Whole /\ Spill'
<1> DEFINE m == Head(c2s)
<1>1. /\ c2s \in Seq(FromClient) /\ c2s # <<>> /\ s2c \in Seq(FromServer)
      /\ Free /\ srv.st = "wait" /\ cli.op = "dn" /\ NoRoom(Len(cli.value))
      /\ ServerWait(m)
  BY ServerHandles DEF FInv, Spill, Free, ServerIn
<1>2. /\ m.k = "seg"
      /\ \A i \in 1 .. Len(Tail(c2s)) : Tail(c2s)[i].k = "seg"
  <2>1. \A i \in 1 .. Len(c2s) : c2s[i].k = "seg"
    BY DEF Spill
  <2>2. /\ Len(c2s) \in Nat /\ Len(c2s) >= 1 /\ m = c2s[1]
        /\ Len(Tail(c2s)) = Len(c2s) - 1
        /\ \A i \in 1 .. Len(Tail(c2s)) : Tail(c2s)[i] = c2s[i + 1]
    BY <1>1, HeadTailProperties, LenProperties, EmptySeq
  <2> HIDE DEF m
  <2>3. \A i \in 1 .. Len(Tail(c2s)) : i + 1 \in 1 .. Len(c2s)
    BY <2>2
  <2> QED BY <2>1, <2>2, <2>3
<1> HIDE DEF m
<1>3. Keep /\ \E tx \in {<<>>, <<Abort>>} : Answer(srv, tx)
  <2>1. \/ Keep /\ Answer(srv, <<>>)
        \/ Keep /\ Answer(ServerIn("wait"), <<Abort>>)
    BY <1>1, <1>2, Zenon
    DEF ServerWait, ServerDnIni, ServerUpIni, ServerBlkDnIni, ServerBlkUpIni, AbortRes,
        ServerEnd
  <2> QED BY <1>1, <2>1 DEF Free
<1>4. PICK tx \in {<<>>, <<Abort>>} : Answer(srv, tx)
  BY <1>3
<1>5. /\ srv' = srv /\ cli' = cli /\ c2s' = Tail(c2s) /\ s2c' = s2c \o tx
      /\ object' = object
  BY <1>3, <1>4 DEF Answer, Keep
<1>6. (\A i \in 1 .. Len(s2c') : s2c'[i] = Abort) /\ (s2c # <<>> => s2c' # <<>>)
  <2>1. \A i \in 1 .. Len(s2c) : s2c[i] = Abort
    BY DEF Spill
  <2>2. tx \in Seq({Abort}) /\ \A i \in 1 .. Len(tx) : tx[i] = Abort
    <3>1. CASE tx = <<>>
      BY <3>1
    <3>2. CASE tx = <<Abort>>
      BY <3>2
    <3> QED BY <3>1, <3>2
  <2>3. /\ Len(s2c \o tx) = Len(s2c) + Len(tx) /\ Len(s2c) \in Nat /\ Len(tx) \in Nat
        /\ \A i \in 1 .. Len(s2c) + Len(tx) :
             (s2c \o tx)[i] = IF i <= Len(s2c) THEN s2c[i] ELSE tx[i - Len(s2c)]
    BY <1>1, <2>2, ConcatProperties, LenProperties
  <2>4. ASSUME NEW i \in 1 .. Len(s2c) + Len(tx) PROVE (s2c \o tx)[i] = Abort
    <3>1. CASE i <= Len(s2c)
      <4>1. i \in 1 .. Len(s2c)
        BY <2>3, <3>1
      <4> QED BY <2>1, <2>3, <3>1, <4>1
    <3>2. CASE ~(i <= Len(s2c))
      <4>1. i - Len(s2c) \in 1 .. Len(tx)
        BY <2>3, <3>2
      <4> QED BY <2>2, <2>3, <3>2, <4>1
    <3> QED BY <3>1, <3>2
  <2>5. s2c # <<>> => s2c \o tx # <<>>
    <3>1. s2c # <<>> => Len(s2c) > 0
      BY <1>1, <2>3, EmptySeq
    <3>2. s2c \o tx = <<>> => Len(s2c \o tx) = 0
      OBVIOUS
    <3> QED BY <2>3, <3>1, <3>2
  <2> QED BY <1>5, <2>3, <2>4, <2>5
<1> QED BY <1>1, <1>2, <1>5, <1>6 DEF Spill, Free

\* The client hears of it once, and no more when it waits.
LEMMA SpillTold ==
  ASSUME FInv, object \in Whole, Spill, ClientReceive
  PROVE  object' \in Whole /\ Spill'
<1>1. /\ c2s \in Seq(FromClient) /\ s2c \in Seq(FromServer) /\ s2c # <<>>
      /\ cli \in ClientState
  BY DEF FInv, ClientFits, Within, ClientReceive
<1>2. /\ Head(s2c) = Abort
      /\ \A i \in 1 .. Len(Tail(s2c)) : Tail(s2c)[i] = Abort
  <2>1. \A i \in 1 .. Len(s2c) : s2c[i] = Abort
    BY DEF Spill
  <2>2. /\ Len(s2c) \in Nat /\ Len(s2c) >= 1 /\ Head(s2c) = s2c[1]
        /\ Len(Tail(s2c)) = Len(s2c) - 1
        /\ \A i \in 1 .. Len(Tail(s2c)) : Tail(s2c)[i] = s2c[i + 1]
    BY <1>1, HeadTailProperties, LenProperties, EmptySeq
  <2>3. \A i \in 1 .. Len(Tail(s2c)) : i + 1 \in 1 .. Len(s2c)
    BY <2>2
  <2> QED BY <2>1, <2>2, <2>3
<1>3. \A c : Reply(c, <<>>) =>
        /\ cli' = c /\ srv' = srv /\ object' = object /\ s2c' = Tail(s2c) /\ c2s' = c2s
  <2>1. c2s \o <<>> = c2s
    BY <1>1, ConcatEmptySeq
  <2> QED BY <2>1 DEF Reply
<1>4. CASE cli.st = "blk_dn_sub"
  <2>1. Reply(Ended(cli, "failed"), <<>>)
    BY <1>2, <1>4, ClientAborts DEF AbortInd, Downloading
  <2>2. /\ cli' = Ended(cli, "failed") /\ srv' = srv /\ object' = object
        /\ s2c' = Tail(s2c) /\ c2s' = c2s
    BY <1>3, <2>1
  <2>3. /\ cli'.st = "wait" /\ cli'.result = "failed"
        /\ cli'.op = cli.op /\ cli'.value = cli.value
    BY <1>1, <2>2 DEF Ended, ClientState
  <2> QED BY <1>2, <2>2, <2>3 DEF Spill, Free
<1>5. CASE cli.st = "wait"
  <2>1. Reply(cli, <<>>)
    BY <1>5, Zenon
    DEF ClientReceive, ClientDown, ClientDnIni, ClientDnSeg, ClientBlkDnIni,
        ClientBlkDnSub, ClientBlkDnEnd
  <2> QED BY <1>2, <1>3, <1>5, <2>1 DEF Spill, Free
<1> QED BY <1>4, <1>5 DEF Spill

\* When nothing is left of the block, it is the client's turn to ask again.
LEMMA SpillSettles ==
  ASSUME FInv, Spill, NEW c, NEW m, Begin(c, m), ~spilled'
  PROVE  Turn
<1>1. c2s \o s2c = <<>> /\ cli.st = "wait"
  BY DEF Begin, Spill
<1>2. c2s = <<>> /\ s2c = <<>>
  BY <1>1, NothingUnderWay
<1>3. Sent(<<>>) /\ Unserved
  BY <1>2 DEF Spill, Sent, Unserved
<1> QED BY <1>1, <1>3 DEF Turn, TurnWait, Downloading

LEMMA RequestTurn ==
  ASSUME FInv, object \in Whole, Turn \/ Spill, Request, ~spilled'
  PROVE  object' \in Whole /\ Turn'
<1>1. \E c, m : Begin(c, m)
  BY Zenon DEF Request, DnReq, BlkDnReq, UpReq, BlkUpReq
<1>2. Turn
  BY <1>1, SpillSettles
<1> QED BY <1>2, DnReqTurn, BlkDnReqTurn, UpReqTurn, BlkUpReqTurn DEF Request

\* No step takes back a fault or what was left of a block.
LEMMA HistoryGrows ==
  ASSUME [Next]_vars
  PROVE  (spilled => spilled') /\ (faults' = faults \/ Fault)
<1>1. CASE ServerReceive \/ ClientReceive
  BY <1>1, NoFault
<1>2. CASE Request
  <2>1. \E c, m : Begin(c, m)
    BY <1>2, Zenon DEF Request, DnReq, BlkDnReq, UpReq, BlkUpReq
  <2> QED BY <2>1 DEF Begin
<1>3. CASE Timeout \/ EarlyTimeout \/ LoseRequest \/ LoseResponse \/ ServerStop
  BY <1>3 DEF Timeout, EarlyTimeout, GiveUp, LoseRequest, LoseResponse, ServerStop, history
<1>4. CASE ServerStart \/ (\E v \in Local : LocalWrite(v)) \/ UNCHANGED vars
  BY <1>4 DEF ServerStart, LocalWrite, vars, history
<1> QED BY <1>1, <1>2, <1>3, <1>4 DEF Next

LEMMA StepTurn ==
  ASSUME FInv, SessionInv, TurnInv, [Next]_vars
  PROVE  TurnInv'
<1>1. SUFFICES ASSUME faults' = 0, ~spilled'
               PROVE  object' \in Whole /\ (Turn' \/ Spill')
  BY DEF TurnInv
<1>2. faults \in Nat
  BY BoundAssumption DEF FInv
<1>3. ~Fault
  BY <1>1, <1>2 DEF Fault
<1>4. faults = 0 /\ ~spilled
  BY <1>1, <1>3, HistoryGrows
<1>5. object \in Whole /\ (Turn \/ Spill)
  BY <1>4 DEF TurnInv
<1>6. CASE ServerReceive
  BY <1>5, <1>6, ServerTurn, SpillServed DEF SessionInv
<1>7. CASE ClientReceive
  BY <1>5, <1>7, ClientTurn, SpillTold
<1>8. CASE Request
  BY <1>1, <1>5, <1>8, RequestTurn
<1>9. CASE Timeout
  BY <1>5, <1>9, NoTimeout
<1>10. CASE EarlyTimeout \/ LoseRequest \/ LoseResponse \/ ServerStop
  BY <1>3, <1>10 DEF EarlyTimeout, LoseRequest, LoseResponse, ServerStop
<1>11. CASE ServerStart
  <2>1. srv.st = "stopped"
    BY <1>11 DEF ServerStart
  <2> QED BY <1>5, <2>1, ServerRuns
<1>12. ASSUME NEW v \in Local, LocalWrite(v)
       PROVE  object' \in Whole /\ (Turn' \/ Spill')
  <2>1. object' \in Whole
    BY <1>12, ValueAssumption DEF LocalWrite, Whole
  <2>2. UNCHANGED <<cli, srv, c2s, s2c, maxSeqno>> /\ had \subseteq had'
    BY <1>12 DEF LocalWrite
  <2> QED BY <1>5, <2>1, <2>2, TurnStays
<1>13. CASE UNCHANGED vars
  <2>1. object' = object /\ had' = had /\ UNCHANGED <<cli, srv, c2s, s2c, maxSeqno>>
    BY <1>13 DEF vars, history
  <2> QED BY <1>5, <2>1, TurnStays
<1> QED BY <1>6, <1>7, <1>8, <1>9, <1>10, <1>11, <1>12, <1>13 DEF Next

LEMMA TurnsAreTaken == Spec => [](FInv /\ SessionInv /\ TurnInv)
<1>1. Init => TurnInv
  BY InitTurn
<1>2. (FInv /\ SessionInv) /\ TurnInv /\ [Next]_vars => TurnInv'
  BY StepTurn
<1> QED BY <1>1, <1>2, SessionsHold, PTL DEF Spec

\* Without a fault every transfer succeeds for which the object is willing and the
\* server has room, and the assertion on dn_ind (co_ssdo.c:1351) never fails,
\* whatever came before, if only no client asks while the server still refuses the
\* segments of a block it had no room for: for all values, all capacities, block
\* sizes and thresholds, any number of transfers, and an application that stores
\* values of its own in the middle of them.
THEOREM FaultlessTransfersSucceed == Spec => []FaultlessSucceeds
<1>1. FInv /\ SessionInv /\ TurnInv => FaultlessSucceeds
  <2> SUFFICES ASSUME FInv, TurnInv, SessionInv, faults = 0, ~spilled
               PROVE  srv.st # "down" /\ (cli.result = "failed" => Unserved)
    BY DEF FaultlessSucceeds, Unserved
  <2>1. Turn \/ Spill
    BY DEF TurnInv
  <2>2. srv.st # "down"
    BY <2>1, ServerRuns
  <2>3. ASSUME cli.result = "failed" PROVE Unserved
    <3>1. cli.st = "wait"
      BY <2>3 DEF SessionInv
    <3>2. CASE Turn
      BY <2>3, <3>1, <3>2 DEF Turn, TurnWait
    <3>3. CASE Spill
      BY <3>3 DEF Spill, Unserved
    <3> QED BY <2>1, <3>2, <3>3
  <2> QED BY <2>2, <2>3
<1> QED BY <1>1, TurnsAreTaken, PTL

-----------------------------------------------------------------------------
(* WholeValues: one fault, with frames of earlier transfers under way       *)

\* Segment i of the value d, as it is sent in a segmented download.
SegOf(d, i, t) ==
  [k |-> "dn_seg", toggle |-> t, data |-> d[i], last |-> i = Len(d)]

\* A frame that carries a value carries a whole one.
Carries(m) ==
  /\ m.k = "dn_exp" => m.data \in Whole
  /\ m.k = "blk_dn_end" => m.crc \in Whole

\* The frame y may leave after the frame x: a segment follows the one before it,
\* or the frame that begins its transfer.
Follows(x, y) ==
  /\ y.k = "dn_seg" =>
       \E d \in Whole :
         \/ x = [k |-> "dn_ini", size |-> Len(d)] /\ y = SegOf(d, 1, 0)
         \/ \E i \in 1 .. Len(d) - 1, t \in 0 .. 1 :
              x = SegOf(d, i, t) /\ y = SegOf(d, i + 1, Flip(t))
  /\ y.k = "seg" => x.k \in {"blk_dn_ini", "seg"}

Ordered(q) ==
  /\ \A i \in 1 .. Len(q) : Carries(q[i])
  /\ \A i \in 1 .. Len(q) - 1 : Follows(q[i], q[i + 1])

\* If the frame m is a segment, the server r has collected the ones before it.
Expects(r, m) ==
  r.st = "dn_seg" =>
    /\ m.k # "seg"
    /\ m.k = "dn_seg" =>
         \E d \in Whole : \E i \in 1 .. Len(d) :
           /\ m = SegOf(d, i, r.toggle)
           /\ r.size = Len(d) /\ r.data = SubSeq(d, 1, i - 1)

\* The states in which a client goes on with segments of a value.
Sending == {"dn_ini", "dn_seg", "blk_dn_ini", "blk_dn_sub"}

\* The frame m is the last one that the client c sent.
HasSent(c, m) ==
  /\ c.st = "dn_ini" =>
       \/ c.pos = 0 /\ m = [k |-> "dn_ini", size |-> Len(c.value)]
       \/ c.pos = Len(c.value) /\ m.k = "dn_exp"
  /\ c.st = "dn_seg" =>
       c.pos >= 1 /\ m = SegOf(c.value, c.pos, Flip(c.toggle))
  /\ c.st = "blk_dn_ini" => m.k = "blk_dn_ini"
  /\ c.st = "blk_dn_sub" => m.k = "seg"

\* The server r has what the client c sent, if both are in a segmented download.
HasTaken(r, c) ==
  r.st = "dn_seg" =>
    /\ c.st \notin {"blk_dn_ini", "blk_dn_sub"}
    /\ c.st \in {"dn_ini", "dn_seg"} =>
         /\ r.size = Len(c.value) /\ r.data = SubSeq(c.value, 1, c.pos)
         /\ r.toggle = c.toggle

\* The frames under way follow each other, the server expects the first, and the
\* client goes on from the last; without any, from what the server has taken.
InStep ==
  /\ Ordered(c2s)
  /\ c2s = <<>> => HasTaken(srv, cli)
  /\ c2s # <<>> => Expects(srv, Head(c2s)) /\ HasSent(cli, c2s[Len(c2s)])

\* A request was lost: nothing moves before the client's timer.
Stuck == c2s = <<>> /\ s2c = <<>> /\ cli.st # "wait"

\* One fault leaves the two sides in step, or waiting for each other: only a second
\* one could take a segment from between two others.
OneFaultInv ==
  faults <= 1 /\ ~spilled =>
    /\ object \in Whole
    /\ cli.st \in Downloading => cli.value \in Whole
    /\ cli.st = "dn_ini" => cli.toggle = 0
    /\ Stuck \/ InStep

-----------------------------------------------------------------------------
(* Frames in order                                                         *)

\* What is behind the first frame of a sequence.
LEMMA Behind ==
  ASSUME NEW S, NEW q \in Seq(S), q # <<>>
  PROVE  /\ Head(q) = q[1] /\ Len(q) \in Nat /\ Len(q) >= 1
         /\ Tail(q) \in Seq(S) /\ Len(Tail(q)) = Len(q) - 1
         /\ \A i \in 1 .. Len(q) - 1 : Tail(q)[i] = q[i + 1]
         /\ Tail(q) = <<>> => Len(q) = 1
         /\ Tail(q) # <<>> => Head(Tail(q)) = q[2] /\ Len(q) >= 2
<1>1. /\ Head(q) = q[1] /\ Tail(q) \in Seq(S) /\ Len(Tail(q)) = Len(q) - 1
      /\ \A i \in 1 .. Len(Tail(q)) : Tail(q)[i] = q[i + 1]
  BY HeadTailProperties
<1>2. Len(q) \in Nat /\ Len(q) >= 1
  BY LenProperties, EmptySeq
<1>3. Tail(q) = <<>> => Len(q) = 1
  <2>1. Tail(q) = <<>> => Len(Tail(q)) = 0
    BY <1>1, EmptySeq
  <2> QED BY <1>1, <1>2, <2>1
<1>4. ASSUME Tail(q) # <<>> PROVE Head(Tail(q)) = q[2] /\ Len(q) >= 2
  <2>1. Len(Tail(q)) \in Nat /\ Len(Tail(q)) >= 1
    BY <1>1, <1>4, LenProperties, EmptySeq
  <2>2. Head(Tail(q)) = Tail(q)[1]
    BY <1>1, <1>4, HeadTailProperties
  <2> QED BY <1>1, <1>2, <2>1, <2>2
<1> QED BY <1>1, <1>2, <1>3, <1>4

LEMMA OrderedTail ==
  ASSUME NEW S, NEW q \in Seq(S), q # <<>>, Ordered(q)
  PROVE  /\ Ordered(Tail(q)) /\ Carries(Head(q))
         /\ Tail(q) = <<>> => q[Len(q)] = Head(q)
         /\ Tail(q) # <<>> =>
              Follows(Head(q), Head(Tail(q))) /\ Tail(q)[Len(Tail(q))] = q[Len(q)]
<1> DEFINE t == Tail(q)
           n == Len(q)
<1>1. /\ Head(q) = q[1] /\ n \in Nat /\ n >= 1 /\ Len(t) = n - 1
      /\ \A i \in 1 .. n - 1 : t[i] = q[i + 1]
      /\ t = <<>> => n = 1
      /\ t # <<>> => Head(t) = q[2] /\ n >= 2
  BY Behind
<1>2. /\ \A i \in 1 .. n : Carries(q[i])
      /\ \A i \in 1 .. n - 1 : Follows(q[i], q[i + 1])
  BY DEF Ordered
<1> HIDE DEF t, n
<1>3. \A i \in 1 .. Len(t) : Carries(t[i])
  BY <1>1, <1>2
<1>4. ASSUME NEW i \in 1 .. Len(t) - 1 PROVE Follows(t[i], t[i + 1])
  <2>1. /\ i + 1 \in 1 .. n - 1 /\ i \in 1 .. n - 1
    BY <1>1
  <2>2. Follows(q[i + 1], q[(i + 1) + 1])
    BY <1>2, <2>1
  <2> QED BY <1>1, <2>1, <2>2
<1>5. Ordered(t)
  BY <1>3, <1>4 DEF Ordered
<1>6. Carries(q[1])
  BY <1>1, <1>2
<1>7. ASSUME t # <<>> PROVE Follows(q[1], q[2]) /\ t[n - 1] = q[n]
  <2>1. n - 1 \in 1 .. n - 1 /\ 1 \in 1 .. n - 1 /\ 1 + 1 = 2 /\ (n - 1) + 1 = n
    BY <1>1, <1>7
  <2>2. Follows(q[1], q[1 + 1]) /\ t[n - 1] = q[(n - 1) + 1]
    BY <1>1, <1>2, <2>1
  <2> QED BY <2>1, <2>2
<1> QED BY <1>1, <1>5, <1>6, <1>7 DEF t, n

LEMMA OrderedConcat ==
  ASSUME NEW S, NEW q \in Seq(S), NEW u \in Seq(S), u # <<>>, Ordered(q), Ordered(u),
         q # <<>> => Follows(q[Len(q)], Head(u))
  PROVE  /\ Ordered(q \o u) /\ q \o u # <<>>
         /\ Head(q \o u) = IF q = <<>> THEN Head(u) ELSE Head(q)
         /\ (q \o u)[Len(q \o u)] = u[Len(u)]
<1> DEFINE s == q \o u
           n == Len(q)
           m == Len(u)
<1>1. /\ s \in Seq(S) /\ Len(s) = n + m /\ n \in Nat /\ m \in Nat /\ m >= 1
      /\ \A i \in 1 .. n + m : s[i] = IF i <= n THEN q[i] ELSE u[i - n]
  <2>1. m \in Nat \ {0} /\ n \in Nat
    BY EmptySeq, LenProperties
  <2> QED BY <2>1, ConcatProperties
<1>2. /\ \A i \in 1 .. n : Carries(q[i])
      /\ \A i \in 1 .. n - 1 : Follows(q[i], q[i + 1])
      /\ \A i \in 1 .. m : Carries(u[i])
      /\ \A i \in 1 .. m - 1 : Follows(u[i], u[i + 1])
  BY DEF Ordered
<1>3. s # <<>> /\ Head(s) = s[1] /\ Head(u) = u[1]
  <2>1. s # <<>>
    <3> HIDE DEF s, n, m
    <3> QED BY <1>1
  <2> QED BY <1>1, <2>1, HeadTailProperties
<1>4. q = <<>> <=> n = 0
  BY EmptySeq
<1>5. q # <<>> => Head(q) = q[1]
  BY HeadTailProperties
<1>6. q # <<>> => Follows(q[n], u[1])
  BY <1>3
<1> HIDE DEF s, n, m
<1>7. ASSUME NEW i \in 1 .. Len(s) PROVE Carries(s[i])
  <2>1. CASE i <= n
    BY <1>1, <1>2, <2>1
  <2>2. CASE ~(i <= n)
    <3>1. i - n \in 1 .. m /\ s[i] = u[i - n]
      BY <1>1, <2>2
    <3> QED BY <1>2, <3>1
  <2> QED BY <2>1, <2>2
<1>8. ASSUME NEW i \in 1 .. Len(s) - 1 PROVE Follows(s[i], s[i + 1])
  <2>1. CASE i < n
    <3>1. i \in 1 .. n - 1 /\ s[i] = q[i] /\ s[i + 1] = q[i + 1]
      BY <1>1, <2>1
    <3> QED BY <1>2, <3>1
  <2>2. CASE i = n
    <3>1. s[i] = q[n] /\ s[i + 1] = u[1] /\ n # 0
      <4>1. i + 1 \in 1 .. n + m /\ ~(i + 1 <= n) /\ (i + 1) - n = 1 /\ i \in 1 .. n + m
        BY <1>1, <2>2
      <4> QED BY <1>1, <2>2, <4>1
    <3> QED BY <1>4, <1>6, <3>1
  <2>3. CASE i > n
    <3>1. /\ i - n \in 1 .. m - 1 /\ i \in 1 .. n + m /\ i + 1 \in 1 .. n + m
          /\ ~(i <= n) /\ ~(i + 1 <= n) /\ (i + 1) - n = (i - n) + 1
      BY <1>1, <2>3
    <3>2. s[i] = u[i - n] /\ s[i + 1] = u[(i - n) + 1]
      BY <1>1, <3>1
    <3> QED BY <1>2, <3>1, <3>2
  <2> QED BY <1>1, <2>1, <2>2, <2>3
<1>9. Ordered(s)
  BY <1>7, <1>8 DEF Ordered
<1>10. s[1] = (IF q = <<>> THEN u[1] ELSE q[1]) /\ s[n + m] = u[m]
  <2>1. /\ 1 \in 1 .. n + m /\ n + m \in 1 .. n + m /\ ~(n + m <= n) /\ (n + m) - n = m
        /\ n = 0 => ~(1 <= n) /\ 1 - n = 1
        /\ n # 0 => 1 <= n
    BY <1>1
  <2>2. s[n + m] = u[(n + m) - n]
    BY <1>1, <2>1
  <2>3. s[1] = IF 1 <= n THEN q[1] ELSE u[1 - n]
    BY <1>1, <2>1
  <2>4. CASE n = 0
    BY <1>4, <2>1, <2>2, <2>3, <2>4
  <2>5. CASE n # 0
    BY <1>4, <2>1, <2>2, <2>3, <2>5
  <2> QED BY <2>4, <2>5
<1> QED BY <1>1, <1>3, <1>5, <1>9, <1>10 DEF s, n, m

\* A frame that was appended to frames of S and gave frames of S is one of them.
LEMMA LastTyped ==
  ASSUME NEW S, NEW q \in Seq(S), NEW x, q \o <<x>> \in Seq(S)
  PROVE  x \in S
<1> DEFINE T == S \cup {x}
           u == <<x>>
           s == q \o u
<1>1. q \in Seq(T) /\ u \in Seq(T) /\ Len(u) = 1 /\ u[1] = x
  BY SeqMonotonic
<1> HIDE DEF T, u
<1>2. Len(q) \in Nat /\ Len(s) = Len(q) + Len(u)
      /\ \A i \in 1 .. Len(q) + Len(u) : s[i] = IF i <= Len(q) THEN q[i] ELSE u[i - Len(q)]
  BY <1>1, ConcatProperties, LenProperties
<1>3. s \in Seq(S)
  BY DEF u
<1> HIDE DEF s
<1>4. /\ Len(q) + 1 \in 1 .. Len(s) /\ ~(Len(q) + 1 <= Len(q)) /\ (Len(q) + 1) - Len(q) = 1
      /\ Len(q) + 1 \in 1 .. Len(q) + Len(u)
  BY <1>1, <1>2
<1>5. s[Len(q) + 1] = x
  BY <1>1, <1>2, <1>4
<1> QED BY <1>3, <1>4, <1>5, ElementOfSeq

\* A segment tells its value and its place in it.
LEMMA SegmentTells ==
  ASSUME NEW d \in Whole, NEW e \in Whole, NEW i \in 1 .. Len(d), NEW j \in 1 .. Len(e),
         d[i] = e[j]
  PROVE  d = e /\ i = j
<1>1. PICK v \in Value : d = Segs(v)
  BY DEF Whole
<1>2. PICK w \in Value : e = Segs(w)
  BY DEF Whole
<1>3. i \in 1 .. Length[v] /\ j \in 1 .. Length[w]
  BY <1>1, <1>2, SegsVal
<1>4. d[i] = <<v, i>> /\ e[j] = <<w, j>>
  BY <1>1, <1>2, <1>3 DEF Segs
<1>5. <<v, i>>[1] = v /\ <<v, i>>[2] = i /\ <<w, j>>[1] = w /\ <<w, j>>[2] = j
  OBVIOUS
<1>6. v = w /\ i = j
  BY <1>4, <1>5
<1> QED BY <1>1, <1>2, <1>6

LEMMA AfterSegment ==
  ASSUME NEW d \in Whole, NEW i \in 1 .. Len(d), NEW t \in 0 .. 1, NEW y,
         Follows(SegOf(d, i, t), y)
  PROVE  /\ y.k # "seg"
         /\ y.k = "dn_seg" => i + 1 \in 1 .. Len(d) /\ y = SegOf(d, i + 1, Flip(t))
<1> DEFINE x == SegOf(d, i, t)
<1>1. x.k = "dn_seg" /\ x.data = d[i] /\ x.toggle = t
  BY DEF SegOf
<1> HIDE DEF x
<1>2. y.k # "seg"
  BY <1>1 DEF Follows, x
<1>3. ASSUME y.k = "dn_seg"
      PROVE  i + 1 \in 1 .. Len(d) /\ y = SegOf(d, i + 1, Flip(t))
  <2>1. PICK e \in Whole :
          \/ x = [k |-> "dn_ini", size |-> Len(e)] /\ y = SegOf(e, 1, 0)
          \/ \E j \in 1 .. Len(e) - 1, u \in 0 .. 1 :
               x = SegOf(e, j, u) /\ y = SegOf(e, j + 1, Flip(u))
    BY <1>3 DEF Follows, x
  <2>2. PICK j \in 1 .. Len(e) - 1, u \in 0 .. 1 :
          x = SegOf(e, j, u) /\ y = SegOf(e, j + 1, Flip(u))
    BY <1>1, <2>1
  <2>3. x.data = e[j] /\ x.toggle = u
    BY <2>2 DEF SegOf
  <2>4. j \in 1 .. Len(e) /\ j + 1 \in 1 .. Len(e)
    <3> DEFINE n == Len(e)
    <3>1. n \in 1 .. 15 /\ j \in 1 .. n - 1
      BY WholeVal
    <3> HIDE DEF n
    <3>2. j \in 1 .. n /\ j + 1 \in 1 .. n
      BY <3>1
    <3> QED BY <3>2 DEF n
  <2>5. d[i] = e[j] /\ t = u
    BY <1>1, <2>3
  <2>6. d = e /\ i = j
    BY <2>4, <2>5, SegmentTells
  <2> QED BY <2>2, <2>4, <2>5, <2>6
<1> QED BY <1>2, <1>3

\* The server takes the first frame.
LEMMA TakesNext ==
  ASSUME FInv, InStep, c2s # <<>>, c2s' = Tail(c2s), cli' = cli,
         \A y : Follows(Head(c2s), y) => Expects(srv', y),
         HasSent(cli, Head(c2s)) => HasTaken(srv', cli)
  PROVE  InStep'
<1> DEFINE q == c2s
           t == Tail(c2s)
<1>1. q \in Seq(FromClient) /\ q # <<>> /\ Ordered(q) /\ HasSent(cli, q[Len(q)])
  BY DEF FInv, InStep
<1>2. /\ Ordered(t)
      /\ t = <<>> => q[Len(q)] = Head(q)
      /\ t # <<>> => Follows(Head(q), Head(t)) /\ t[Len(t)] = q[Len(q)]
  BY <1>1, OrderedTail
<1>3. t = <<>> => HasTaken(srv', cli)
  BY <1>1, <1>2
<1>4. t # <<>> => Expects(srv', Head(t)) /\ HasSent(cli, t[Len(t)])
  BY <1>1, <1>2
<1> HIDE DEF t
<1>5. c2s' = t /\ cli' = cli
  BY DEF t
<1> QED BY <1>2, <1>3, <1>4, <1>5 DEF InStep

LEMMA NoPrefix ==
  \A d \in Whole : SubSeq(d, 1, 0) = <<>>
BY WholeVal

\* In a segmented download the server takes the segment it expects.
LEMMA TakesSegment ==
  ASSUME FInv, srv.st = "dn_seg", object \in Whole, ServerReceive,
         NEW d \in Whole, NEW i \in 1 .. Len(d), Head(c2s) = SegOf(d, i, srv.toggle),
         srv.size = Len(d), srv.data = SubSeq(d, 1, i - 1)
  PROVE  /\ object' \in Whole
         /\ srv'.st = "dn_seg" =>
              /\ i # Len(d) /\ srv'.size = Len(d) /\ srv'.data = SubSeq(d, 1, i)
              /\ srv'.toggle = Flip(srv.toggle)
<1> DEFINE t == srv.toggle
           last == i = Len(d)
           m == SegOf(d, i, t)
           x == [k |-> "dn_seg_res", toggle |-> t]
           data == Append(srv.data, d[i])
           next == IF last THEN ServerIn("wait")
                   ELSE [srv EXCEPT !.data = data, !.toggle = Flip(@)]
<1>1. /\ d \in Seq(Segment) /\ Len(d) \in Nat /\ srv \in ServerState
  BY WholeVal DEF FInv, ServerFits
<1>2. data = SubSeq(d, 1, i) /\ Len(data) = i /\ (last => data = d)
  BY <1>1, Prefix
<1>3. ServerDnSeg(m)
  BY ServerHandles
<1>4. /\ m.k = "dn_seg" /\ Toggle(m) = t /\ LastOf(m) = last /\ ~IsAbort(m)
      /\ m.data = d[i]
  BY DEF Toggle, LastOf, IsAbort, SegOf
<1> HIDE DEF m, x, data
<1>5. /\ Len(data) <= srv.size /\ (last => Len(data) = srv.size)
      /\ Len(data) = srv.size => last
      /\ Len(data) \in Nat /\ srv.size \in Nat
  BY <1>1, <1>2
<1> HIDE DEF last, t
<1>6. IF \/ Len(data) > srv.size \/ (last /\ Len(data) # srv.size)
         \/ NoRoom(srv.size)
      THEN AbortRes
      ELSE IF Len(data) = srv.size THEN Download(data, next, <<x>>)
      ELSE Answer(next, <<x>>) /\ Keep
  <2>1. ~(Toggle(m) # srv.toggle) /\ m.k \in {"dn_seg", "seg"}
    BY <1>4 DEF t
  <2>2. IF \/ Len(Append(srv.data, m.data)) > srv.size
           \/ (LastOf(m) /\ Len(Append(srv.data, m.data)) # srv.size)
           \/ NoRoom(srv.size)
        THEN AbortRes
        ELSE IF Len(Append(srv.data, m.data)) = srv.size
             THEN Download(Append(srv.data, m.data),
                           IF LastOf(m) THEN ServerIn("wait")
                           ELSE [srv EXCEPT !.data = Append(srv.data, m.data),
                                            !.toggle = Flip(@)],
                           <<[k |-> "dn_seg_res", toggle |-> srv.toggle]>>)
             ELSE /\ Answer(IF LastOf(m) THEN ServerIn("wait")
                            ELSE [srv EXCEPT !.data = Append(srv.data, m.data),
                                             !.toggle = Flip(@)],
                            <<[k |-> "dn_seg_res", toggle |-> srv.toggle]>>)
                  /\ Keep
    BY <1>3, <1>4, <2>1, Zenon DEF ServerDnSeg
  <2> QED BY <1>4, <2>2, Zenon DEF data, x, t
<1>7. ServerIn("wait").st = "wait"
  BY DEF ServerIn
<1>10. CASE NoRoom(srv.size)
  <2>1. Keep /\ Answer(ServerIn("wait"), <<Abort>>)
    BY <1>6, <1>10, Zenon DEF AbortRes, ServerEnd
  <2>2. object' = object /\ srv' = ServerIn("wait")
    BY <2>1 DEF Keep, Answer
  <2> QED BY <1>7, <2>2
<1>8. CASE last /\ ~NoRoom(srv.size)
  <2>1. Download(d, ServerIn("wait"), <<x>>)
    <3> HIDE DEF next
    <3>1. Download(data, next, <<x>>)
      BY <1>5, <1>6, <1>8
    <3> QED BY <1>2, <1>8, <3>1 DEF next
  <2>2. \/ Keep /\ Answer(ServerIn("wait"), <<Abort>>)
        \/ Store(d) /\ Answer(ServerIn("wait"), <<x>>)
    BY <2>1, Zenon DEF Download, AbortRes, ServerEnd
  <2>3. (object' = object \/ object' = d) /\ srv' = ServerIn("wait")
    BY <2>2, Zenon DEF Keep, Store, Answer
  <2> QED BY <1>7, <2>3
<1>9. CASE ~last /\ ~NoRoom(srv.size)
  <2> DEFINE r == [srv EXCEPT !.data = data, !.toggle = Flip(@)]
  <2>1. Answer(r, <<x>>) /\ Keep
    <3> HIDE DEF next
    <3>1. Answer(next, <<x>>) /\ Keep
      BY <1>5, <1>6, <1>9
    <3> QED BY <1>9, <3>1 DEF next
  <2>2. r.size = srv.size /\ r.data = data /\ r.toggle = Flip(t)
    BY <1>1 DEF ServerState, t
  <2> HIDE DEF r
  <2>3. srv' = r /\ object' = object
    BY <2>1 DEF Answer, Keep
  <2> QED BY <1>2, <1>9, <2>2, <2>3 DEF last, t
<1> QED BY <1>8, <1>9, <1>10

\* What the client has sent is what the server has taken when nothing is left.
LEMMA SegmentIsTaken ==
  ASSUME FInv, cli.st \in Downloading => cli.value \in Whole,
         NEW d \in Whole, NEW i \in 1 .. Len(d), NEW t \in 0 .. 1,
         HasSent(cli, SegOf(d, i, t)),
         NEW r, r.size = Len(d), r.data = SubSeq(d, 1, i), r.toggle = Flip(t)
  PROVE  HasTaken(r, cli)
<1> DEFINE m == SegOf(d, i, t)
<1>1. m.k = "dn_seg" /\ m.data = d[i] /\ m.toggle = t
  BY DEF SegOf
<1>2. m # [k |-> "dn_ini", size |-> Len(cli.value)]
  BY <1>1
<1> HIDE DEF m
<1>3. HasSent(cli, m)
  BY DEF m
<1>4. cli.st \notin {"dn_ini", "blk_dn_ini", "blk_dn_sub"}
  BY <1>1, <1>2, <1>3 DEF HasSent
<1>5. ASSUME cli.st = "dn_seg"
      PROVE  r.size = Len(cli.value) /\ r.data = SubSeq(cli.value, 1, cli.pos)
             /\ r.toggle = cli.toggle
  <2>1. cli.value \in Whole /\ cli.pos >= 1 /\ m = SegOf(cli.value, cli.pos, Flip(cli.toggle))
    BY <1>3, <1>5 DEF HasSent, Downloading
  <2>2. m.data = cli.value[cli.pos] /\ m.toggle = Flip(cli.toggle)
    BY <2>1 DEF SegOf
  <2>3. cli.pos \in 1 .. Len(cli.value) /\ cli.toggle \in 0 .. 1
    BY <2>1 DEF FInv, ClientFits, Within, ClientState
  <2>4. d[i] = cli.value[cli.pos] /\ t = Flip(cli.toggle)
    BY <1>1, <2>2
  <2>5. d = cli.value /\ i = cli.pos
    BY <2>1, <2>3, <2>4, SegmentTells
  <2>6. Flip(t) = cli.toggle
    BY <2>3, <2>4 DEF Flip
  <2> QED BY <2>5, <2>6
<1> QED BY <1>4, <1>5 DEF HasTaken

\* The server outside a segmented download stores whole values only, and begins
\* one with the request to do so.
LEMMA OtherReaction ==
  ASSUME FInv, srv.st # "dn_seg", object \in Whole, ServerReceive, Carries(Head(c2s))
  PROVE  /\ object' \in Whole
         /\ srv'.st = "dn_seg" =>
              /\ Head(c2s).k = "dn_ini"
              /\ srv'.size = Head(c2s).size /\ srv'.data = <<>> /\ srv'.toggle = 0
<1> DEFINE m == Head(c2s)
<1>1. Reaction(m) /\ Carries(m)
  BY ServerReacts
<1> HIDE DEF m
<1>2. object' \in Whole
  BY <1>1
  DEF Carries, Reaction, Ignored, Acknowledged, Downloaded, DownloadBegun,
      BlkDownloadBegun, SegmentTaken, BlkDownloaded, Uploaded, UploadBegun,
      BlkUploadBegun, SegmentGiven, BlockGiven, BlkUploaded, Store, Keep
<1>3. srv'.st = "dn_seg" => DownloadBegun(m)
  BY <1>1
  DEF Reaction, Ignored, Passive, Acknowledged, Downloaded, BlkDownloadBegun,
      SegmentTaken, BlkDownloaded, Uploaded, UploadBegun, BlkUploadBegun,
      SegmentGiven, BlockGiven, BlkUploaded
<1> QED BY <1>2, <1>3 DEF DownloadBegun, m

LEMMA ServerInStep ==
  ASSUME FInv, InStep, object \in Whole, ServerReceive,
         cli.st \in Downloading => cli.value \in Whole,
         cli.st = "dn_ini" => cli.toggle = 0
  PROVE  InStep' /\ object' \in Whole /\ cli' = cli
<1> DEFINE m == Head(c2s)
<1>1. /\ c2s # <<>> /\ m \in FromClient /\ c2s' = Tail(c2s) /\ cli' = cli
  <2>1. c2s # <<>> /\ m \in FromClient /\ Reaction(m)
    BY ServerReacts
  <2> HIDE DEF m
  <2> QED BY <2>1
      DEF Reaction, Ignored, Acknowledged, Downloaded, DownloadBegun, BlkDownloadBegun,
          SegmentTaken, BlkDownloaded, Uploaded, UploadBegun, BlkUploadBegun,
          SegmentGiven, BlockGiven, BlkUploaded, Answers
<1>2. Expects(srv, m) /\ Carries(m)
  <2>1. c2s \in Seq(FromClient) /\ Ordered(c2s)
    BY DEF FInv, InStep
  <2> QED BY <1>1, <2>1, OrderedTail DEF InStep
<1> SUFFICES /\ object' \in Whole
             /\ \A y : Follows(m, y) => Expects(srv', y)
             /\ HasSent(cli, m) => HasTaken(srv', cli)
  BY <1>1, TakesNext
<1>3. CASE srv'.st # "dn_seg" /\ object' \in Whole
  BY <1>3 DEF Expects, HasTaken
<1>4. CASE srv.st = "dn_seg" /\ m.k # "dn_seg"
  <2>1. ServerDnSeg(m)
    BY <1>4, ServerHandles
  <2>2. m.k \notin {"dn_seg", "seg"}
    BY <1>2, <1>4 DEF Expects
  <2> HIDE DEF m
  <2>3. Keep /\ \E tx : Answer(ServerIn("wait"), tx)
    BY <2>1, <2>2, Zenon DEF ServerDnSeg, AbortRes, ServerEnd
  <2>4. srv'.st = "wait" /\ object' = object
    BY <2>3 DEF Keep, Answer, ServerIn
  <2> QED BY <1>3, <2>4
<1>5. CASE srv.st = "dn_seg" /\ m.k = "dn_seg"
  <2>0. PICK d \in Whole : \E i \in 1 .. Len(d) :
          m = SegOf(d, i, srv.toggle) /\ srv.size = Len(d) /\ srv.data = SubSeq(d, 1, i - 1)
    BY <1>2, <1>5 DEF Expects
  <2>1. PICK i \in 1 .. Len(d) :
          m = SegOf(d, i, srv.toggle) /\ srv.size = Len(d) /\ srv.data = SubSeq(d, 1, i - 1)
    BY <2>0
  <2>2. /\ object' \in Whole
        /\ srv'.st = "dn_seg" =>
             /\ i # Len(d) /\ srv'.size = Len(d) /\ srv'.data = SubSeq(d, 1, i)
             /\ srv'.toggle = Flip(srv.toggle)
    BY <1>5, <2>1, TakesSegment
  <2>3. srv.toggle \in 0 .. 1
    BY DEF FInv, ServerFits, ServerState
  <2>4. ASSUME srv'.st = "dn_seg", NEW y, Follows(m, y) PROVE Expects(srv', y)
    <3>1. /\ y.k # "seg"
          /\ y.k = "dn_seg" =>
               i + 1 \in 1 .. Len(d) /\ y = SegOf(d, i + 1, Flip(srv.toggle))
      BY <2>1, <2>3, <2>4, AfterSegment
    <3>2. (i + 1) - 1 = i
      BY <2>1, WholeVal
    <3> QED BY <2>2, <2>4, <3>1, <3>2 DEF Expects
  <2>5. ASSUME srv'.st = "dn_seg", HasSent(cli, m) PROVE HasTaken(srv', cli)
    BY <2>1, <2>2, <2>3, <2>5, SegmentIsTaken
  <2>6. CASE srv'.st = "dn_seg"
    BY <2>2, <2>4, <2>5, <2>6
  <2> QED BY <1>3, <2>2, <2>6
<1>6. CASE srv.st # "dn_seg"
  <2>1. /\ object' \in Whole
        /\ srv'.st = "dn_seg" =>
             m.k = "dn_ini" /\ srv'.size = m.size /\ srv'.data = <<>> /\ srv'.toggle = 0
    BY <1>2, <1>6, OtherReaction
  <2> HIDE DEF m
  <2>2. ASSUME srv'.st = "dn_seg", NEW y, Follows(m, y) PROVE Expects(srv', y)
    <3>1. m.k = "dn_ini" /\ srv'.size = m.size /\ srv'.data = <<>> /\ srv'.toggle = 0
      BY <2>1, <2>2
    <3>2. y.k # "seg"
      BY <2>2, <3>1 DEF Follows
    <3>3. ASSUME y.k = "dn_seg"
          PROVE  \E d \in Whole : \E i \in 1 .. Len(d) :
                   /\ y = SegOf(d, i, srv'.toggle)
                   /\ srv'.size = Len(d) /\ srv'.data = SubSeq(d, 1, i - 1)
      <4>1. PICK d \in Whole :
              \/ m = [k |-> "dn_ini", size |-> Len(d)] /\ y = SegOf(d, 1, 0)
              \/ \E i \in 1 .. Len(d) - 1, t \in 0 .. 1 :
                   m = SegOf(d, i, t) /\ y = SegOf(d, i + 1, Flip(t))
        BY <2>2, <3>3 DEF Follows
      <4>2. m = [k |-> "dn_ini", size |-> Len(d)] /\ y = SegOf(d, 1, 0)
        BY <3>1, <4>1 DEF SegOf
      <4>3. m.size = Len(d)
        BY <4>2
      <4>4. 1 \in 1 .. Len(d) /\ 1 - 1 = 0
        <5> DEFINE n == Len(d)
        <5>1. n \in 1 .. 15
          BY WholeVal
        <5> HIDE DEF n
        <5>2. 1 \in 1 .. n
          BY <5>1
        <5> QED BY <5>2 DEF n
      <4>5. SubSeq(d, 1, 1 - 1) = <<>>
        BY <4>4, NoPrefix
      <4> QED BY <3>1, <4>2, <4>3, <4>4, <4>5
    <3> QED BY <3>2, <3>3 DEF Expects
  <2>3. ASSUME srv'.st = "dn_seg", HasSent(cli, m) PROVE HasTaken(srv', cli)
    <3>1. m.k = "dn_ini" /\ srv'.size = m.size /\ srv'.data = <<>> /\ srv'.toggle = 0
      BY <2>1, <2>3
    <3>2. cli.st \notin {"dn_seg", "blk_dn_ini", "blk_dn_sub"}
      BY <2>3, <3>1 DEF HasSent, SegOf
    <3>3. ASSUME cli.st = "dn_ini"
          PROVE  cli.pos = 0 /\ m.size = Len(cli.value) /\ cli.value \in Whole
      BY <2>3, <3>1, <3>3 DEF HasSent, Downloading
    <3> QED BY <3>1, <3>2, <3>3, NoPrefix DEF HasTaken
  <2>4. CASE srv'.st = "dn_seg"
    BY <2>1, <2>2, <2>3, <2>4
  <2> QED BY <1>3, <2>1, <2>4
<1> QED BY <1>4, <1>5, <1>6

-----------------------------------------------------------------------------
(* The client goes on                                                      *)

\* A frame that is no segment.
Light(y) == y.k \notin {"dn_seg", "seg"} /\ Carries(y)

SendsLight ==
  /\ cli'.st \notin Sending
  /\ cli'.st \in Downloading => cli.st \in Downloading
  /\ c2s' = c2s \/ \E y : Light(y) /\ c2s' = c2s \o <<y>>

LEMMA OneIsOrdered == ASSUME NEW y, Carries(y) PROVE Ordered(<<y>>) /\ Head(<<y>>) = y
BY DEF Ordered

LEMMA NoneIsOrdered == Ordered(<<>>)
BY DEF Ordered

\* The client sends the frames u.
LEMMA SendsNext ==
  ASSUME FInv, NEW u \in Seq(FromClient), u # <<>>, Ordered(u), Ordered(c2s),
         c2s' = c2s \o u, srv' = srv,
         c2s # <<>> =>
           Expects(srv, Head(c2s)) /\ Follows(c2s[Len(c2s)], Head(u)),
         c2s = <<>> => Expects(srv, Head(u)),
         HasSent(cli', u[Len(u)])
  PROVE  InStep'
<1> DEFINE s == c2s \o u
<1>1. c2s \in Seq(FromClient)
  BY DEF FInv
<1>2. /\ Ordered(s) /\ s # <<>> /\ s[Len(s)] = u[Len(u)]
      /\ Head(s) = IF c2s = <<>> THEN Head(u) ELSE Head(c2s)
  BY <1>1, OrderedConcat
<1>3. c2s' = s
  OBVIOUS
<1> HIDE DEF s
<1>4. Expects(srv, Head(s)) /\ HasSent(cli', s[Len(s)])
  BY <1>2
<1>5. Expects(srv', Head(c2s')) /\ HasSent(cli', c2s'[Len(c2s')])
  BY <1>3, <1>4
<1> QED BY <1>2, <1>3, <1>5 DEF InStep

LEMMA LightInStep ==
  ASSUME FInv, FInv', Ordered(c2s), c2s # <<>> => Expects(srv, Head(c2s)),
         srv' = srv, SendsLight
  PROVE  InStep'
<1>1. CASE c2s' = c2s
  <2>1. \A x : HasSent(cli', x) /\ HasTaken(srv', cli')
    BY DEF SendsLight, Sending, HasSent, HasTaken
  <2> QED BY <1>1, <2>1 DEF InStep
<1>2. CASE \E y : Light(y) /\ c2s' = c2s \o <<y>>
  <2>1. PICK y : Light(y) /\ c2s' = c2s \o <<y>>
    BY <1>2
  <2>2. c2s \in Seq(FromClient) /\ c2s \o <<y>> \in Seq(FromClient)
    BY <2>1 DEF FInv
  <2>3. y \in FromClient
    BY <2>2, LastTyped
  <2>4. <<y>> \in Seq(FromClient) /\ <<y>> # <<>> /\ <<y>>[Len(<<y>>)] = y
    BY <2>3
  <2>5. Ordered(<<y>>) /\ Head(<<y>>) = y
    BY <2>1, OneIsOrdered DEF Light
  <2>6. HasSent(cli', y)
    BY DEF SendsLight, Sending, HasSent
  <2>7. Expects(srv, y) /\ \A x : Follows(x, y)
    BY <2>1 DEF Light, Expects, Follows
  <2> QED BY <2>1, <2>4, <2>5, <2>6, <2>7, SendsNext
<1> QED BY <1>1, <1>2 DEF SendsLight

LEMMA SegmentInStep ==
  ASSUME FInv, InStep, srv' = srv, cli.st \in {"dn_ini", "dn_seg"},
         cli.value \in Whole, cli.st = "dn_ini" => cli.toggle = 0,
         cli.pos # Len(cli.value),
         cli' = [cli EXCEPT !.st = "dn_seg", !.pos = @ + 1, !.toggle = Flip(@)],
         c2s' = c2s \o <<SegOf(cli.value, cli.pos + 1, cli.toggle)>>
  PROVE  InStep'
<1> DEFINE v == cli.value
           p == cli.pos
           t == cli.toggle
           c == [cli EXCEPT !.st = "dn_seg", !.pos = @ + 1, !.toggle = Flip(@)]
           y == SegOf(v, p + 1, t)
<1>1. /\ cli \in ClientState /\ v \in Seq(Segment) /\ p \in Nat /\ t \in 0 .. 1
      /\ p <= Len(v) /\ Len(v) \in 1 .. 15
  BY WholeVal DEF FInv, ClientFits, Within, ClientState
<1>2. p + 1 \in 1 .. Len(v) /\ (p + 1) - 1 = p /\ (p >= 1 => p \in 1 .. Len(v) - 1)
  <2> DEFINE n == Len(v)
  <2>1. n \in 1 .. 15 /\ p <= n /\ p # n
    BY <1>1
  <2> HIDE DEF n
  <2>2. p + 1 \in 1 .. n /\ (p + 1) - 1 = p /\ (p >= 1 => p \in 1 .. n - 1)
    BY <1>1, <2>1
  <2> QED BY <2>2 DEF n
<1>3. Flip(t) \in 0 .. 1 /\ Flip(Flip(t)) = t
  BY <1>1 DEF Flip
<1>4. c.st = "dn_seg" /\ c.pos = p + 1 /\ c.toggle = Flip(t) /\ c.value = v
  BY <1>1 DEF ClientState
<1>5. y \in FromClient /\ Carries(y)
  <2>1. v[p + 1] \in Segment /\ (p + 1 = Len(v)) \in BOOLEAN
    BY <1>1, <1>2
  <2> QED BY <1>1, <2>1, ClientFrames DEF SegOf, Carries
<1>6. c2s' = c2s \o <<y>> /\ cli' = c
  OBVIOUS
<1> HIDE DEF c
<1>7. HasSent(c, y)
  BY <1>1, <1>3, <1>4 DEF HasSent
<1>8. ASSUME NEW x, HasSent(cli, x) PROVE Follows(x, y)
  <2>1. y.k = "dn_seg"
    BY DEF SegOf
  <2>2. CASE cli.st = "dn_ini"
    <3>1. p = 0 /\ x = [k |-> "dn_ini", size |-> Len(v)] /\ t = 0
      BY <1>8, <2>2 DEF HasSent
    <3>2. y = SegOf(v, 1, 0)
      BY <3>1
    <3> HIDE DEF y, v
    <3> QED BY <2>1, <3>1, <3>2 DEF Follows, v
  <2>3. CASE cli.st = "dn_seg"
    <3>1. p >= 1 /\ x = SegOf(v, p, Flip(t))
      BY <1>8, <2>3 DEF HasSent
    <3>2. y = SegOf(v, p + 1, Flip(Flip(t))) /\ p \in 1 .. Len(v) - 1
      BY <1>2, <1>3, <3>1
    <3> HIDE DEF y, p, t
    <3>3. \E i \in 1 .. Len(v) - 1, u \in 0 .. 1 :
            x = SegOf(v, i, u) /\ y = SegOf(v, i + 1, Flip(u))
      BY <1>3, <3>1, <3>2
    <3> QED BY <2>1, <3>3 DEF Follows
  <2> QED BY <2>2, <2>3
<1>9. ASSUME HasTaken(srv, cli) PROVE Expects(srv, y)
  <2>1. y.k = "dn_seg"
    BY DEF SegOf
  <2>2. ASSUME srv.st = "dn_seg"
        PROVE  /\ y = SegOf(v, p + 1, srv.toggle) /\ srv.size = Len(v)
               /\ srv.data = SubSeq(v, 1, (p + 1) - 1)
    <3>1. srv.size = Len(v) /\ srv.data = SubSeq(v, 1, p) /\ srv.toggle = t
      BY <1>9, <2>2 DEF HasTaken
    <3> QED BY <1>2, <3>1
  <2> HIDE DEF y, p
  <2> QED BY <1>2, <2>1, <2>2 DEF Expects
<1> HIDE DEF y
<1>10. /\ <<y>> \in Seq(FromClient) /\ <<y>> # <<>> /\ <<y>>[Len(<<y>>)] = y
       /\ Ordered(<<y>>) /\ Head(<<y>>) = y
  BY <1>5, OneIsOrdered
<1>11. /\ Ordered(c2s)
       /\ c2s # <<>> => Expects(srv, Head(c2s)) /\ Follows(c2s[Len(c2s)], Head(<<y>>))
       /\ c2s = <<>> => Expects(srv, Head(<<y>>))
  BY <1>8, <1>9, <1>10 DEF InStep
<1>12. HasSent(cli', <<y>>[Len(<<y>>)])
  BY <1>6, <1>7, <1>10
<1> QED BY <1>6, <1>10, <1>11, <1>12, SendsNext

LEMMA BlockInStep ==
  ASSUME FInv, InStep, srv' = srv, cli.st \in {"blk_dn_ini", "blk_dn_sub"},
         cli'.st = "blk_dn_sub",
         NEW u \in Seq(FromClient), u # <<>>, \A i \in 1 .. Len(u) : u[i].k = "seg",
         c2s' = c2s \o u
  PROVE  InStep'
<1>1. Len(u) \in Nat /\ Len(u) >= 1 /\ Head(u) = u[1]
  BY Behind
<1>2. 1 \in 1 .. Len(u) /\ Len(u) \in 1 .. Len(u)
  BY <1>1
<1>3. \A i \in 1 .. Len(u) - 1 : i \in 1 .. Len(u) /\ i + 1 \in 1 .. Len(u)
  BY <1>1
<1>4. Ordered(u)
  BY <1>3 DEF Ordered, Carries, Follows
<1>5. Head(u).k = "seg" /\ u[Len(u)].k = "seg"
  BY <1>1, <1>2
<1>6. \A x : HasSent(cli, x) => Follows(x, Head(u))
  BY <1>5 DEF HasSent, Follows
<1>7. HasTaken(srv, cli) => Expects(srv, Head(u))
  BY DEF HasTaken, Expects
<1>8. HasSent(cli', u[Len(u)])
  BY <1>5 DEF HasSent
<1> QED BY <1>4, <1>6, <1>7, <1>8, SendsNext DEF InStep

SegmentSent ==
  /\ cli.st \in {"dn_ini", "dn_seg"} /\ cli.pos # Len(cli.value)
  /\ cli' = [cli EXCEPT !.st = "dn_seg", !.pos = @ + 1, !.toggle = Flip(@)]
  /\ c2s' = c2s \o <<SegOf(cli.value, cli.pos + 1, cli.toggle)>>

BlockSent ==
  /\ cli.st \in {"blk_dn_ini", "blk_dn_sub"} /\ cli'.st = "blk_dn_sub"
  /\ \E u \in Seq(FromClient) :
       /\ u # <<>> /\ \A i \in 1 .. Len(u) : u[i].k = "seg"
       /\ c2s' = c2s \o u

LEMMA LightReply ==
  ASSUME FInv, NEW c, NEW tx, Reply(c, tx),
         c.st \notin Downloading \/ (c.st = "blk_dn_end" /\ cli.st \in Downloading),
         tx = <<>> \/ \E y : Light(y) /\ tx = <<y>>
  PROVE  SendsLight
<1>1. c2s \in Seq(FromClient) /\ c2s \o <<>> = c2s
  BY DEF FInv
<1>2. cli' = c /\ c2s' = c2s \o tx
  BY DEF Reply
<1> QED BY <1>1, <1>2 DEF SendsLight, Downloading, Sending

\* The frames that the client sends besides segments and the CRC of a value.
LEMMA LightFrames ==
  /\ Light(Abort)
  /\ Light([k |-> "blk_up_end"]) /\ Light([k |-> "blk_up_start"])
  /\ \A t : Light([k |-> "up_seg", toggle |-> t])
  /\ \A a, b : Light([k |-> "blk_up_res", ackseq |-> a, blksize |-> b])
  /\ \A d \in Whole : Light([k |-> "blk_dn_end", crc |-> d])
BY DEF Light, Carries, Abort

LEMMA LightEnd ==
  ASSUME FInv, NEW c \in ClientState, NEW d, NEW result, NEW tx,
         \/ Reply(Ended(c, result), tx)
         \/ Reply(Ended([c EXCEPT !.buf = d], result), tx),
         tx = <<>> \/ \E y : Light(y) /\ tx = <<y>>
  PROVE  SendsLight
<1> DEFINE e == Ended(c, result)
           f == Ended([c EXCEPT !.buf = d], result)
<1>1. e.st = "wait" /\ f.st = "wait"
  BY DEF Ended, ClientState
<1>2. Reply(e, tx) \/ Reply(f, tx)
  OBVIOUS
<1> HIDE DEF e, f
<1>3. "wait" \notin Downloading
  BY DEF Downloading
<1> QED BY <1>1, <1>2, <1>3, LightReply

LEMMA EnterDnSegSends ==
  ASSUME FInv, cli.st \in {"dn_ini", "dn_seg"}, EnterDnSeg(cli)
  PROVE  SendsLight \/ SegmentSent
<1>1. cli \in ClientState
  BY DEF FInv, ClientFits, Within
<1>2. CASE cli.pos = Len(cli.value)
  BY <1>1, <1>2, LightEnd DEF EnterDnSeg, Succeed
<1>3. CASE cli.pos # Len(cli.value)
  <2>1. Reply([cli EXCEPT !.st = "dn_seg", !.pos = @ + 1, !.toggle = Flip(@)],
              <<SegOf(cli.value, cli.pos + 1, cli.toggle)>>)
    BY <1>3, Zenon DEF EnterDnSeg, SegOf
  <2> QED BY <1>3, <2>1, Zenon DEF Reply, SegmentSent
<1> QED BY <1>2, <1>3

LEMMA EnterBlkDnSubSends ==
  ASSUME FInv, cli.st \in {"blk_dn_ini", "blk_dn_sub"}, cli.value \in Whole,
         NEW c, Within(c), c.value = cli.value, NEW blksize \in Seqno,
         EnterBlkDnSub(c, blksize)
  PROVE  SendsLight \/ BlockSent
<1> DEFINE left == Len(c.value) - c.pos
           n    == IF left < blksize THEN left ELSE blksize
           r    == [c EXCEPT !.st = "blk_dn_sub", !.blksize = n, !.pos = @ + n]
           end  == [c EXCEPT !.st = "blk_dn_end", !.blksize = 0]
           tx   == Block(c.value, c.pos, n, n = left)
           crc  == [k |-> "blk_dn_end", crc |-> c.value]
<1>1. /\ c \in ClientState /\ c.value \in Seq(Segment) /\ c.pos \in Nat
      /\ Len(c.value) \in Nat /\ c.pos <= Len(c.value) /\ Len(c.value) <= 15
  BY DEF Within, ClientState
<1>2. n \in Nat /\ n \in Seqno /\ c.pos + n <= Len(c.value)
  <2>1. n = IF c.pos + blksize < Len(c.value) THEN blksize ELSE Len(c.value) - c.pos
    BY <1>1 DEF Seqno
  <2>2. c.pos = c.pos - 0 /\ 0 \in Nat /\ 0 <= c.pos
    BY <1>1
  <2> HIDE DEF n
  <2> QED BY <1>1, <2>1, <2>2, Window
<1>3. CASE AbortReq
  <2>1. cli \in ClientState
    BY DEF FInv, ClientFits, Within
  <2> QED BY <1>3, <2>1, LightFrames, LightEnd DEF AbortReq
<1>4. CASE Reply(r, tx) /\ n > 0
  <2>1. tx \in Seq(FromClient)
    <3>1. (n = left) \in BOOLEAN
      OBVIOUS
    <3> HIDE DEF n, left
    <3> QED BY <1>1, <1>2, <3>1, BlockType
  <2>2. Len(tx) = n /\ \A i \in 1 .. n : tx[i].k = "seg"
    <3> HIDE DEF n, left
    <3> QED BY <1>2 DEF Block
  <2> HIDE DEF n, tx
  <2>3. r.st = "blk_dn_sub"
    BY <1>1 DEF ClientState
  <2> HIDE DEF r
  <2>4. tx # <<>>
    <3>1. Len(<<>>) = 0
      OBVIOUS
    <3> QED BY <1>2, <1>4, <2>2, <3>1
  <2>5. cli' = r /\ c2s' = c2s \o tx
    BY <1>4 DEF Reply
  <2> QED BY <2>1, <2>2, <2>3, <2>4, <2>5 DEF BlockSent
<1>5. CASE Reply(end, <<crc>>)
  <2>1. end.st = "blk_dn_end"
    BY <1>1 DEF ClientState
  <2>2. cli.st \in Downloading
    BY DEF Downloading
  <2>3. Light(crc)
    BY LightFrames
  <2> HIDE DEF end, crc
  <2> QED BY <1>5, <2>1, <2>2, <2>3, LightReply
<1>6. AbortReq \/ (n > 0 /\ Reply(r, tx)) \/ Reply(end, <<crc>>)
  <2> HIDE DEF left, n, r, end, tx, crc
  <2> QED BY Zenon DEF EnterBlkDnSub, left, n, r, end, tx, crc
<1> QED BY <1>3, <1>4, <1>5, <1>6

LEMMA DownSends ==
  ASSUME FInv, s2c # <<>>, NEW m \in FromServer, ClientDown(m),
         cli.st \in Downloading => cli.value \in Whole
  PROVE  SendsLight \/ SegmentSent \/ BlockSent
<1>1. Within(cli) /\ cli \in ClientState
  BY DEF FInv, ClientFits, Within
<1>2. CASE AbortReq \/ Succeed(cli)
  BY <1>1, <1>2, LightFrames, LightEnd DEF AbortReq, Succeed
<1>3. CASE cli.st \in {"dn_ini", "dn_seg"} /\ EnterDnSeg(cli)
  BY <1>3, EnterDnSegSends
<1>4. CASE cli.st = "blk_dn_ini" /\ m.k = "blk_dn_ini_res" /\ EnterBlkDnSub(cli, m.blksize)
  BY <1>1, <1>4, ReadByClient, EnterBlkDnSubSends DEF Downloading
<1>5. CASE /\ cli.st = "blk_dn_sub" /\ m.k = "blk_dn_res" /\ m.ackseq <= cli.blksize
           /\ EnterBlkDnSub([cli EXCEPT !.pos = @ - (cli.blksize - m.ackseq)], m.blksize)
  <2> DEFINE back == cli.pos - (cli.blksize - m.ackseq)
             c == [cli EXCEPT !.pos = back]
  <2>1. /\ cli.blksize \in Seqno /\ cli.pos \in Nat
        /\ cli.pos <= Len(cli.value) /\ Len(cli.value) <= 15
        /\ cli.value \in Seq(Segment)
    BY <1>1 DEF Within, ClientState
  <2>2. cli.blksize <= cli.pos
    BY <1>5 DEF FInv, ClientFits
  <2>3. m.ackseq \in Seqno /\ m.blksize \in Seqno
    BY <1>5, ReadByClient
  <2>4. cli.blksize \in Nat
    BY <2>1, SeqnoNat, Zenon
  <2>5. back \in Nat /\ back <= cli.pos
    <3>1. cli.blksize - m.ackseq \in Nat /\ cli.blksize - m.ackseq <= cli.pos
      BY <1>5, <2>1, <2>2, <2>3, <2>4, Unconfirmed
    <3> QED BY <2>1, <3>1
  <2>6. EnterBlkDnSub(c, m.blksize)
    BY <1>5
  <2> HIDE DEF back
  <2>7. c \in ClientState
    BY <1>1, <2>5, Zenon DEF ClientState
  <2>8. c.pos = back /\ c.value = cli.value
    BY <1>1 DEF ClientState
  <2> HIDE DEF c
  <2>9. Within(c)
    <3>1. back <= Len(cli.value)
      BY <2>1, <2>5
    <3> QED BY <2>1, <2>7, <2>8, <3>1 DEF Within
  <2>10. cli.value \in Whole
    BY <1>5 DEF Downloading
  <2> QED BY <1>5, <2>3, <2>6, <2>8, <2>9, <2>10, EnterBlkDnSubSends
<1>6. \/ AbortReq \/ Succeed(cli)
      \/ cli.st \in {"dn_ini", "dn_seg"} /\ EnterDnSeg(cli)
      \/ cli.st = "blk_dn_ini" /\ m.k = "blk_dn_ini_res" /\ EnterBlkDnSub(cli, m.blksize)
      \/ /\ cli.st = "blk_dn_sub" /\ m.k = "blk_dn_res" /\ m.ackseq <= cli.blksize
         /\ EnterBlkDnSub([cli EXCEPT !.pos = @ - (cli.blksize - m.ackseq)], m.blksize)
  BY Zenon DEF ClientDown, ClientDnIni, ClientDnSeg, ClientBlkDnIni, ClientBlkDnSub,
               ClientBlkDnEnd
<1> QED BY <1>2, <1>3, <1>4, <1>5, <1>6

LEMMA UpSends ==
  ASSUME FInv, NEW m,
         \/ cli.st \in {"up_ini", "blk_up_ini"} /\ ClientUpIni(m)
         \/ cli.st = "up_seg" /\ ClientUpSeg(m)
         \/ cli.st = "blk_up_sub" /\ ClientBlkUpSub(m)
         \/ ClientBlkUpEnd(m)
  PROVE  SendsLight
<1>1. cli \in ClientState
  BY DEF FInv, ClientFits, Within
<1>2. CASE AbortReq
  BY <1>1, <1>2, LightFrames, LightEnd DEF AbortReq
<1>3. ASSUME NEW d, Succeed([cli EXCEPT !.buf = d]) PROVE SendsLight
  BY <1>1, <1>3, LightEnd DEF Succeed
<1>4. CASE cli.st \in {"up_ini", "blk_up_ini"} /\ ClientUpIni(m)
  <2> DEFINE u == [cli EXCEPT !.st = "up_seg", !.size = m.size, !.toggle = Flip(@)]
             v == [cli EXCEPT !.st = "blk_up_sub", !.size = m.size, !.ackseq = 0]
             x == [k |-> "up_seg", toggle |-> cli.toggle]
             y == [k |-> "blk_up_start"]
  <2>1. u.st \notin Downloading /\ v.st \notin Downloading
    BY <1>1 DEF ClientState, Downloading
  <2>2. Light(x) /\ Light(y)
    BY LightFrames
  <2>3. \/ Succeed([cli EXCEPT !.buf = m.data]) \/ AbortReq
        \/ Reply(u, <<x>>) \/ Reply(v, <<y>>)
    <3> HIDE DEF u, v, x, y
    <3> QED BY <1>4 DEF ClientUpIni, u, v, x, y
  <2> HIDE DEF u, v, x, y
  <2> QED BY <1>2, <1>3, <2>1, <2>2, <2>3, LightReply
<1>5. CASE cli.st = "up_seg" /\ ClientUpSeg(m)
  <2> DEFINE buf == Append(cli.buf, m.data)
             u == [cli EXCEPT !.buf = buf, !.toggle = Flip(@)]
             x == [k |-> "up_seg", toggle |-> cli.toggle]
  <2>1. u.st \notin Downloading /\ cli.st \notin Downloading
    <3> HIDE DEF buf
    <3> QED BY <1>1, <1>5 DEF ClientState, Downloading
  <2>2. Light(x)
    BY LightFrames
  <2>3. \/ Succeed([cli EXCEPT !.buf = buf]) \/ AbortReq \/ Reply(cli, <<>>)
        \/ Reply(u, <<x>>)
    BY <1>5, Zenon DEF ClientUpSeg
  <2> HIDE DEF u, x, buf
  <2> QED BY <1>2, <1>3, <2>1, <2>2, <2>3, LightReply
<1>6. CASE cli.st = "blk_up_sub" /\ ClientBlkUpSub(m)
  <2>1. ASSUME NEW b, NEW a, NEW st \in {"blk_up_sub", "blk_up_end"}, NEW ack, NEW n,
               NEW tx, tx = <<>> \/ tx = <<[k |-> "blk_up_res", ackseq |-> ack, blksize |-> n]>>,
               Reply([cli EXCEPT !.buf = b, !.ackseq = a, !.st = st], tx)
        PROVE  SendsLight
    <3> DEFINE c == [cli EXCEPT !.buf = b, !.ackseq = a, !.st = st]
    <3>1. c.st \notin Downloading
      BY <1>1 DEF ClientState, Downloading
    <3>2. Reply(c, tx)
      BY <2>1
    <3>3. Light([k |-> "blk_up_res", ackseq |-> ack, blksize |-> n])
      BY LightFrames
    <3> HIDE DEF c
    <3> QED BY <2>1, <3>1, <3>2, <3>3, LightReply
  <2> DEFINE last == LastInBlock(m)
             take == Accept(m, cli.ackseq)
             room == Len(cli.buf) < cli.size
             ack  == IF take THEN cli.ackseq + 1 ELSE cli.ackseq
             full == SeqnoOf(m) = cli.blksize \/ last
             buf  == IF take /\ room THEN Append(cli.buf, m.data) ELSE cli.buf
             acks == IF full THEN 0 ELSE ack
             st   == IF last THEN "blk_up_end" ELSE cli.st
             tx   == IF full THEN <<[k |-> "blk_up_res", ackseq |-> ack,
                                     blksize |-> cli.blksize]>>
                     ELSE <<>>
  <2>2. st \in {"blk_up_sub", "blk_up_end"}
    BY <1>6
  <2>3. tx = <<>> \/ tx = <<[k |-> "blk_up_res", ackseq |-> ack, blksize |-> cli.blksize]>>
    OBVIOUS
  <2>4. AbortReq \/ Reply([cli EXCEPT !.buf = buf, !.ackseq = acks, !.st = st], tx)
    BY <1>6, Zenon DEF ClientBlkUpSub
  <2> HIDE DEF buf, acks, st, tx, ack
  <2> QED BY <1>2, <2>1, <2>2, <2>3, <2>4
<1>7. CASE ClientBlkUpEnd(m)
  BY <1>1, <1>2, <1>7, LightFrames, LightEnd DEF ClientBlkUpEnd
<1> QED BY <1>4, <1>5, <1>6, <1>7

LEMMA ClientSends ==
  ASSUME FInv, ClientReceive, cli.st \in Downloading => cli.value \in Whole
  PROVE  SendsLight \/ SegmentSent \/ BlockSent
<1> DEFINE m == Head(s2c)
<1>1. s2c # <<>> /\ m \in FromServer /\ cli \in ClientState
  BY DEF ClientReceive, FInv, ClientFits, Within
<1> HIDE DEF m
<1>2. CASE cli.st = "wait" /\ Reply(cli, <<>>)
  BY <1>2, LightReply DEF Downloading
<1>3. CASE AbortInd
  BY <1>1, <1>3, LightEnd DEF AbortInd
<1>4. CASE ClientDown(m)
  BY <1>1, <1>4, DownSends
<1>5. CASE \/ cli.st \in {"up_ini", "blk_up_ini"} /\ ClientUpIni(m)
           \/ cli.st = "up_seg" /\ ClientUpSeg(m)
           \/ cli.st = "blk_up_sub" /\ ClientBlkUpSub(m)
           \/ ClientBlkUpEnd(m)
  BY <1>5, UpSends
<1> QED BY <1>2, <1>3, <1>4, <1>5 DEF ClientReceive, m

\* A transfer whose client goes on is in step.
LEMMA ClientInStep ==
  ASSUME FInv, FInv', InStep, ClientReceive,
         cli.st \in Downloading => cli.value \in Whole,
         cli.st = "dn_ini" => cli.toggle = 0
  PROVE  /\ InStep' /\ object' = object
         /\ cli'.st \in Downloading => cli'.value \in Whole
         /\ cli'.st # "dn_ini"
<1>1. KeepsValue
  BY ClientEnds
<1>2. srv' = srv /\ object' = object /\ cli'.value = cli.value
  BY <1>1 DEF KeepsValue
<1>3. ASSUME SendsLight
      PROVE  InStep' /\ (cli'.st \in Downloading => cli.st \in Downloading) /\ cli'.st # "dn_ini"
  BY <1>2, <1>3, LightInStep DEF InStep, SendsLight, Sending
<1>4. ASSUME SegmentSent
      PROVE  InStep' /\ cli.st \in Downloading /\ cli'.st # "dn_ini"
  <2>1. cli.st \in Downloading
    BY <1>4 DEF SegmentSent, Downloading
  <2>2. InStep'
    BY <1>2, <1>4, <2>1, SegmentInStep DEF SegmentSent
  <2>3. cli'.st = "dn_seg"
    BY <1>4 DEF SegmentSent, FInv, ClientFits, Within, ClientState
  <2> QED BY <2>1, <2>2, <2>3
<1>5. ASSUME BlockSent
      PROVE  InStep' /\ cli.st \in Downloading /\ cli'.st # "dn_ini"
  BY <1>2, <1>5, BlockInStep DEF BlockSent, Downloading
<1> QED BY <1>2, <1>3, <1>4, <1>5, ClientSends

-----------------------------------------------------------------------------
(* The other steps                                                         *)

LEMMA BeginInStep ==
  ASSUME FInv, FInv', InStep, NEW c, NEW m, Begin(c, m), Light(m), HasSent(c, m)
  PROVE  InStep' /\ object' = object /\ cli' = c
<1>1. c2s' = Append(c2s, m) /\ srv' = srv /\ object' = object /\ cli' = c
  BY DEF Begin
<1>2. c2s \in Seq(FromClient) /\ c2s' \in Seq(FromClient)
  BY DEF FInv
<1>3. c2s' = c2s \o <<m>>
  BY <1>1, <1>2, AppendConcat
<1>4. m \in FromClient
  BY <1>2, <1>3, LastTyped
<1>5. <<m>> \in Seq(FromClient) /\ <<m>> # <<>> /\ <<m>>[Len(<<m>>)] = m
  BY <1>4
<1>6. Ordered(<<m>>) /\ Head(<<m>>) = m
  BY OneIsOrdered DEF Light
<1>7. Expects(srv, m) /\ \A x : Follows(x, m)
  BY DEF Light, Expects, Follows
<1>8. Ordered(c2s) /\ (c2s # <<>> => Expects(srv, Head(c2s)))
  BY DEF InStep
<1>9. HasSent(cli', <<m>>[Len(<<m>>)])
  BY <1>1, <1>5
<1>10. InStep'
  BY <1>1, <1>3, <1>5, <1>6, <1>7, <1>8, <1>9, SendsNext
<1> QED BY <1>1, <1>10

LEMMA RequestInStep ==
  ASSUME FInv, FInv', InStep, Request
  PROVE  /\ InStep' /\ object' = object
         /\ cli'.st \in Downloading => cli'.value \in Whole
         /\ cli'.st = "dn_ini" => cli'.toggle = 0
<1>1. ASSUME NEW v \in Value, DnReq(v)
      PROVE  InStep' /\ object' = object /\ cli'.value \in Whole /\ cli'.toggle = 0
  <2> DEFINE d == Segs(v)
             c == NewRequest("dn", "dn_ini", d)
             e == [c EXCEPT !.pos = 1]
             m == [k |-> "dn_exp", data |-> d]
             x == [k |-> "dn_ini", size |-> Length[v]]
  <2>1. d \in Whole /\ Len(d) = Length[v]
    BY SegsVal DEF Whole
  <2>2. /\ c.st = "dn_ini" /\ c.value = d /\ c.pos = 0 /\ c.toggle = 0
        /\ e.st = "dn_ini" /\ e.value = d /\ e.pos = 1 /\ e.toggle = 0
    BY DEF NewRequest
  <2>3. Light(m) /\ Light(x) /\ m.k = "dn_exp"
    BY <2>1 DEF Light, Carries
  <2>4. CASE v \in Small
    <3>1. Begin(e, m) /\ Len(d) = 1
      BY <1>1, <2>1, <2>4, ValueAssumption, Zenon DEF DnReq
    <3> HIDE DEF d, c, e, m
    <3>2. HasSent(e, m)
      BY <2>2, <2>3, <3>1 DEF HasSent
    <3> QED BY <2>1, <2>2, <2>3, <3>1, <3>2, BeginInStep
  <2>5. CASE v \notin Small
    <3>1. Begin(c, x)
      BY <1>1, <2>5, Zenon DEF DnReq
    <3>2. x = [k |-> "dn_ini", size |-> Len(d)]
      BY <2>1
    <3> HIDE DEF d, c, x
    <3>3. HasSent(c, x)
      BY <2>2, <3>2 DEF HasSent
    <3> QED BY <2>1, <2>2, <2>3, <3>1, <3>3, BeginInStep
  <2> QED BY <2>4, <2>5
<1>2. ASSUME NEW v \in Value, BlkDnReq(v)
      PROVE  InStep' /\ object' = object /\ cli'.value \in Whole /\ cli'.st = "blk_dn_ini"
  <2> DEFINE d == Segs(v)
             c == NewRequest("dn", "blk_dn_ini", d)
             x == [k |-> "blk_dn_ini", size |-> Length[v]]
  <2>1. d \in Whole
    BY DEF Whole
  <2>2. c.st = "blk_dn_ini" /\ c.value = d
    BY DEF NewRequest
  <2>3. Light(x) /\ x.k = "blk_dn_ini"
    BY DEF Light, Carries
  <2>4. Begin(c, x)
    BY <1>2 DEF BlkDnReq
  <2> HIDE DEF d, c, x
  <2>5. HasSent(c, x)
    BY <2>2, <2>3 DEF HasSent
  <2> QED BY <2>1, <2>2, <2>3, <2>4, <2>5, BeginInStep
<1>3. ASSUME UpReq \/ \E pst \in Psts : BlkUpReq(pst)
      PROVE  InStep' /\ object' = object /\ cli'.st \notin Downloading
  <2> DEFINE c == NewRequest("up", "up_ini", <<>>)
             e == [NewRequest("up", "blk_up_ini", <<>>) EXCEPT !.blksize = maxSeqno]
             x == [k |-> "up_ini"]
             y(pst) == [k |-> "blk_up_ini", blksize |-> maxSeqno, pst |-> pst]
  <2>1. c.st \notin Downloading /\ e.st \notin Downloading
    BY DEF NewRequest, Downloading
  <2>2. Light(x) /\ \A pst : Light(y(pst))
    BY DEF Light, Carries
  <2>3. Begin(c, x) \/ \E pst \in Psts : Begin(e, y(pst))
    BY <1>3 DEF UpReq, BlkUpReq
  <2> HIDE DEF c, e, x, y
  <2>4. \A m : HasSent(c, m) /\ HasSent(e, m)
    BY <2>1 DEF HasSent, Downloading
  <2>5. CASE Begin(c, x)
    BY <2>1, <2>2, <2>4, <2>5, BeginInStep
  <2>6. ASSUME NEW m, Light(m), Begin(e, m)
        PROVE  InStep' /\ object' = object /\ cli'.st \notin Downloading
    BY <2>1, <2>4, <2>6, BeginInStep
  <2> QED BY <2>2, <2>3, <2>5, <2>6
<1>4. "dn_ini" \in Downloading
  BY DEF Downloading
<1> QED BY <1>1, <1>2, <1>3, <1>4 DEF Request

LEMMA GiveUpInStep ==
  ASSUME FInv, FInv', Stuck \/ InStep, GiveUp
  PROVE  InStep' /\ object' = object /\ cli'.st = "wait"
<1>1. /\ cli'.st = "wait" /\ srv' = srv /\ object' = object
      /\ c2s' = c2s \o <<Abort>>
  BY AppendConcat DEF GiveUp, Ended, FInv, ClientFits, Within, ClientState
<1>2. Ordered(c2s) /\ (c2s # <<>> => Expects(srv, Head(c2s)))
  BY NoneIsOrdered DEF Stuck, InStep
<1>3. SendsLight
  BY <1>1, LightFrames DEF SendsLight, Sending, Downloading
<1> QED BY <1>1, <1>2, <1>3, LightInStep

\* Without a fault, a server in a segmented download has at most one request
\* under way, and the client waits for its answer.
LEMMA OneSegment ==
  ASSUME FInv, Turn, srv.st = "dn_seg", c2s # <<>>
  PROVE  Tail(c2s) = <<>> /\ s2c = <<>> /\ cli.st # "wait"
<1>1. /\ \A m : Says(m) => c2s = <<>>
      /\ Refuses => c2s = <<>>
      /\ \A tx : Sent(tx) => srv.st \in {"wait", "blk_up_end"}
      /\ \A m : Asks(m) => Tail(c2s) = <<>> /\ s2c = <<>>
  <2>1. \A m : Says(m) => c2s = <<>>
    BY DEF Says
  <2>2. \A tx : Sent(tx) => srv.st \in {"wait", "blk_up_end"}
    BY DEF Free, ServerIn, Sent
  <2>3. ASSUME NEW m, Asks(m) PROVE Tail(c2s) = <<>> /\ s2c = <<>>
    BY <2>3, TailOfOne DEF Asks
  <2> QED BY <2>1, <2>2, <2>3 DEF Refuses
<1>2. \A st, n : (Collects(st, n) \/ Serves(st, n)) => srv.st = st
  BY DEF Collects, Serves
<1>3. cli.st # "wait"
  BY <1>1 DEF Turn, TurnWait
<1>4. CASE cli.st = "dn_ini"
  BY <1>1, <1>4 DEF Turn, TurnExp, TurnDnIni
<1>5. CASE cli.st = "dn_seg"
  BY <1>1, <1>3, <1>5 DEF Turn, TurnDnSeg
<1>6. CASE cli.st \in {"blk_dn_ini", "blk_dn_sub", "blk_dn_end"}
  BY <1>1, <1>2, <1>6 DEF Turn, TurnBlkDnIni, TurnBlkDnSub, TurnBlkDnEnd
<1>7. CASE cli.st \in {"up_ini", "blk_up_ini", "up_seg"}
  BY <1>1, <1>2, <1>7 DEF Turn, TurnUpIni, TurnUpSeg
<1>8. CASE cli.st \in {"blk_up_sub", "blk_up_end"}
  BY <1>1, <1>2, <1>8 DEF Turn, TurnBlkUpSub, TurnBlkUpEnd
<1>9. cli.st \in {"wait", "dn_ini", "dn_seg", "up_ini", "up_seg", "blk_dn_ini",
                  "blk_dn_sub", "blk_dn_end", "blk_up_ini", "blk_up_sub", "blk_up_end"}
  BY DEF FInv, ClientFits, Within, ClientState
<1> QED BY <1>3, <1>4, <1>5, <1>6, <1>7, <1>8, <1>9

LEMMA LoseInStep ==
  ASSUME FInv, Turn \/ Spill, InStep, LoseRequest
  PROVE  Stuck' \/ InStep'
<1>1. /\ c2s # <<>> /\ c2s' = Tail(c2s) /\ cli' = cli /\ srv' = srv /\ s2c' = s2c
  BY DEF LoseRequest
<1>2. CASE srv.st = "dn_seg"
  <2>1. Turn
    BY <1>2 DEF Spill, Free, ServerIn
  <2> QED BY <1>1, <1>2, <2>1, OneSegment DEF Stuck
<1>3. CASE srv.st # "dn_seg"
  <2>1. (\A y : Expects(srv', y)) /\ HasTaken(srv', cli)
    BY <1>1, <1>3 DEF Expects, HasTaken
  <2> QED BY <1>1, <2>1, TakesNext
<1> QED BY <1>2, <1>3

\* The server does not collect a value after the step, and no request is added.
LEMMA PassiveInStep ==
  ASSUME InStep, c2s' = c2s, cli' = cli, srv' = srv \/ srv'.st # "dn_seg"
  PROVE  InStep'
BY DEF InStep, Expects, HasTaken

LEMMA InitOneFault == Init => OneFaultInv
<1> SUFFICES ASSUME Init PROVE OneFaultInv
  OBVIOUS
<1>1. object \in Whole
  BY ValueAssumption DEF Init, Whole
<1>2. cli.st = "wait" /\ srv.st = "wait" /\ c2s = <<>>
  BY DEF Init, NewRequest, ServerIn
<1>3. Ordered(c2s) /\ HasTaken(srv, cli)
  BY <1>2, NoneIsOrdered DEF HasTaken
<1> QED BY <1>1, <1>2, <1>3 DEF OneFaultInv, InStep, Downloading

LEMMA StepOneFault ==
  ASSUME FInv, FInv', TurnInv, OneFaultInv, [Next]_vars
  PROVE  OneFaultInv'
<1>1. SUFFICES ASSUME faults' <= 1, ~spilled'
               PROVE  /\ object' \in Whole
                      /\ cli'.st \in Downloading => cli'.value \in Whole
                      /\ cli'.st = "dn_ini" => cli'.toggle = 0
                      /\ Stuck' \/ InStep'
  BY DEF OneFaultInv
<1>2. faults \in Nat /\ (faults' = faults \/ faults' = faults + 1 => faults <= 1)
  <2>1. faults \in Nat
    BY BoundAssumption DEF FInv
  <2> QED BY <1>1, <2>1
<1>3. ~spilled /\ (faults' = faults \/ Fault)
  BY <1>1, HistoryGrows
<1>4. /\ object \in Whole
      /\ cli.st \in Downloading => cli.value \in Whole
      /\ cli.st = "dn_ini" => cli.toggle = 0
      /\ Stuck \/ InStep
  BY <1>2, <1>3 DEF OneFaultInv, Fault
\* Before the only fault it is somebody's turn.
<1>5. ASSUME Fault PROVE (Turn \/ Spill) /\ InStep
  <2>1. faults = 0
    BY <1>1, <1>2, <1>5 DEF Fault
  <2>2. Turn \/ Spill
    BY <1>3, <2>1 DEF TurnInv
  <2> QED BY <1>4, <2>2, SomethingUnderWay DEF Stuck, Spill
<1>6. CASE ServerReceive
  <2>1. InStep
    BY <1>4, <1>6 DEF Stuck, ServerReceive
  <2> QED BY <1>4, <1>6, <2>1, ServerInStep
<1>7. CASE ClientReceive
  <2>1. InStep
    BY <1>4, <1>7 DEF Stuck, ClientReceive
  <2> QED BY <1>4, <1>7, <2>1, ClientInStep
<1>8. CASE Request
  <2>1. cli.st = "wait"
    BY <1>8, Zenon DEF Request, DnReq, BlkDnReq, UpReq, BlkUpReq, Begin
  <2>2. InStep
    BY <1>4, <2>1 DEF Stuck
  <2> QED BY <1>4, <1>8, <2>2, RequestInStep
<1>9. CASE Timeout \/ EarlyTimeout
  BY <1>4, <1>9, GiveUpInStep DEF Timeout, EarlyTimeout, Downloading
<1>10. CASE LoseRequest
  BY <1>4, <1>5, <1>10, LoseInStep DEF LoseRequest
<1>11. CASE LoseResponse \/ ServerStop
  <2>1. InStep /\ c2s' = c2s /\ cli' = cli /\ object' = object
    BY <1>5, <1>11 DEF LoseResponse, ServerStop
  <2>2. srv' = srv \/ srv'.st # "dn_seg"
    BY <1>11 DEF LoseResponse, ServerStop, ServerIn
  <2> QED BY <1>4, <2>1, <2>2, PassiveInStep
<1>12. CASE ServerStart \/ (\E v \in Local : LocalWrite(v)) \/ UNCHANGED vars
  <2>1. UNCHANGED <<cli, c2s, s2c>>
    BY <1>12 DEF ServerStart, LocalWrite, vars
  <2>2. srv' = srv \/ srv'.st # "dn_seg"
    BY <1>12 DEF ServerStart, LocalWrite, vars, ServerIn
  <2>3. object' \in Whole
    BY <1>4, <1>12, ValueAssumption DEF ServerStart, LocalWrite, vars, Whole
  <2>4. Stuck' <=> Stuck
    BY <2>1 DEF Stuck
  <2> QED BY <1>4, <2>1, <2>2, <2>3, <2>4, PassiveInStep
<1> QED BY <1>6, <1>7, <1>8, <1>9, <1>10, <1>11, <1>12 DEF Next

\* Whatever is lost, late or aborted, the object holds a value that a client or
\* the application gave it as a whole (co_ssdo.c), for every number of faults as
\* long as transfers do not mix, and for one fault even when they do, unless what
\* they mixed with was the rest of a block for which the server had no room.
THEOREM ValuesStayWhole == Spec => []WholeValues
<1>1. Spec => []UnmixedInv
  BY SessionsHold, InitUnmixed, StepUnmixed, PTL DEF Spec
<1>2. Spec => []OneFaultInv
  <2>1. FInv /\ FInv' /\ TurnInv /\ OneFaultInv /\ [Next]_vars => OneFaultInv'
    BY StepOneFault
  <2> QED BY <2>1, TurnsAreTaken, InitOneFault, PTL DEF Spec
<1>3. UnmixedInv /\ OneFaultInv => WholeValues
  BY DEF UnmixedInv, OneFaultInv, WholeValues
<1> QED BY <1>1, <1>2, <1>3, PTL
=============================================================================
