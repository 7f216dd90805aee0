--------------------------------- MODULE Sdo ---------------------------------
(* An SDO client (co_csdo.c) and the SDO server of a node (co_ssdo.c) on one  *)
(* object: expedited, segmented and block transfers in both directions, over  *)
(* a bus that loses frames and a client that may time out too early.          *)
(*                                                                            *)
(* Values are sequences of segments of seven bytes; a CRC is modelled by the  *)
(* data it is computed from.  In the component the server's timeout is never  *)
(* set, and the client runs on another node.                                  *)
EXTENDS Naturals, SequencesExt

CONSTANTS
  Value,     \* the values a client writes or the application stores
  Length,    \* the number of segments of a value
  Small,     \* values of up to four bytes, for which expedited transfers exist
  Refused,   \* values that the object's download indication refuses
  Capacity,  \* the longest value that fits the buffer of a request in the server
             \* (CO_SDO_REQ_MEMBUF_SIZE, 8 bytes by default), in segments
  Local,     \* values that the node's application stores
  First,     \* the initial value of the object
  MaxSeqnos, \* CO_SDO_MAX_SEQNO in the builds to check, 127 by default
  Psts,      \* protocol switch thresholds a client asks for, in segments
  MaxFault,  \* bound: lost frames, early timeouts and stops of the server
  MaxOld     \* bound: the frames still under way when a transfer begins

ASSUME ValueAssumption ==
  /\ Length \in [Value -> 1 .. 15] \* a sequence number never looks like a toggle
  /\ Small \subseteq Value /\ \A v \in Small : Length[v] = 1
  /\ Refused \subseteq Value
  /\ Local \subseteq Value /\ First \in Value
ASSUME BoundAssumption ==
  /\ MaxSeqnos \subseteq 1 .. 127 /\ Capacity \in Nat \ {0}
  /\ Psts \subseteq Nat
  /\ MaxFault \in Nat /\ MaxOld \in Nat

VARIABLES
  cli,       \* the SDO client
  srv,       \* the SDO server
  object,    \* the value of the object in the server's dictionary
  c2s,       \* frames on their way from the client to the server
  s2c,       \* frames on their way from the server to the client
  maxSeqno,  \* CO_SDO_MAX_SEQNO of this build
  faults,    \* the faults that happened
  had,       \* history: the values of the object since the last request
  written,   \* history: the values the server has stored since the last request
  stale,     \* history: were frames still on their way at the last request
  mixed,     \* history: has that ever been so
  spilled    \* history: has that ever been so after a download of a value without room

history == <<had, written, stale, mixed, spilled>>
vars == <<cli, srv, object, c2s, s2c, maxSeqno, faults, history>>

Segment  == {<<v, i>> : v \in Value, i \in 1 .. 15}
Segs(v)  == [i \in 1 .. Length[v] |-> <<v, i>>]
Whole    == {Segs(v) : v \in Value}
IsSmall(d) == \E v \in Small : d = Segs(v)
Seqno    == 0 .. 127

ServerState ==
  [st : {"wait", "dn_seg", "up_seg", "blk_dn_sub", "blk_dn_end", "blk_up_sub",
         "blk_up_end", "stopped", "down"}, \* down: a failed assertion
   size    : Nat,          \* req.size, in segments
   data    : Seq(Segment), \* accepted in a download; dn_ind: is it not empty
   toggle  : 0 .. 1,
   blksize : Seqno,
   ackseq  : Seqno,
   value   : Seq(Segment), \* the value of an upload, serialized when it began
   pos     : Nat,          \* segments of it that left or are in the buffer
   win     : Nat]          \* segments in the buffer of a block upload

ClientState ==
  [st : {"wait", "dn_ini", "dn_seg", "up_ini", "up_seg", "blk_dn_ini",
         "blk_dn_sub", "blk_dn_end", "blk_up_ini", "blk_up_sub", "blk_up_end"},
   size    : Nat,          \* of an upload
   toggle  : 0 .. 1,
   blksize : Seqno,
   ackseq  : Seqno,
   value   : Seq(Segment), \* dn_buf
   pos     : Nat,          \* segments of it that were sent
   op      : {"dn", "up"},
   buf     : Seq(Segment), \* up_buf
   result  : {"none", "ok", "failed"}] \* what the confirmation was told

ClientFrame ==
  [k : {"dn_exp"}, data : Seq(Segment)]
  \union [k : {"dn_ini", "blk_dn_ini"}, size : Nat]
  \union [k : {"dn_seg"}, toggle : 0 .. 1, data : Segment, last : BOOLEAN]
  \union [k : {"up_seg"}, toggle : 0 .. 1]
  \union [k : {"seg"}, seqno : Seqno, data : Segment, last : BOOLEAN]
  \union [k : {"blk_dn_end"}, crc : Seq(Segment)]
  \union [k : {"blk_up_ini"}, blksize : Seqno, pst : Nat]
  \union [k : {"blk_up_res"}, ackseq : Seqno, blksize : Seqno]
  \union [k : {"up_ini", "blk_up_start", "blk_up_end", "abort"}]

ServerFrame ==
  [k : {"dn_ini_res", "blk_dn_end_res", "abort"}]
  \union [k : {"dn_seg_res"}, toggle : 0 .. 1]
  \union [k : {"up_exp"}, data : Seq(Segment)]
  \union [k : {"up_ini_res", "blk_up_ini_res"}, size : Nat]
  \union [k : {"up_seg_res"}, toggle : 0 .. 1, data : Segment, last : BOOLEAN]
  \union [k : {"blk_dn_ini_res"}, blksize : Seqno]
  \union [k : {"blk_dn_res"}, ackseq : Seqno, blksize : Seqno]
  \union [k : {"seg"}, seqno : Seqno, data : Segment, last : BOOLEAN]
  \union [k : {"blk_up_end_res"}, crc : Seq(Segment)]

Abort == [k |-> "abort"]

\* Mutant: the toggle bit is added to, not turned.
FlipUp(toggle) == toggle + 1

Flip(toggle) == 1 - toggle

\* A segment of a block carries its number where other frames have a command:
\* read as a command, the last one is an abort and the others are segments of
\* the segmented transfers, with toggle bit 0.
IsAbort(m) == m.k = "abort" \/ (m.k = "seg" /\ m.last)
Toggle(m) == IF m.k = "seg" THEN 0 ELSE m.toggle
LastOf(m) == IF m.k = "seg" THEN m.seqno % 2 = 1 ELSE m.last

\* The reverse: what a frame that is no segment of a block is read as.
SeqnoOf(m) ==
  IF m.k = "seg" THEN m.seqno
  ELSE IF m.k \in {"dn_seg", "up_seg_res"}
       THEN 16 * m.toggle + (IF m.last THEN 1 ELSE 0)
       ELSE 32 \* or more: beyond the segments of any block
LastInBlock(m) ==
  CASE m.k = "seg" -> m.last
    [] m.k \in {"dn_exp", "dn_ini", "dn_seg", "up_ini", "up_seg", "dn_ini_res",
                "dn_seg_res", "up_exp", "up_ini_res", "up_seg_res"} -> FALSE
    [] OTHER -> TRUE

Block(d, from, n, last) ==
  [i \in 1 .. n |-> [k |-> "seg", seqno |-> i, data |-> d[from + i],
                     last |-> last /\ i = n]]

-----------------------------------------------------------------------------
(* The server                                                              *)

ServerIn(st) ==
  [st |-> st, size |-> 0, data |-> <<>>, toggle |-> 0, blksize |-> 0,
   ackseq |-> 0, value |-> <<>>, pos |-> 0, win |-> 0]

Keep == UNCHANGED <<object, had, written>>

Store(d) ==
  /\ object' = d
  /\ had' = had \union {d}
  /\ written' = written \union {d}

\* The server handles the next frame, becomes r and answers with the frames tx.
Answer(r, tx) ==
  /\ srv' = r
  /\ s2c' = s2c \o tx
  /\ c2s' = Tail(c2s)
  /\ UNCHANGED <<cli, maxSeqno, faults, stale, mixed, spilled>>

\* Mutant: the end of a transfer leaves its data, size and toggle bit behind.
ServerEndDirty(tx) == Answer([srv EXCEPT !.st = "wait"], tx) /\ Keep

\* co_ssdo_abort_ind
ServerEnd(tx) == Answer(ServerIn("wait"), tx) /\ Keep

AbortRes == ServerEnd(<<Abort>>)

IsRefused(d) == \E v \in Refused : d = Segs(v)

\* co_ssdo_dn_ind with the first of several parts and co_ssdo_up_ind: the object
\* refuses a value of n segments for which the request has no room.
NoRoom(n) == n > Capacity

\* co_ssdo_dn_ind with the last part of the value d, then r and tx.
Download(d, r, tx) ==
  IF IsRefused(d) THEN AbortRes ELSE Store(d) /\ Answer(r, tx)

\* The answer to a request to upload the object, for which there is room, in
\* single segments.
Upload ==
  IF IsSmall(object)
  THEN Answer(ServerIn("wait"), <<[k |-> "up_exp", data |-> object]>>)
  ELSE Answer([srv EXCEPT !.st = "up_seg", !.size = Len(object), !.value = object],
              <<[k |-> "up_ini_res", size |-> Len(object)]>>)

ServerUpIni(m) ==
  /\ m.k = "up_ini" /\ Keep
  /\ IF NoRoom(Len(object)) THEN AbortRes ELSE Upload

ServerDnIni(m) ==
  \/ /\ m.k = "dn_exp"
     /\ Download(m.data, ServerIn("wait"), <<[k |-> "dn_ini_res"]>>)
  \/ /\ m.k = "dn_ini" /\ Keep
     /\ Answer([srv EXCEPT !.st = "dn_seg", !.size = m.size],
               <<[k |-> "dn_ini_res"]>>)

ServerBlkDnIni(m) ==
  /\ m.k = "blk_dn_ini" /\ Keep
  /\ Answer([srv EXCEPT !.st = "blk_dn_sub", !.size = m.size,
                        !.blksize = maxSeqno],
            <<[k |-> "blk_dn_ini_res", blksize |-> maxSeqno]>>)

ServerBlkUpIni(m) ==
  /\ m.k = "blk_up_ini" /\ m.blksize \in 1 .. maxSeqno /\ Keep
  /\ IF NoRoom(Len(object)) THEN AbortRes
     ELSE IF m.pst > 0 /\ Len(object) <= m.pst THEN Upload
     ELSE Answer([srv EXCEPT !.st = "blk_up_sub", !.blksize = m.blksize,
                             !.size = Len(object), !.value = object],
                 <<[k |-> "blk_up_ini_res", size |-> Len(object)]>>)

ServerWait(m) ==
  /\ srv.st = "wait"
  /\ \/ ServerDnIni(m)
     \/ ServerUpIni(m)
     \/ ServerBlkDnIni(m)
     \/ ServerBlkUpIni(m)
     \/ IsAbort(m) /\ Answer(srv, <<>>) /\ Keep
     \/ /\ ~IsAbort(m)
        /\ m.k \notin {"dn_exp", "dn_ini", "up_ini", "blk_dn_ini", "blk_up_ini"}
        /\ AbortRes

\* The toggle bit tells a new segment; a repeated one is not answered.
ServerDnSeg(m) ==
  /\ srv.st = "dn_seg"
  /\ \/ IsAbort(m) /\ ServerEnd(<<>>)
     \/ m.k \notin {"dn_seg", "seg"} /\ ~IsAbort(m) /\ AbortRes
     \/ /\ m.k \in {"dn_seg", "seg"} /\ ~IsAbort(m)
        /\ Toggle(m) # srv.toggle
        /\ Answer(srv, <<>>) /\ Keep
     \/ /\ m.k \in {"dn_seg", "seg"} /\ ~IsAbort(m)
        /\ Toggle(m) = srv.toggle
        /\ LET data == Append(srv.data, m.data)
               last == LastOf(m)
               res  == <<[k |-> "dn_seg_res", toggle |-> srv.toggle]>>
               next == IF last THEN ServerIn("wait")
                       ELSE [srv EXCEPT !.data = data, !.toggle = Flip(@)]
           IN IF \/ Len(data) > srv.size \/ (last /\ Len(data) # srv.size)
                 \/ NoRoom(srv.size)
              THEN AbortRes
              ELSE IF Len(data) = srv.size THEN Download(data, next, res)
              ELSE Answer(next, res) /\ Keep

\* Mutant: segments are read from the object as it is now.
ServerUpSegLive(m) ==
  /\ srv.st = "up_seg"
  /\ IF IsAbort(m) \/ m.k # "up_seg" THEN ServerEnd(<<>>)
     ELSE LET last == srv.pos + 1 = srv.size
          IN /\ Keep
             /\ Answer(IF last THEN ServerIn("wait")
                       ELSE [srv EXCEPT !.pos = @ + 1, !.toggle = Flip(@)],
                       <<[k |-> "up_seg_res", toggle |-> srv.toggle,
                          data |-> object[srv.pos + 1], last |-> last]>>)

ServerUpSeg(m) ==
  /\ srv.st = "up_seg"
  /\ Keep
  /\ \/ IsAbort(m) /\ ServerEnd(<<>>)
     \/ ~IsAbort(m) /\ m.k # "up_seg" /\ AbortRes
     \/ /\ m.k = "up_seg"
        /\ IF m.toggle # srv.toggle THEN AbortRes
           ELSE LET last == srv.pos + 1 = srv.size
                IN Answer(IF last THEN ServerIn("wait")
                          ELSE [srv EXCEPT !.pos = @ + 1, !.toggle = Flip(@)],
                          <<[k |-> "up_seg_res", toggle |-> srv.toggle,
                             data |-> srv.value[srv.pos + 1], last |-> last]>>)

\* Only the next segment of the block is taken.
Accept(m, ackseq) == SeqnoOf(m) = ackseq + 1

\* The server is in the end state after the last segment even if it has not
\* taken all of them.
ServerBlkDnSub(m) ==
  /\ srv.st = "blk_dn_sub"
  /\ Keep
  /\ LET seqno == SeqnoOf(m)
         last  == LastInBlock(m)
         take  == Accept(m, srv.ackseq)
         room  == Len(srv.data) < srv.size
         ack   == IF take THEN srv.ackseq + 1 ELSE srv.ackseq
         full  == seqno = srv.blksize \/ last
     IN \/ m.k = "abort" /\ ServerEnd(<<>>)
        \/ /\ m.k # "abort"
           /\ \/ seqno = 0
              \/ seqno > srv.blksize
              \/ take /\ (NoRoom(srv.size) \/ (~last /\ ~room))
           /\ AbortRes
        \/ /\ m.k # "abort" /\ seqno \in 1 .. srv.blksize
           /\ take => ~NoRoom(srv.size) /\ (last \/ room)
           /\ Answer([srv EXCEPT !.data = IF take /\ room THEN Append(@, m.data)
                                          ELSE @,
                                 !.ackseq = IF full THEN 0 ELSE ack,
                                 !.st = IF last THEN "blk_dn_end" ELSE @],
                     IF full THEN <<[k |-> "blk_dn_res", ackseq |-> ack,
                                     blksize |-> srv.blksize]>>
                     ELSE <<>>)

\* An abort before the first segment was taken fails the assertion on dn_ind.
ServerBlkDnEnd(m) ==
  /\ srv.st = "blk_dn_end"
  /\ \/ /\ IsAbort(m) /\ Keep
        /\ Answer(IF srv.data = <<>> THEN ServerIn("down")
                  ELSE ServerIn("wait"), <<>>)
     \/ ~IsAbort(m) /\ m.k # "blk_dn_end" /\ AbortRes
     \/ /\ m.k = "blk_dn_end"
        /\ IF Len(srv.data) # srv.size \/ m.crc # srv.data THEN AbortRes
           ELSE Download(srv.data, ServerIn("wait"), <<[k |-> "blk_dn_end_res"]>>)

\* The segments that were not confirmed are sent again, followed by new ones.
ServerBlkUpSub(m) ==
  /\ srv.st = "blk_up_sub"
  /\ Keep
  /\ LET first == srv.pos = 0
         ok    == \/ m.k = "blk_up_start" /\ first
                  \/ /\ m.k = "blk_up_res" /\ ~first
                     /\ m.ackseq <= srv.blksize
                     /\ m.blksize \in 1 .. maxSeqno
         left  == IF m.k = "blk_up_res" THEN srv.win - m.ackseq ELSE srv.win
         max   == IF m.k = "blk_up_res" THEN m.blksize ELSE srv.blksize
         from  == srv.pos - left
         n     == IF from + max < srv.size THEN max ELSE srv.size - from
     IN \/ IsAbort(m) /\ ServerEnd(<<>>)
        \/ ~IsAbort(m) /\ ~ok /\ AbortRes
        \/ /\ ok /\ n > 0
           /\ Answer([srv EXCEPT !.pos = from + n, !.win = n, !.blksize = n],
                     Block(srv.value, from, n, from + n = srv.size))
        \/ /\ ok /\ n = 0
           /\ Answer([srv EXCEPT !.st = "blk_up_end", !.win = 0, !.blksize = 0],
                     <<[k |-> "blk_up_end_res", crc |-> srv.value]>>)

ServerBlkUpEnd(m) ==
  /\ srv.st = "blk_up_end"
  /\ Keep
  /\ \/ (IsAbort(m) \/ m.k = "blk_up_end") /\ ServerEnd(<<>>)
     \/ /\ ~IsAbort(m) /\ m.k # "blk_up_end"
        /\ AbortRes

\* A server that does not run has no receiver.
ServerDeaf(m) ==
  /\ srv.st \in {"stopped", "down"}
  /\ Keep
  /\ Answer(srv, <<>>)

ServerReceive ==
  /\ c2s # <<>>
  /\ LET m == Head(c2s) IN
       \/ ServerWait(m)
       \/ ServerDnSeg(m)
       \/ ServerUpSeg(m)
       \/ ServerBlkDnSub(m)
       \/ ServerBlkDnEnd(m)
       \/ ServerBlkUpSub(m)
       \/ ServerBlkUpEnd(m)
       \/ ServerDeaf(m)

-----------------------------------------------------------------------------
(* The client                                                              *)

\* The client handles the next frame, becomes c and sends the frames tx.
Reply(c, tx) ==
  /\ cli' = c
  /\ c2s' = c2s \o tx
  /\ s2c' = Tail(s2c)
  /\ UNCHANGED <<srv, object, maxSeqno, faults, history>>

Ended(c, result) == [c EXCEPT !.st = "wait", !.result = result]

Succeed(c) == Reply(Ended(c, "ok"), <<>>)
AbortReq == Reply(Ended(cli, "failed"), <<Abort>>)
AbortInd == Reply(Ended(cli, "failed"), <<>>)

\* Mutant: success is told when the last segment leaves, not when it is stored.
EnterDnSegHasty(c) ==
  LET last == c.pos + 1 = Len(c.value) IN
  IF c.pos = Len(c.value) THEN Succeed(c)
  ELSE Reply([c EXCEPT !.st = IF last THEN "wait" ELSE "dn_seg",
                       !.result = IF last THEN "ok" ELSE @,
                       !.pos = @ + 1, !.toggle = Flip(@)],
             <<[k |-> "dn_seg", toggle |-> c.toggle,
                data |-> c.value[c.pos + 1], last |-> last]>>)

\* co_csdo_dn_seg_on_enter
EnterDnSeg(c) ==
  LET last == c.pos + 1 = Len(c.value) IN
  IF c.pos = Len(c.value) THEN Succeed(c)
  ELSE Reply([c EXCEPT !.st = "dn_seg", !.pos = @ + 1, !.toggle = Flip(@)],
             <<[k |-> "dn_seg", toggle |-> c.toggle,
                data |-> c.value[c.pos + 1], last |-> last]>>)

\* co_csdo_blk_dn_sub_on_enter
EnterBlkDnSub(c, blksize) ==
  LET left == Len(c.value) - c.pos
      n    == IF left < blksize THEN left ELSE blksize
  IN IF (left > 0 /\ blksize = 0) \/ blksize > maxSeqno THEN AbortReq
     ELSE IF n > 0
     THEN Reply([c EXCEPT !.st = "blk_dn_sub", !.blksize = n, !.pos = @ + n],
                Block(c.value, c.pos, n, n = left))
     ELSE Reply([c EXCEPT !.st = "blk_dn_end", !.blksize = 0],
                <<[k |-> "blk_dn_end", crc |-> c.value]>>)

ClientDnIni(m) ==
  /\ cli.st = "dn_ini"
  /\ IF m.k = "dn_ini_res" THEN EnterDnSeg(cli) ELSE AbortReq

\* The client's toggle bit was turned when the request was sent.
ClientDnSeg(m) ==
  /\ cli.st = "dn_seg"
  /\ IF m.k = "dn_seg_res" /\ m.toggle # cli.toggle THEN EnterDnSeg(cli)
     ELSE AbortReq

ClientBlkDnIni(m) ==
  /\ cli.st = "blk_dn_ini"
  /\ IF m.k = "blk_dn_ini_res" THEN EnterBlkDnSub(cli, m.blksize) ELSE AbortReq

\* What the server has not taken is sent again.
ClientBlkDnSub(m) ==
  /\ cli.st = "blk_dn_sub"
  /\ IF m.k = "blk_dn_res" /\ m.ackseq <= cli.blksize
     THEN EnterBlkDnSub([cli EXCEPT !.pos = @ - (cli.blksize - m.ackseq)],
                        m.blksize)
     ELSE AbortReq

ClientBlkDnEnd(m) ==
  /\ cli.st = "blk_dn_end"
  /\ IF m.k = "blk_dn_end_res" THEN Succeed(cli) ELSE AbortReq

ClientDown(m) ==
  \/ ClientDnIni(m)
  \/ ClientDnSeg(m)
  \/ ClientBlkDnIni(m)
  \/ ClientBlkDnSub(m)
  \/ ClientBlkDnEnd(m)

ClientUpIni(m) ==
  CASE m.k = "up_exp" -> Succeed([cli EXCEPT !.buf = m.data])
    [] m.k = "up_ini_res" ->
         Reply([cli EXCEPT !.st = "up_seg", !.size = m.size, !.toggle = Flip(@)],
               <<[k |-> "up_seg", toggle |-> cli.toggle]>>)
    [] m.k = "blk_up_ini_res" /\ cli.st = "blk_up_ini" ->
         Reply([cli EXCEPT !.st = "blk_up_sub", !.size = m.size, !.ackseq = 0],
               <<[k |-> "blk_up_start"]>>)
    [] OTHER -> AbortReq

\* A segment with the toggle bit of the previous one is not answered.
ClientUpSeg(m) ==
  LET buf == Append(cli.buf, m.data) IN
  IF m.k \notin {"up_seg_res", "seg"} THEN AbortReq
  ELSE IF Toggle(m) = cli.toggle THEN Reply(cli, <<>>)
  ELSE IF Len(buf) > cli.size \/ (LastOf(m) /\ Len(buf) # cli.size) THEN AbortReq
  ELSE IF LastOf(m) THEN Succeed([cli EXCEPT !.buf = buf])
  ELSE Reply([cli EXCEPT !.buf = buf, !.toggle = Flip(@)],
             <<[k |-> "up_seg", toggle |-> cli.toggle]>>)

ClientBlkUpSub(m) ==
  LET last == LastInBlock(m)
      take == Accept(m, cli.ackseq)
      room == Len(cli.buf) < cli.size
      ack  == IF take THEN cli.ackseq + 1 ELSE cli.ackseq
      full == SeqnoOf(m) = cli.blksize \/ last
  IN IF take /\ ~last /\ ~room THEN AbortReq
     ELSE Reply([cli EXCEPT !.buf = IF take /\ room THEN Append(@, m.data)
                                    ELSE @,
                            !.ackseq = IF full THEN 0 ELSE ack,
                            !.st = IF last THEN "blk_up_end" ELSE @],
                IF full THEN <<[k |-> "blk_up_res", ackseq |-> ack,
                                blksize |-> cli.blksize]>>
                ELSE <<>>)

ClientBlkUpEnd(m) ==
  IF m.k = "blk_up_end_res" /\ Len(cli.buf) = cli.size /\ m.crc = cli.buf
  THEN Reply(Ended(cli, "ok"), <<[k |-> "blk_up_end"]>>)
  ELSE AbortReq

ClientReceive ==
  /\ s2c # <<>>
  /\ LET m == Head(s2c) IN
       \/ cli.st = "wait" /\ Reply(cli, <<>>)
       \/ /\ cli.st # "wait"
          /\ IF cli.st = "blk_up_sub" THEN m.k = "abort" ELSE IsAbort(m)
          /\ AbortInd
       \/ cli.st # "blk_up_sub" /\ ~IsAbort(m) /\ ClientDown(m)
       \/ /\ cli.st \in {"up_ini", "blk_up_ini"} /\ ~IsAbort(m)
          /\ ClientUpIni(m)
       \/ cli.st = "up_seg" /\ ~IsAbort(m) /\ ClientUpSeg(m)
       \/ cli.st = "blk_up_sub" /\ m.k # "abort" /\ ClientBlkUpSub(m)
       \/ cli.st = "blk_up_end" /\ ~IsAbort(m) /\ ClientBlkUpEnd(m)

NewRequest(op, st, value) ==
  [st |-> st, size |-> 0, toggle |-> 0, blksize |-> 0, ackseq |-> 0,
   value |-> value, pos |-> 0, op |-> op, buf |-> <<>>, result |-> "none"]

\* A new transfer; what is left of the last one may still be under way.
Begin(c, m) ==
  /\ cli.st = "wait" /\ Len(c2s \o s2c) <= MaxOld
  /\ cli' = c
  /\ c2s' = Append(c2s, m)
  /\ had' = {object}
  /\ written' = {}
  /\ stale' = (c2s \o s2c # <<>>)
  /\ mixed' = (mixed \/ stale')
  /\ spilled' = \/ spilled
                \/ stale' /\ cli.op = "dn" /\ NoRoom(Len(cli.value))
  /\ UNCHANGED <<srv, object, s2c, maxSeqno, faults>>

DnReq(v) ==
  LET c == NewRequest("dn", "dn_ini", Segs(v)) IN
  IF v \in Small
  THEN Begin([c EXCEPT !.pos = 1], [k |-> "dn_exp", data |-> Segs(v)])
  ELSE Begin(c, [k |-> "dn_ini", size |-> Length[v]])

BlkDnReq(v) ==
  Begin(NewRequest("dn", "blk_dn_ini", Segs(v)),
        [k |-> "blk_dn_ini", size |-> Length[v]])

UpReq == Begin(NewRequest("up", "up_ini", <<>>), [k |-> "up_ini"])

BlkUpReq(pst) ==
  Begin([NewRequest("up", "blk_up_ini", <<>>) EXCEPT !.blksize = maxSeqno],
        [k |-> "blk_up_ini", blksize |-> maxSeqno, pst |-> pst])

\* Mutant: the server is not told that the client gives up.
GiveUpSilently ==
  /\ cli.st # "wait"
  /\ cli' = Ended(cli, "failed")
  /\ UNCHANGED <<srv, object, c2s, s2c, maxSeqno, history>>

GiveUp ==
  /\ cli.st # "wait"
  /\ cli' = Ended(cli, "failed")
  /\ c2s' = Append(c2s, Abort)
  /\ UNCHANGED <<srv, object, s2c, maxSeqno, history>>

\* The client's timer, when nothing more can come.
Timeout == c2s \o s2c = <<>> /\ GiveUp /\ UNCHANGED faults

-----------------------------------------------------------------------------
(* Faults and the rest of the server's node                                *)

Fault == faults < MaxFault /\ faults' = faults + 1

\* The timer, or co_csdo_abort_req, while frames are under way.
EarlyTimeout == Fault /\ c2s \o s2c # <<>> /\ GiveUp

LoseRequest ==
  /\ Fault /\ c2s # <<>>
  /\ c2s' = Tail(c2s)
  /\ UNCHANGED <<cli, srv, object, s2c, maxSeqno, history>>

LoseResponse ==
  /\ Fault /\ s2c # <<>>
  /\ s2c' = Tail(s2c)
  /\ UNCHANGED <<cli, srv, object, c2s, maxSeqno, history>>

\* The node enters NMT state STOPPED and leaves it: an open transfer is aborted.
ServerStop ==
  /\ Fault /\ srv.st \notin {"stopped", "down"}
  /\ srv' = ServerIn("stopped")
  /\ s2c' = IF srv.st = "wait" THEN s2c ELSE Append(s2c, Abort)
  /\ UNCHANGED <<cli, object, c2s, maxSeqno, history>>

ServerStart ==
  /\ srv.st = "stopped"
  /\ srv' = ServerIn("wait")
  /\ UNCHANGED <<cli, object, c2s, s2c, maxSeqno, faults, history>>

\* The application stores a value itself, at any time.
LocalWrite(v) ==
  /\ object # Segs(v)
  /\ object' = Segs(v)
  /\ had' = had \union {Segs(v)}
  /\ UNCHANGED <<cli, srv, c2s, s2c, maxSeqno, faults, written, stale, mixed, spilled>>

-----------------------------------------------------------------------------
(* Specification                                                           *)

Init ==
  /\ maxSeqno \in MaxSeqnos
  /\ cli = NewRequest("dn", "wait", <<>>)
  /\ srv = ServerIn("wait")
  /\ object = Segs(First)
  /\ c2s = <<>> /\ s2c = <<>>
  /\ faults = 0
  /\ had = {Segs(First)} /\ written = {} /\ stale = FALSE /\ mixed = FALSE
  /\ spilled = FALSE

Request ==
  \/ \E v \in Value : DnReq(v) \/ BlkDnReq(v)
  \/ UpReq
  \/ \E pst \in Psts : BlkUpReq(pst)

Next ==
  \/ ServerReceive
  \/ ClientReceive
  \/ Request
  \/ Timeout
  \/ EarlyTimeout
  \/ LoseRequest
  \/ LoseResponse
  \/ ServerStop
  \/ ServerStart
  \/ \E v \in Local : LocalWrite(v)

\* Frames are passed to the services by the cyclic interfaces of the component,
\* the client's timer by its ticks; a user that retries is fair as well.
Spec ==
  /\ Init /\ [][Next]_vars
  /\ WF_vars(ServerReceive) /\ WF_vars(ClientReceive)
  /\ WF_vars(Timeout) /\ WF_vars(Request)

-----------------------------------------------------------------------------
(* Properties                                                              *)

\* The states of client and server, the object and the frames under way.
TypeOK ==
  /\ cli \in ClientState
  /\ srv \in ServerState
  /\ object \in Seq(Segment)
  /\ c2s \in Seq(ClientFrame) /\ s2c \in Seq(ServerFrame)
  /\ maxSeqno \in MaxSeqnos
  /\ faults \in 0 .. MaxFault
  /\ had \subseteq Seq(Segment) /\ written \subseteq Seq(Segment)
  /\ stale \in BOOLEAN /\ mixed \in BOOLEAN /\ spilled \in BOOLEAN

\* Whatever is lost, late or aborted, the object holds a value that a client or
\* the application gave it as a whole: no transfer leaves a part of a value or a
\* mix of two (the sizes, toggle bits, sequence numbers and CRCs of co_ssdo.c).
\* Transfers that mix with frames of an earlier one are excepted after a second
\* fault, and after such frames were the rest of a block without room.
WholeValues == ~mixed \/ (faults <= 1 /\ ~spilled) => object \in Whole

\* A client that is told that its download succeeded knows that the server has
\* stored this very value since the request (co_csdo_dn_con), unless frames of
\* an earlier transfer were under way when it asked.
ConfirmedMeansStored ==
  cli.result = "ok" /\ cli.op = "dn" /\ ~stale => cli.value \in written

\* An upload that succeeds returns a value that the object had as a whole at
\* some time since the request, even if the application or a lost segment got
\* in between (co_csdo_up_con), with the same exception.
UploadIsAValue ==
  cli.result = "ok" /\ cli.op = "up" /\ ~stale => cli.buf \in had

\* Without a fault every transfer succeeds for which the object is willing and the
\* server has room, whatever came before it, and the assertion on dn_ind
\* (co_ssdo.c:1351) holds: neither side leaves anything behind that disturbs the
\* next transfer, if what a server that has no room for a block answers to each of
\* its segments has arrived by then.
FaultlessSucceeds ==
  faults = 0 /\ ~spilled =>
    /\ srv.st # "down"
    /\ cli.result = "failed" =>
         IF cli.op = "dn" THEN IsRefused(cli.value) \/ NoRoom(Len(cli.value))
         ELSE \E d \in had : NoRoom(Len(d))

\* Every transfer ends, and no fault leaves the server in a transfer for ever:
\* the requests that follow free it.
Recovers ==
  /\ []<>(cli.st = "wait")
  /\ []<>(srv.st \in {"wait", "stopped", "down"})
=============================================================================
