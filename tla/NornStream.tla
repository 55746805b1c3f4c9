----------------------------- MODULE NornStream -----------------------------
(***************************************************************************)
(* The reliable byte stream (libnorn/stream.c): two ends, each with a send *)
(* side (window, acknowledgements, congestion control, one retransmission  *)
(* timer) and a receive side (reassembly slots, delivery buffer), over a   *)
(* datagram channel that loses, repeats and reorders.                      *)
(*                                                                         *)
(* Abstractions.  Byte i of a direction is the number i, and a segment is  *)
(* the range of bytes it carries.  Sequence numbers do not wrap.  Of time  *)
(* only whether the timer runs is kept: a running timer may be due at any  *)
(* tick, so the round-trip estimate (rtt_update, Karn's rule) is left out. *)
(* An application stops writing once it has closed its direction           *)
(* (norn_stream_write and norn_stream_close test stream->closed).          *)
(***************************************************************************)
EXTENDS Integers, Sequences, FiniteSets

CONSTANTS
  End,                 \* the two ends
  Writers,             \* the ends that write
  MaxBytes,            \* bound: bytes an end writes
  STREAM_SEG_PAYLOAD,  \* bytes in a segment
  STREAM_WIN_MAX,      \* slots of the send and of the receive window
  STREAM_IW, STREAM_SSTHRESH_MIN, STREAM_DUPACK_THRESH,
  SackBits,            \* segments a SACK bitmap can report
  NoSeg,               \* a slot that holds nothing
  ClockRuns,           \* callers pass stream_tick the time; norn_session passes 0
  MaxInFlight          \* bound: datagrams in flight to an end; any others are lost

ASSUME StreamAssumption ==
  /\ \E a, b \in End : a # b /\ End = {a, b}
  /\ Writers \subseteq End
  /\ MaxBytes \in Nat /\ SackBits \in Nat /\ MaxInFlight \in Nat
  /\ STREAM_SEG_PAYLOAD \in Nat \ {0} /\ STREAM_WIN_MAX \in Nat \ {0}
  /\ STREAM_IW \in Nat \ {0} /\ STREAM_SSTHRESH_MIN \in 1..STREAM_WIN_MAX
  /\ STREAM_DUPACK_THRESH \in Nat \ {0}
  /\ ClockRuns \in BOOLEAN

VARIABLES
  written,   \* bytes stream_write has accepted
  closed,    \* stream_finish has been called
  pend,      \* pend_count: accepted bytes not yet in a segment
  fin_queued, fin_segmented,
  sbuf,      \* sbuf[e][q % STREAM_WIN_MAX]: the segment q in flight
  snd_una, snd_nxt,
  timer,     \* rto_deadline # 0
  dupacks,
  cwnd, ssthresh, cwnd_cnt,
  peer_rwnd,
  rbuf,      \* rbuf[e][q % STREAM_WIN_MAX]: the segment q received, or NoSeg
  rcv_nxt,
  peer_fin,
  got,       \* the bytes delivered so far, in order
  unread,    \* deliv_count: those of them the application has not read
  net        \* net[e]: the datagrams in flight to e

sendVars == <<written, closed, pend, fin_queued, fin_segmented, sbuf, snd_una, snd_nxt>>
ccVars == <<timer, dupacks, cwnd, ssthresh, cwnd_cnt, peer_rwnd>>
recvVars == <<rbuf, rcv_nxt, peer_fin, got, unread>>
vars == <<sendVars, ccVars, recvVars, net>>

-----------------------------------------------------------------------------

Peer(e) == CHOOSE p \in End : p # e

Least(a, b) == IF a < b THEN a ELSE b
Greatest(a, b) == IF a > b THEN a ELSE b

PEND_CAP == STREAM_WIN_MAX * STREAM_SEG_PAYLOAD
DELIV_CAP == STREAM_WIN_MAX * STREAM_SEG_PAYLOAD

slot(q) == q % STREAM_WIN_MAX

\* A segment: its number, its bytes, whether it is the FIN, and whether the peer has
\* reported it in a SACK.
Segment == [seq : Nat, lo : Nat, len : 0..STREAM_SEG_PAYLOAD, fin : BOOLEAN, sacked : BOOLEAN]

ASSUME NoSegAssumption == NoSeg \notin Segment

Seg(q, lo, len, fin) == [seq |-> q, lo |-> lo, len |-> len, fin |-> fin, sacked |-> FALSE]

\* local_rwnd: free room for whole segments in the delivery buffer.
local_rwnd(n) == (DELIV_CAP - n) \div STREAM_SEG_PAYLOAD

\* emit_seg: a segment with the acknowledgement the end has to give at that moment.
SegMsg(e, s) ==
  [kind |-> IF s.fin THEN "fin" ELSE "data", seq |-> s.seq, lo |-> s.lo, len |-> s.len,
   ack |-> rcv_nxt[e], rwnd |-> local_rwnd(unread[e]), sack |-> {}]

\* emit_ack, with write_sack's bitmap of the segments held above rcv_nxt.
AckMsg(buf, next, n) ==
  [kind |-> "ack", seq |-> 0, lo |-> 0, len |-> 0, ack |-> next, rwnd |-> local_rwnd(n),
   sack |-> {i \in 0..SackBits-1 :
               buf[slot(next + 1 + i)] # NoSeg /\ buf[slot(next + 1 + i)].seq = next + 1 + i}]

\* The channel takes S on its way to e: it holds at most MaxInFlight datagrams, and
\* any of the old and of the new ones may be lost.
Carry(left, S) == {X \in SUBSET (left \cup S) : Cardinality(X) <= MaxInFlight}

-----------------------------------------------------------------------------
(* Sending. *)

\* pump_send with p bytes and fin pending: the segments that go out, from snd_nxt on.
Window(e) == Greatest(1, Least(peer_rwnd[e], Least(cwnd[e], STREAM_WIN_MAX)))

Pumped(e, p, lo, fin) ==
  LET data == (p + STREAM_SEG_PAYLOAD - 1) \div STREAM_SEG_PAYLOAD
      room == IF Window(e) > snd_nxt[e] - snd_una[e]
              THEN Window(e) - (snd_nxt[e] - snd_una[e]) ELSE 0
      n == Least(room, data + (IF fin THEN 1 ELSE 0))
  IN  [j \in 1..n |->
         IF j <= data
         THEN Seg(snd_nxt[e] + j - 1, lo + (j - 1) * STREAM_SEG_PAYLOAD,
                  Least(STREAM_SEG_PAYLOAD, p - (j - 1) * STREAM_SEG_PAYLOAD), FALSE)
         ELSE Seg(snd_nxt[e] + j - 1, 0, 0, TRUE)]

\* Mutant of pump_send: a queued FIN counts as segmented before it has a number.
CountQueuedFin(e, w, p, fin) ==
  LET out == Pumped(e, p, w - p + 1, fin)
      n == Len(out)
      sent == n > 0 /\ out[n].fin
  IN  /\ pend' = [pend EXCEPT ![e] = Greatest(0, p - n * STREAM_SEG_PAYLOAD)]
      /\ fin_queued' = [fin_queued EXCEPT ![e] = fin /\ ~sent]
      /\ fin_segmented' = [fin_segmented EXCEPT ![e] = @ \/ fin]
      /\ sbuf' = [sbuf EXCEPT ![e] =
                    [i \in 0..STREAM_WIN_MAX-1 |->
                       IF \E j \in 1..n : slot(out[j].seq) = i
                       THEN out[CHOOSE j \in 1..n : slot(out[j].seq) = i] ELSE @[i]]]
      /\ snd_nxt' = [snd_nxt EXCEPT ![e] = @ + n]

\* pump_send: p bytes of the total w are pending, with a FIN behind them if fin.
pump_send(e, w, p, fin) ==
  LET out == Pumped(e, p, w - p + 1, fin)
      n == Len(out)
      sent == n > 0 /\ out[n].fin
  IN  /\ pend' = [pend EXCEPT ![e] = Greatest(0, p - n * STREAM_SEG_PAYLOAD)]
      /\ fin_queued' = [fin_queued EXCEPT ![e] = fin /\ ~sent]
      /\ fin_segmented' = [fin_segmented EXCEPT ![e] = @ \/ sent]
      /\ sbuf' = [sbuf EXCEPT ![e] =
                    [i \in 0..STREAM_WIN_MAX-1 |->
                       IF \E j \in 1..n : slot(out[j].seq) = i
                       THEN out[CHOOSE j \in 1..n : slot(out[j].seq) = i] ELSE @[i]]]
      /\ snd_nxt' = [snd_nxt EXCEPT ![e] = @ + n]

Segs(out) == {out[j] : j \in 1..Len(out)}

\* stream_write of up to n bytes.
Write(e, n) ==
  LET k == Least(n, PEND_CAP - pend[e])
      out == Pumped(e, pend[e] + k, written[e] - pend[e] + 1, fin_queued[e])
  IN  /\ ~closed[e] /\ e \in Writers /\ written[e] + k <= MaxBytes /\ k > 0
      /\ written' = [written EXCEPT ![e] = @ + k]
      /\ pump_send(e, written[e] + k, pend[e] + k, fin_queued[e])
      /\ timer' = [timer EXCEPT ![e] = @ \/ Len(out) > 0]
      /\ \E X \in Carry(net[Peer(e)], {SegMsg(e, s) : s \in Segs(out)}) :
           net' = [net EXCEPT ![Peer(e)] = X]
      /\ UNCHANGED <<closed, snd_una, dupacks, cwnd, ssthresh, cwnd_cnt, peer_rwnd,
                     recvVars>>

\* stream_finish.
Finish(e) ==
  LET out == Pumped(e, pend[e], written[e] - pend[e] + 1, TRUE)
  IN  /\ ~closed[e] /\ e \in Writers
      /\ closed' = [closed EXCEPT ![e] = TRUE]
      /\ pump_send(e, written[e], pend[e], TRUE)
      /\ timer' = [timer EXCEPT ![e] = @ \/ Len(out) > 0]
      /\ \E X \in Carry(net[Peer(e)], {SegMsg(e, s) : s \in Segs(out)}) :
           net' = [net EXCEPT ![Peer(e)] = X]
      /\ UNCHANGED <<written, snd_una, dupacks, cwnd, ssthresh, cwnd_cnt, peer_rwnd,
                     recvVars>>

\* retransmit_range: the segments from snd_una up to limit that are not sacked.
Unacked(buf, una, limit) ==
  {buf[slot(q)] : q \in {p \in una..limit-1 : ~buf[slot(p)].sacked}}

\* cc_on_loss.
LossThresh(e) == Greatest(cwnd[e] \div 2, STREAM_SSTHRESH_MIN)

\* What stream_tick puts on the wire: what pump_send segments and, if the timer is due,
\* everything outstanding that is not sacked.
TickSegs(e, due) ==
  LET out == Pumped(e, pend[e], written[e] - pend[e] + 1, fin_queued[e])
  IN  Segs(out) \cup (IF due THEN Unacked(sbuf'[e], snd_una[e], snd_nxt'[e]) ELSE {})

\* stream_tick.  A timer can be due only if time passes, and it stays armed.
Tick(e, due) ==
  /\ due => ClockRuns /\ timer[e]
  /\ pump_send(e, written[e], pend[e], fin_queued[e])
  /\ IF due THEN snd_una[e] # snd_nxt'[e] ELSE snd_nxt'[e] # snd_nxt[e]
  /\ timer' = [timer EXCEPT ![e] = TRUE]
  /\ IF due /\ peer_rwnd[e] # 0
     THEN /\ ssthresh' = [ssthresh EXCEPT ![e] = LossThresh(e)]
          /\ cwnd' = [cwnd EXCEPT ![e] = STREAM_IW]
          /\ cwnd_cnt' = [cwnd_cnt EXCEPT ![e] = 0]
     ELSE UNCHANGED <<ssthresh, cwnd, cwnd_cnt>>
  /\ \E X \in Carry(net[Peer(e)], {SegMsg(e, s) : s \in TickSegs(e, due)}) :
       net' = [net EXCEPT ![Peer(e)] = X]
  /\ UNCHANGED <<written, closed, snd_una, dupacks, peer_rwnd, recvVars>>

-----------------------------------------------------------------------------
(* Receiving. *)

\* Mutant of apply_sack: bit 0 is taken for the cumulative acknowledgement itself.
SackedFromAck(e, m) ==
  [i \in 0..STREAM_WIN_MAX-1 |->
     IF sbuf[e][i] # NoSeg /\ sbuf[e][i].seq \in snd_una[e]..snd_nxt[e]-1
          /\ \E b \in m.sack : sbuf[e][i].seq = m.ack + b
     THEN [sbuf[e][i] EXCEPT !.sacked = TRUE] ELSE sbuf[e][i]]

\* apply_sack: the outstanding segments m reports get their flag.
Sacked(e, m) ==
  [i \in 0..STREAM_WIN_MAX-1 |->
     IF sbuf[e][i] # NoSeg /\ sbuf[e][i].seq \in snd_una[e]..snd_nxt[e]-1
          /\ \E b \in m.sack : sbuf[e][i].seq = m.ack + 1 + b
     THEN [sbuf[e][i] EXCEPT !.sacked = TRUE] ELSE sbuf[e][i]]

\* cc_on_ack of n segments: slow start, or one more per window.
Grown(e, n) ==
  LET sum == cwnd_cnt[e] + n
      more == CHOOSE k \in 0..sum : /\ k * cwnd[e] + (k * (k - 1)) \div 2 <= sum
                                    /\ (k + 1) * cwnd[e] + ((k + 1) * k) \div 2 > sum
  IN  IF cwnd[e] < ssthresh[e]
      THEN <<Least(cwnd[e] + n, STREAM_WIN_MAX), cwnd_cnt[e]>>
      ELSE <<Least(cwnd[e] + more, STREAM_WIN_MAX),
             sum - (more * cwnd[e] + (more * (more - 1)) \div 2)>>

\* Mutant of on_ack: the timer is stopped by every acknowledgement that advances.
StopTimer(e, m) ==
  /\ m.ack > snd_una[e] /\ m.ack <= snd_nxt[e]
  /\ cwnd' = [cwnd EXCEPT ![e] = Grown(e, m.ack - snd_una[e])[1]]
  /\ cwnd_cnt' = [cwnd_cnt EXCEPT ![e] = Grown(e, m.ack - snd_una[e])[2]]
  /\ snd_una' = [snd_una EXCEPT ![e] = m.ack]
  /\ dupacks' = [dupacks EXCEPT ![e] = 0]
  /\ timer' = [timer EXCEPT ![e] = FALSE]
  /\ UNCHANGED ssthresh

\* on_ack of an acknowledgement that advances.
NewAck(e, m) ==
  /\ m.ack > snd_una[e] /\ m.ack <= snd_nxt[e]
  /\ cwnd' = [cwnd EXCEPT ![e] = Grown(e, m.ack - snd_una[e])[1]]
  /\ cwnd_cnt' = [cwnd_cnt EXCEPT ![e] = Grown(e, m.ack - snd_una[e])[2]]
  /\ snd_una' = [snd_una EXCEPT ![e] = m.ack]
  /\ dupacks' = [dupacks EXCEPT ![e] = 0]
  /\ timer' = [timer EXCEPT ![e] = m.ack # snd_nxt[e]]
  /\ UNCHANGED ssthresh

IsDup(e, m) == m.ack = snd_una[e] /\ snd_una[e] # snd_nxt[e]

\* on_ack of a duplicate that does not start fast retransmit, or of no duplicate.  The
\* count of duplicates matters only up to the threshold, and is capped just above it.
OldAck(e, m) ==
  /\ ~(m.ack > snd_una[e] /\ m.ack <= snd_nxt[e])
  /\ ~(IsDup(e, m) /\ m.rwnd # 0 /\ dupacks[e] + 1 = STREAM_DUPACK_THRESH)
  /\ dupacks' = [dupacks EXCEPT ![e] =
                   IF ~IsDup(e, m) THEN @ ELSE IF m.rwnd = 0 THEN 0
                   ELSE Least(@ + 1, STREAM_DUPACK_THRESH + 1)]
  /\ UNCHANGED <<cwnd, cwnd_cnt, ssthresh, snd_una, timer>>

\* The duplicate that starts fast retransmit.
FastAck(e, m) ==
  /\ IsDup(e, m) /\ m.rwnd # 0 /\ dupacks[e] + 1 = STREAM_DUPACK_THRESH
  /\ dupacks' = [dupacks EXCEPT ![e] = @ + 1]
  /\ ssthresh' = [ssthresh EXCEPT ![e] = LossThresh(e)]
  /\ cwnd' = [cwnd EXCEPT ![e] = LossThresh(e)]
  /\ cwnd_cnt' = [cwnd_cnt EXCEPT ![e] = 0]
  /\ timer' = [timer EXCEPT ![e] = TRUE]
  /\ UNCHANGED snd_una

\* fast_retransmit: the holes below the highest sacked segment, or the first segment.
Holes(e, buf) ==
  LET tops == {q \in snd_una[e]..snd_nxt[e]-1 : buf[slot(q)].sacked}
      limit == IF tops = {} THEN snd_una[e] + 1
               ELSE 1 + CHOOSE q \in tops : \A p \in tops : p <= q
  IN  Unacked(buf, snd_una[e], limit)

\* Mutant of the window test: a segment below rcv_nxt is buffered again.
BufferedAgain(e, m) ==
  IF m.seq < rcv_nxt[e] + STREAM_WIN_MAX /\ rbuf[e][slot(m.seq)] = NoSeg
  THEN [rbuf[e] EXCEPT ![slot(m.seq)] = Seg(m.seq, m.lo, m.len, m.kind = "fin")]
  ELSE rbuf[e]

\* stream_input buffers a segment that is in the window and not there yet.
Buffered(e, m) ==
  IF m.seq \in rcv_nxt[e]..rcv_nxt[e]+STREAM_WIN_MAX-1 /\ rbuf[e][slot(m.seq)] = NoSeg
  THEN [rbuf[e] EXCEPT ![slot(m.seq)] = Seg(m.seq, m.lo, m.len, m.kind = "fin")]
  ELSE rbuf[e]

\* Where the bytes of segments of these lengths end, one after the other.
Offsets(lens) ==
  LET total[j \in 0..Len(lens)] == IF j = 0 THEN 0 ELSE total[j - 1] + lens[j]
  IN  total

\* The delivery loop: the run of segments from next on that are there and fit.
Run(buf, next, n) ==
  LET at(j) == buf[slot(next + j)]
      here(j) == at(j) # NoSeg /\ at(j).seq = next + j
      total == Offsets([j \in 1..STREAM_WIN_MAX |-> IF here(j - 1) THEN at(j - 1).len ELSE 0])
      good(k) == \A j \in 0..k-1 : /\ here(j) /\ total[j + 1] <= DELIV_CAP - n
                                   /\ j < k - 1 => ~at(j).fin
      k == CHOOSE k \in 0..STREAM_WIN_MAX :
             good(k) /\ (k = STREAM_WIN_MAX \/ ~good(k + 1))
  IN  [j \in 1..k |-> at(j - 1)]

\* The bytes of a run of segments, one after the other.
Payload(run) ==
  LET total == Offsets([j \in 1..Len(run) |-> run[j].len])
      seg(i) == CHOOSE j \in 1..Len(run) : total[j - 1] < i /\ i <= total[j]
  IN  [i \in 1..total[Len(run)] |-> run[seg(i)].lo + i - total[seg(i) - 1] - 1]

\* Mutant of stream_input: the FIN is reported when it arrives, not in its turn.
EarlyFin(e, m) ==
  LET buf == Buffered(e, m)
      run == Run(buf, rcv_nxt[e], unread[e])
      bytes == Payload(run)
  IN  /\ rbuf' = [rbuf EXCEPT ![e] =
                    [i \in 0..STREAM_WIN_MAX-1 |->
                       IF \E j \in 1..Len(run) : slot(run[j].seq) = i
                       THEN NoSeg ELSE buf[i]]]
      /\ rcv_nxt' = [rcv_nxt EXCEPT ![e] = @ + Len(run)]
      /\ got' = [got EXCEPT ![e] = @ \o bytes]
      /\ unread' = [unread EXCEPT ![e] = @ + Len(bytes)]
      /\ peer_fin' = [peer_fin EXCEPT ![e] = @ \/ m.kind = "fin"]

\* stream_input of a data or FIN segment, after on_ack: buffer, deliver, acknowledge.
Accept(e, m) ==
  LET buf == Buffered(e, m)
      run == Run(buf, rcv_nxt[e], unread[e])
      bytes == Payload(run)
  IN  /\ rbuf' = [rbuf EXCEPT ![e] =
                    [i \in 0..STREAM_WIN_MAX-1 |->
                       IF \E j \in 1..Len(run) : slot(run[j].seq) = i
                       THEN NoSeg ELSE buf[i]]]
      /\ rcv_nxt' = [rcv_nxt EXCEPT ![e] = @ + Len(run)]
      /\ got' = [got EXCEPT ![e] = @ \o bytes]
      /\ unread' = [unread EXCEPT ![e] = @ + Len(bytes)]
      /\ peer_fin' = [peer_fin EXCEPT ![e] = @ \/ \E j \in 1..Len(run) : run[j].fin]

\* What stream_input sends: fast retransmissions, then the acknowledgement of a segment.
InputReplies(e, m) ==
  {SegMsg(e, s) : s \in IF IsDup(e, m) /\ m.rwnd # 0
                           /\ dupacks[e] + 1 = STREAM_DUPACK_THRESH
                        THEN Holes(e, Sacked(e, m)) ELSE {}}
    \cup (IF m.kind = "ack" THEN {} ELSE {AckMsg(rbuf'[e], rcv_nxt'[e], unread'[e])})

\* stream_input.  The datagram may stay in flight, to arrive again.
Input(e, m) ==
  /\ m \in net[e]
  /\ peer_rwnd' = [peer_rwnd EXCEPT ![e] = m.rwnd]
  /\ sbuf' = [sbuf EXCEPT ![e] = Sacked(e, m)]
  /\ NewAck(e, m) \/ OldAck(e, m) \/ FastAck(e, m)
  /\ IF m.kind = "ack" THEN UNCHANGED recvVars ELSE Accept(e, m)
  /\ \E X \in Carry(net[Peer(e)], InputReplies(e, m)), Y \in {net[e], net[e] \ {m}} :
       net' = [net EXCEPT ![Peer(e)] = X, ![e] = Y]
  /\ UNCHANGED <<written, closed, pend, fin_queued, fin_segmented, snd_nxt>>

\* stream_read of n bytes: nothing else happens, nothing is sent.
Read(e, n) ==
  /\ n \in 1..unread[e]
  /\ unread' = [unread EXCEPT ![e] = @ - n]
  /\ UNCHANGED <<sendVars, ccVars, rbuf, rcv_nxt, peer_fin, got, net>>

\* stream_new at both ends.
Init ==
  /\ written = [e \in End |-> 0] /\ closed = [e \in End |-> FALSE]
  /\ pend = [e \in End |-> 0]
  /\ fin_queued = [e \in End |-> FALSE] /\ fin_segmented = [e \in End |-> FALSE]
  /\ sbuf = [e \in End |-> [i \in 0..STREAM_WIN_MAX-1 |-> NoSeg]]
  /\ snd_una = [e \in End |-> 0] /\ snd_nxt = [e \in End |-> 0]
  /\ timer = [e \in End |-> FALSE] /\ dupacks = [e \in End |-> 0]
  /\ cwnd = [e \in End |-> STREAM_IW] /\ ssthresh = [e \in End |-> STREAM_WIN_MAX]
  /\ cwnd_cnt = [e \in End |-> 0] /\ peer_rwnd = [e \in End |-> STREAM_WIN_MAX]
  /\ rbuf = [e \in End |-> [i \in 0..STREAM_WIN_MAX-1 |-> NoSeg]]
  /\ rcv_nxt = [e \in End |-> 0] /\ peer_fin = [e \in End |-> FALSE]
  /\ got = [e \in End |-> <<>>] /\ unread = [e \in End |-> 0]
  /\ net = [e \in End |-> {}]

Next ==
  \E e \in End :
    \/ \E n \in 1..MaxBytes : Write(e, n)
    \/ Finish(e)
    \/ \E due \in BOOLEAN : Tick(e, due)
    \/ \E m \in net[e] : Input(e, m)
    \/ \E n \in 1..DELIV_CAP : Read(e, n)

Spec == Init /\ [][Next]_vars

-----------------------------------------------------------------------------
(* Fairness.  The applications of a stream's end tick and read it; the       *)
(* channel loses datagrams, but one that is sent again and again gets        *)
(* through, and so does the answer to it.  Sequence numbers only grow and    *)
(* are bounded, so it is enough to ask this of the segment the sender waits  *)
(* for and of the acknowledgement the receiver has come to.  A timer that is *)
(* due is due at some tick; without a clock none ever is.                    *)

TickThrough(e) ==
  /\ Tick(e, TRUE)
  /\ {SegMsg(e, s) : s \in {t \in TickSegs(e, TRUE) : t.seq = snd_una[e]}} \subseteq net'[Peer(e)]

DataThrough(e) ==
  \E m \in net[Peer(e)] :
    /\ m.kind # "ack" /\ m.seq = snd_una[e]
    /\ Input(Peer(e), m) /\ InputReplies(Peer(e), m) \subseteq net'[e]

AckThrough(e) ==
  \E m \in net[e] : m.kind = "ack" /\ m.ack = rcv_nxt[Peer(e)] /\ Input(e, m)

Fairness ==
  \A e \in Writers :
    /\ WF_vars(Tick(e, FALSE)) /\ SF_vars(TickThrough(e))
    /\ SF_vars(DataThrough(e)) /\ SF_vars(AckThrough(e))
    /\ WF_vars(\E n \in 1..DELIV_CAP : Read(Peer(e), n))

FairSpec == Spec /\ Fairness

-----------------------------------------------------------------------------
(* Properties. *)

Datagram ==
  [kind : {"data", "fin", "ack"}, seq : Nat, lo : Nat, len : 0..STREAM_SEG_PAYLOAD,
   ack : Nat, rwnd : 0..STREAM_WIN_MAX, sack : SUBSET (0..SackBits-1)]

\* Types of the stream's fields; the buffers never hold more than they have room for.
TypeOK ==
  /\ written \in [End -> Nat] /\ closed \in [End -> BOOLEAN]
  /\ pend \in [End -> 0..PEND_CAP]
  /\ fin_queued \in [End -> BOOLEAN] /\ fin_segmented \in [End -> BOOLEAN]
  /\ sbuf \in [End -> [0..STREAM_WIN_MAX-1 -> Segment \cup {NoSeg}]]
  /\ rbuf \in [End -> [0..STREAM_WIN_MAX-1 -> Segment \cup {NoSeg}]]
  /\ snd_una \in [End -> Nat] /\ snd_nxt \in [End -> Nat] /\ rcv_nxt \in [End -> Nat]
  /\ timer \in [End -> BOOLEAN] /\ dupacks \in [End -> Nat]
  /\ cwnd \in [End -> 1..Greatest(STREAM_IW, STREAM_WIN_MAX)]
  /\ ssthresh \in [End -> Nat \ {0}]
  /\ cwnd_cnt \in [End -> Nat] /\ peer_rwnd \in [End -> 0..STREAM_WIN_MAX]
  /\ peer_fin \in [End -> BOOLEAN] /\ unread \in [End -> 0..DELIV_CAP]
  /\ got \in [End -> Seq(Nat)] /\ net \in [End -> SUBSET Datagram]

\* Slots are reused modulo the window, yet the slot of every outstanding segment
\* holds that segment, and a reassembly slot only one of the receive window: what
\* pump_send, apply_sack, on_ack and the delivery loop take for granted.
SlotsSound ==
  \A e \in End :
    /\ \A q \in snd_una[e]..snd_nxt[e]-1 : sbuf[e][slot(q)].seq = q
    /\ snd_nxt[e] - snd_una[e] <= STREAM_WIN_MAX
    /\ \A i \in 0..STREAM_WIN_MAX-1 : rbuf[e][i] # NoSeg =>
         /\ rbuf[e][i].seq \in rcv_nxt[e]..rcv_nxt[e]+STREAM_WIN_MAX-1
         /\ slot(rbuf[e][i].seq) = i

\* What an end believes its peer has, by cumulative or selective acknowledgement, the
\* peer has, in whatever order the acknowledgements came in.
AckedIsHeld ==
  \A e \in End :
    /\ snd_una[e] <= rcv_nxt[Peer(e)]
    /\ \A q \in snd_una[e]..snd_nxt[e]-1 : sbuf[e][slot(q)].sacked =>
         q < rcv_nxt[Peer(e)] \/ rbuf[Peer(e)][slot(q)] # NoSeg

\* The timer runs exactly while something is outstanding, so nothing outstanding is
\* forgotten by stream_tick.
TimerGuardsWindow == \A e \in End : timer[e] <=> snd_una[e] # snd_nxt[e]

\* stream_send_done says that the peer has everything, the FIN included.
DoneIsTrue ==
  \A e \in End :
    (fin_segmented[e] /\ snd_una[e] = snd_nxt[e])
      => peer_fin[Peer(e)] /\ Len(got[Peer(e)]) = written[e]

Pipe == INSTANCE BytePipe WITH finished <- closed, received <- got, ended <- peer_fin

\* Segments, acknowledgements and retransmissions carry the bytes of stream.h's pipe:
\* in order, each once, the end last.
ImplementsPipe == Pipe!Spec

\* With nothing in flight and something outstanding, the timer has a segment to send:
\* an end that waits for an acknowledgement never waits in silence.
NeverSilent ==
  \A e \in End :
    (snd_una[e] # snd_nxt[e] /\ \A p \in End : net[p] = {})
      => Unacked(sbuf[e], snd_una[e], snd_nxt[e]) # {}

\* Once an end has closed its direction its peer eventually has every byte and the FIN:
\* "reliable, ordered delivery" (stream.h:33), also when segments or acknowledgements
\* were lost (stream_tick, as norn_client_tick_sessions calls it).
EndReached == \A e \in Writers : closed[e] ~> peer_fin[Peer(e)]
=============================================================================
