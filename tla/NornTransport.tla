--------------------------- MODULE NornTransport ---------------------------
(***************************************************************************)
(* The cluster's frames between two daemons (nornd/transport.c, peers.c):  *)
(* the sender's dials of one configured peer and the stream it writes its  *)
(* Raft frames to, and the receiver's table of inbound streams with the    *)
(* framer of each.                                                         *)
(*                                                                         *)
(* A stream is what NornStream is checked to be: bytes arrive in order,    *)
(* any number at a time, and a write takes what there is room for.  The    *)
(* four bytes of a frame's length are one element, at place 0; the bytes   *)
(* of its body follow, each an element.  A length read off the bytes of a  *)
(* body is any.  The session layer calls back only when a handshake ends,  *)
(* which may be never.                                                     *)
(***************************************************************************)
EXTENDS Naturals, SequencesExt

CONSTANTS
  Length,          \* lengths of the frames the cluster sends
  NORND_FRAME_MAX,
  MAX_INBOUND,
  REDIAL_TICKS,
  Window,          \* bytes a stream takes before the peer reads
  MaxFrames,       \* bound: frames sent
  MaxDials,        \* bound: sessions dialled
  MaxRestarts      \* bound: restarts of the sender

ASSUME TransportAssumption ==
  /\ Length \subseteq Nat /\ NORND_FRAME_MAX \in Nat \ {0} /\ MAX_INBOUND \in Nat \ {0}
  /\ REDIAL_TICKS \in Nat /\ Window \in Nat \ {0}
  /\ MaxFrames \in Nat /\ MaxDials \in Nat /\ MaxRestarts \in Nat

VARIABLES
  op,          \* [address, session, stream, redial]: the sender's out_peer_t; 0 is NULL
  dialled,     \* sessions dialled so far; they are numbered
  pending,     \* dials of this life of the sender that no handshake has ended
  wire,        \* wire[s]: written to the stream of session s and not read
  written,     \* history: written[s]: the frames given to that stream, in order
  announced,   \* sessions whose stream the receiver was told of
  inbound,     \* inbound[i]: [session, buf, start]; session 0 when not active
  delivered,   \* delivered[s]: frames the cluster got from s; 0 for what is no frame
  torn,        \* history: streams with a write cut short or a push refused
  sends,       \* frames sent so far
  lives        \* restarts so far

transportVars == <<op, dialled, pending, wire, written, announced, inbound, delivered, torn, sends, lives>>
toReceiver == <<announced, inbound, delivered>>

Sess == 1..MaxDials
NORND_FRAMER_CAP == NORND_FRAME_MAX + 1

-----------------------------------------------------------------------------
(* Outbound. *)

\* dial_peer, by [op, dialled, pending]: a host that is no address is left for later.
dial_peer(d) ==
  IF d.op.address
  THEN [op |-> [d.op EXCEPT !.session = 0, !.stream = 0],
        dialled |-> d.dialled + 1, pending |-> d.pending \cup {d.dialled + 1}]
  ELSE [d EXCEPT !.op.session = 0, !.op.stream = 0, !.op.redial = REDIAL_TICKS]

Dials == [op |-> op, dialled |-> dialled, pending |-> pending]

Becomes(d) ==
  /\ d.dialled <= MaxDials
  /\ op' = d.op /\ dialled' = d.dialled /\ pending' = d.pending

\* on_out_session(ESTABLISHED) of any dial still under way, and with it on_out_stream
\* of the stream it opens when there is none.
on_out_session(s) ==
  /\ s \in pending
  /\ pending' = pending \ {s}
  /\ op' = [op EXCEPT !.session = s, !.stream = IF @ = 0 THEN s ELSE @]
  /\ UNCHANGED <<dialled, wire, written, torn, sends, lives>> /\ UNCHANGED toReceiver

\* nornd_frame_encode: refused when it is too long.
nornd_frame_encode(n, len) ==
  IF len > NORND_FRAME_MAX THEN <<>>
  ELSE [i \in 1..(len + 1) |-> [frame |-> n, at |-> i - 1, len |-> len]]

\* nornd_transport_send: nobody looks at how much of the frame the stream took.
nornd_transport_send(len) ==
  LET frame == nornd_frame_encode(sends + 1, len)
      s == op.stream
      took == SubSeq(frame, 1, Min({Len(frame), Window - Len(wire[s])}))
  IN  /\ sends < MaxFrames
      /\ sends' = sends + 1
      /\ \/ /\ s = 0 \/ frame = <<>>
            /\ UNCHANGED <<wire, written, torn>>
         \/ /\ s # 0 /\ frame # <<>>
            /\ wire' = [wire EXCEPT ![s] = @ \o took]
            /\ written' = [written EXCEPT ![s] = Append(@, sends + 1)]
            /\ torn' = IF Len(took) < Len(frame) THEN torn \cup {s} ELSE torn
      /\ UNCHANGED <<op, dialled, pending, lives>> /\ UNCHANGED toReceiver

\* nornd_transport_poll of the sender: wait, or dial, unless there is a session.
PollOut ==
  /\ op.session = 0 /\ op.stream = 0
  /\ \/ op.redial > 0 /\ Becomes([Dials EXCEPT !.op.redial = @ - 1])
     \/ op.redial = 0 /\ Becomes(dial_peer(Dials))
  /\ UNCHANGED <<wire, written, torn, sends, lives>> /\ UNCHANGED toReceiver

\* The sender ends and starts again: nornd_transport_new dials.  The receiver is told
\* nothing.
nornd_transport_new ==
  /\ lives < MaxRestarts
  /\ lives' = lives + 1
  /\ Becomes(dial_peer([Dials EXCEPT !.op.redial = 0, !.pending = {}]))
  /\ UNCHANGED <<wire, written, torn, sends>> /\ UNCHANGED toReceiver

-----------------------------------------------------------------------------
(* The framer: buf holds what was pushed, its first start elements are read. *)

nornd_framer_reset(ic) == [ic EXCEPT !.buf = <<>>, !.start = 0]

Unread(ic) == SubSeq(ic.buf, ic.start + 1, Len(ic.buf))

\* Mutant of nornd_framer_push: what is read is moved away and start is not set back.
PushKeepsStart(ic, data) ==
  IF Len(data) > NORND_FRAMER_CAP - Len(ic.buf) THEN [ic EXCEPT !.buf = Unread(ic) \o data]
  ELSE [ic EXCEPT !.buf = @ \o data]

\* nornd_framer_push of data that fits.
nornd_framer_push(ic, data) ==
  IF Len(data) > NORND_FRAMER_CAP - Len(ic.buf)
  THEN [ic EXCEPT !.buf = Unread(ic) \o data, !.start = 0]
  ELSE [ic EXCEPT !.buf = @ \o data]

Refused(ic, data) == Len(data) > NORND_FRAMER_CAP - Len(Unread(ic))

\* The body length that the next four bytes say.
Says(ic, junk) == LET e == Head(Unread(ic)) IN IF e.at = 0 THEN e.len ELSE junk

\* The number of the frame these elements are the body of, or 0.
Whole(header, body) ==
  IF header.at = 0 /\ \A i \in DOMAIN body : body[i].frame = header.frame /\ body[i].at = i
  THEN header.frame ELSE 0

\* nornd_framer_next: -1, 0, or 1 and the frame.
nornd_framer_next(ic, junk) ==
  LET u == Unread(ic)
  IN  IF u = <<>> THEN [r |-> "none", ic |-> ic]
      ELSE LET n == Says(ic, junk)
           IN  IF n > NORND_FRAME_MAX THEN [r |-> "bad", ic |-> ic]
               ELSE IF Len(u) < 1 + n THEN [r |-> "none", ic |-> ic]
               ELSE [r |-> "one", ic |-> [ic EXCEPT !.start = @ + 1 + n],
                     frame |-> Whole(Head(u), SubSeq(u, 2, n + 1))]

-----------------------------------------------------------------------------
(* Inbound. *)

Idle == [session |-> 0, buf |-> <<>>, start |-> 0]

\* on_raft_stream, when the first bytes of a session's stream come in.  A session has
\* one such stream, so that it never has an entry already.
on_raft_stream(s) ==
  LET room == {i \in 1..MAX_INBOUND : inbound[i].session = 0}
  IN  /\ s \notin announced /\ wire[s] # <<>>
      /\ announced' = announced \cup {s}
      /\ inbound' = IF room = {} THEN inbound ELSE [inbound EXCEPT ![Min(room)] = [Idle EXCEPT !.session = s]]
      /\ UNCHANGED <<op, dialled, pending, wire, written, delivered, torn, sends, lives>>

\* All frames the framer now has; [ic, got, bad].
FrameTurn(a, junk) ==
  LET n == nornd_framer_next(a.ic, junk)
  IN  IF n.r = "one" THEN [ic |-> n.ic, got |-> Append(a.got, n.frame)] ELSE a

Frames(ic, junk) ==
  LET After[k \in 0..Len(Unread(ic))] ==
        IF k = 0 THEN [ic |-> ic, got |-> <<>>] ELSE FrameTurn(After[k - 1], junk)
      last == After[Len(Unread(ic))]
  IN  [ic |-> last.ic, got |-> last.got, bad |-> nornd_framer_next(last.ic, junk).r = "bad"]

\* One round of the loop over a stream: at most NORND_FRAME_MAX of the bytes at hand.
Round(d, junk) ==
  LET n == Min({d.more, NORND_FRAME_MAX})
      data == SubSeq(d.rest, 1, n)
      f == Frames(nornd_framer_push(d.ic, data), junk)
      left == SubSeq(d.rest, n + 1, Len(d.rest))
  IN  IF d.more = 0 THEN d
      ELSE IF Refused(d.ic, data)
      THEN [ic |-> nornd_framer_reset(d.ic), rest |-> left, more |-> 0, got |-> d.got, lost |-> TRUE]
      ELSE IF f.bad
      THEN [ic |-> Idle, rest |-> left, more |-> 0, got |-> d.got \o f.got, lost |-> TRUE]
      ELSE [ic |-> f.ic, rest |-> left, more |-> d.more - n, got |-> d.got \o f.got, lost |-> d.lost]

\* The rounds over a stream on which n bytes have come in.
Polled(ic, rest, n, junk) ==
  LET After[k \in 0..n] ==
        IF k = 0 THEN [ic |-> ic, rest |-> rest, more |-> n, got |-> <<>>, lost |-> FALSE]
        ELSE Round(After[k - 1], junk)
  IN  After[n]

\* nornd_transport_poll of the receiver visits entry i.
PollIn(i, n, junk) ==
  LET s == inbound[i].session
      d == Polled(inbound[i], wire[s], n, junk)
  IN  /\ s # 0 /\ n \in 1..Len(wire[s])
      /\ inbound' = [inbound EXCEPT ![i] = d.ic]
      /\ wire' = [wire EXCEPT ![s] = d.rest]
      /\ delivered' = [delivered EXCEPT ![s] = @ \o d.got]
      /\ torn' = IF d.lost THEN torn \cup {s} ELSE torn
      /\ UNCHANGED <<op, dialled, pending, written, announced, sends, lives>>

-----------------------------------------------------------------------------

TransportInit ==
  /\ \E a \in BOOLEAN :
       LET d == dial_peer([op |-> [address |-> a, session |-> 0, stream |-> 0, redial |-> 0],
                           dialled |-> 0, pending |-> {}])
       IN  op = d.op /\ dialled = d.dialled /\ pending = d.pending
  /\ wire = [s \in Sess |-> <<>>] /\ written = [s \in Sess |-> <<>>]
  /\ delivered = [s \in Sess |-> <<>>]
  /\ announced = {} /\ torn = {} /\ sends = 0 /\ lives = 0
  /\ inbound = [i \in 1..MAX_INBOUND |-> Idle]

TransportNext ==
  \/ \E s \in Sess : on_out_session(s) \/ on_raft_stream(s)
  \/ \E len \in Length : nornd_transport_send(len)
  \/ PollOut \/ nornd_transport_new
  \/ \E i \in 1..MAX_INBOUND, n \in 1..Window, junk \in 0..(NORND_FRAME_MAX + 1) : PollIn(i, n, junk)

TransportSpec == TransportInit /\ [][TransportNext]_transportVars

-----------------------------------------------------------------------------
(* Properties. *)

\* The cluster gets the frames of a stream whole and in the order they were sent, in
\* whatever pieces they come in, and has them all once the stream is read out; until a
\* write is cut short or the framer gives up, which nobody is told of.
FramesInOrder ==
  \A s \in Sess \ torn :
    /\ IsPrefix(delivered[s], written[s])
    /\ (wire[s] = <<>> /\ \E i \in 1..MAX_INBOUND : inbound[i].session = s)
         => delivered[s] = written[s]

\* Formulas that do not hold of the code: the README says why.
FramesWhole == \A s \in Sess : IsPrefix(delivered[s], written[s])
OneDialPerPeer == Cardinality(pending) <= 1
RoomForPeer == \A s \in announced : \E i \in 1..MAX_INBOUND : inbound[i].session = s
=============================================================================
