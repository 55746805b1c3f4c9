----------------------------- MODULE NornServe -----------------------------
(***************************************************************************)
(* Values a node serves to its peers: the fetch a daemon makes on behalf   *)
(* of its user (nornd/peer_fetch.c), and the serving side, a table of      *)
(* exchanges driven by the other daemon's loop (nornd/served_conn.c,       *)
(* served.c, served_proto.c, store.c and main.c).                          *)
(*                                                                         *)
(* A call dials a session and waits for one stream on it.  A stream is     *)
(* what NornStream is checked to be: bytes arrive in order, any number of  *)
(* them at a time; a write takes what there is room for, possibly nothing. *)
(* A byte is named by its object and its place in it; a line is one        *)
(* element.  The request and the status line always find room, being the   *)
(* first writes of their direction.                                        *)
(*                                                                         *)
(* The context of a call, fetch_ctx_t, is on the stack of nornd_peer_fetch, *)
(* and a session keeps its pointer when the call has returned.  The daemon *)
(* makes one call at a time, from one place, so the calls of a daemon have *)
(* their contexts at one address: a session that is established late acts  *)
(* on the call then under way, and between calls on a dead frame, of which *)
(* nothing is known.                                                       *)
(***************************************************************************)
EXTENDS Naturals, SequencesExt

CONSTANTS
  Fetch,      \* calls of nornd_peer_fetch, each with the session it dials
  Caller,     \* Caller[f]: the daemon that makes the call
  Peer,       \* Peer[f]: the peer its spec names
  Request,    \* what a call may ask: [verb, arg]
  Local,      \* Local[<<p, k>>]: length of the local key k of p (a LIST of it when a prefix)
  Object,     \* Object[<<p, h>>]: length of the object of p with hash h
  Room,       \* bytes a stream takes before the peer reads (PEND_CAP)
  Chunk,      \* bytes of one fread (sizeof(buf))
  RX,         \* bytes a call can hold (sizeof(c->rx))
  MAX_SERVE,
  NoStream

ASSUME ServeAssumption ==
  /\ Room \in Nat \ {0} /\ Chunk \in Nat \ {0} /\ RX \in Nat \ {0} /\ MAX_SERVE \in Nat \ {0}
  /\ \A k \in DOMAIN Local : Local[k] \in Nat
  /\ \A h \in DOMAIN Object : Object[h] \in Nat
  /\ NoStream \notin Fetch

VARIABLES
  call,       \* call[f]: [pc, req, stream, rc, out]: a call, the session its stream is on, what it hands over
  sess,       \* sess[f]: [pc, req, rx]: the session f dialled, the line written on its stream, what was read
  crashed,    \* daemons a callback into a dead frame has ended
  down,       \* down[f]: bytes written by the server and not read from the stream
  arrived,    \* arrived[f]: the request came in and its stream was announced
  conns       \* conns[p]: serve_host_t.conns[0..n-1] of the peer p, from 1

serveVars == <<call, sess, crashed, down, arrived, conns>>

Body(arg, from, n) == [i \in 1..n |-> [of |-> arg, at |-> from + i]]

-----------------------------------------------------------------------------
(* The fetch. *)

\* norn_dial_direct_async or norn_dial_async was called; specs and verbs that do not
\* parse return before that.  A daemon that is in a call serves nobody else.
nornd_peer_fetch(f, r) ==
  /\ call[f].pc = "idle" /\ Caller[f] \notin crashed
  /\ \A g \in Fetch : Caller[g] = Caller[f] => call[g].pc # "calling"
  /\ call' = [call EXCEPT ![f].pc = "calling", ![f].req = r]
  /\ sess' = [sess EXCEPT ![f].pc = "dialing"]
  /\ UNCHANGED <<crashed, down, arrived, conns>>

\* A request line as it reaches the peer of session s.
Line(s, r) == [verb |-> r.verb, arg |-> <<Peer[s], r.arg>>]

\* norn_stream_open_svc and on_stream: the stream is opened and the line written at
\* once, for a connect too, whose line is empty and is not sent.
Opened(s, r) == [sess EXCEPT ![s].pc = "open", ![s].req = Line(s, r)]

Silent(s) == [sess EXCEPT ![s].pc = "silent"]

\* on_session, session s being established while the call g is under way: its own
\* session, or one that an earlier call has left.  The first gets the stream.
on_session(s, g) ==
  /\ sess[s].pc = "dialing" /\ call[g].pc = "calling" /\ Caller[g] = Caller[s]
  /\ IF call[g].stream = NoStream
     THEN call' = [call EXCEPT ![g].stream = s] /\ sess' = Opened(s, call[g].req)
     ELSE sess' = Silent(s) /\ UNCHANGED call
  /\ UNCHANGED <<crashed, down, arrived, conns>>

\* on_session of a dial that failed: the call under way is done, with rc still -1.
DialFailed(s, g) ==
  /\ sess[s].pc = "dialing" /\ call[g].pc = "calling" /\ Caller[g] = Caller[s]
  /\ call' = [call EXCEPT ![g].pc = "returned"]
  /\ sess' = Silent(s)
  /\ UNCHANGED <<crashed, down, arrived, conns>>

\* on_session between two calls, on a frame that is gone: what it finds for a stream
\* and for a line is arbitrary, and what it writes may end the daemon.
DeadFrame(s) ==
  /\ sess[s].pc = "dialing" /\ Caller[s] \notin crashed
  /\ \A g \in Fetch : Caller[g] = Caller[s] => call[g].pc # "calling"
  /\ \/ sess' = Silent(s) /\ UNCHANGED crashed
     \/ \E r \in Request : sess' = Opened(s, r) /\ UNCHANGED crashed
     \/ crashed' = crashed \cup {Caller[s]} /\ UNCHANGED sess
  /\ UNCHANGED <<call, down, arrived, conns>>

Received(rx) == Len(rx) - 1

\* What a call hands to its user: the body behind the status line rx[1].
Fetched(rx) == SubSeq(rx, 2, rx[1].len + 1)

\* pump_rx, after n bytes came in on the stream of the call g.  A buffer that is full
\* is not read into again.  A connect does not read.
pump_rx(g, s, n) ==
  LET rx == sess[s].rx \o SubSeq(down[s], 1, Min({n, RX - Len(sess[s].rx)}))
      done == ~rx[1].ok \/ Received(rx) >= rx[1].len
  IN  /\ call[g].pc = "calling" /\ call[g].stream = s /\ call[g].req.verb # "connect"
      /\ Len(sess[s].rx) < RX
      /\ sess' = [sess EXCEPT ![s].rx = rx]
      /\ call' = [call EXCEPT ![g].pc = IF done THEN "returned" ELSE @,
                              ![g].rc = IF done /\ rx[1].ok THEN 0 ELSE @,
                              ![g].out = IF done /\ rx[1].ok THEN Fetched(rx) ELSE @]
      /\ down' = [down EXCEPT ![s] = SubSeq(@, n + 1, Len(@))]
      /\ UNCHANGED <<crashed, arrived, conns>>

\* 15 seconds, or 5 for a connect, are over; the session stays.
TimedOut(g) ==
  /\ call[g].pc = "calling"
  /\ call' = [call EXCEPT ![g].pc = "returned"]
  /\ UNCHANGED <<sess, crashed, down, arrived, conns>>

-----------------------------------------------------------------------------
(* The serving side. *)

\* on_served_accept: a stream the table has no room for is never looked at again.
on_served_accept(f) ==
  /\ sess[f].pc = "open" /\ sess[f].req.verb # "connect" /\ ~arrived[f]
  /\ arrived' = [arrived EXCEPT ![f] = TRUE]
  /\ conns' = IF Len(conns[Peer[f]]) >= MAX_SERVE THEN conns
              ELSE [conns EXCEPT ![Peer[f]] =
                      Append(@, [f |-> f, phase |-> "REQ", ok |-> FALSE, len |-> 0,
                                 file |-> FALSE, sent |-> 0, pos |-> 0])]
  /\ UNCHANGED <<call, sess, crashed, down>>

\* nornd_served_handle: the value is copied now, the object is opened now; a line that
\* is no request is answered with an error, one that is too long with nothing.
nornd_served_handle(c, r) ==
  CASE r.verb \in {"get", "list"} /\ r.arg \in DOMAIN Local ->
         [c EXCEPT !.phase = "STATUS", !.ok = TRUE, !.len = Local[r.arg]]
    [] r.verb = "cat" /\ r.arg \in DOMAIN Object ->
         [c EXCEPT !.phase = "STATUS", !.ok = TRUE, !.len = Object[r.arg], !.file = TRUE]
    [] r.verb = "long" -> [c EXCEPT !.phase = "DONE"]
    [] OTHER -> [c EXCEPT !.phase = "STATUS"]

\* nornd_serve_conn_pump, phase by phase: the exchange and what it writes.
PumpRequest(s, r) ==
  IF s.c.phase = "REQ" THEN [s EXCEPT !.c = nornd_served_handle(s.c, r)] ELSE s

PumpStatus(s) ==
  IF s.c.phase # "STATUS" THEN s
  ELSE [c |-> [s.c EXCEPT !.phase = IF s.c.ok /\ s.c.len > 0 THEN "BODY" ELSE "DONE"],
        out |-> Append(s.out, [ok |-> s.c.ok, len |-> s.c.len])]

\* Mutant of PumpInline: what was written is not counted.
PumpInlineAgain(s, arg, room) ==
  LET n == Min({s.c.len - s.c.sent, room})
  IN  [c |-> [s.c EXCEPT !.phase = IF n = s.c.len THEN "DONE" ELSE @],
       out |-> s.out \o Body(arg, s.c.sent, n)]

\* The value in the exchange's own buffer, as far as there is room.
PumpInline(s, arg, room) ==
  LET n == Min({s.c.len - s.c.sent, room})
  IN  [c |-> [s.c EXCEPT !.sent = @ + n, !.phase = IF s.c.sent + n = s.c.len THEN "DONE" ELSE @],
       out |-> s.out \o Body(arg, s.c.sent, n)]

\* One round of the loop over an object: read a chunk at pos, write it.  A write that
\* takes a part sets the file back to what is unsent; one that takes nothing does not.
FileRound(s, arg, room) ==
  LET got == Min({s.c.len - s.c.sent, Chunk, Object[arg] - s.c.pos})
      w == Min({got, room - Len(s.out)})
  IN  IF got = 0 THEN [s EXCEPT !.c.phase = "DONE"]
      ELSE IF w = 0 THEN [s EXCEPT !.c.pos = @ + got, !.stop = TRUE]
      ELSE [c |-> [s.c EXCEPT !.sent = @ + w, !.pos = @ + w,
                              !.phase = IF s.c.sent + w = s.c.len THEN "DONE" ELSE @],
            out |-> s.out \o Body(arg, s.c.pos, w), stop |-> w < got]

PumpFile(s, arg, room) ==
  LET Round[k \in 0..(s.c.len + 1)] ==
        IF k = 0 THEN [c |-> s.c, out |-> s.out, stop |-> FALSE]
        ELSE IF Round[k - 1].stop \/ Round[k - 1].c.phase = "DONE" THEN Round[k - 1]
        ELSE FileRound(Round[k - 1], arg, room)
      last == Round[s.c.len + 1]
  IN  [c |-> last.c, out |-> last.out]

PumpBody(s, arg, room) ==
  IF s.c.phase # "BODY" THEN s
  ELSE IF s.c.file THEN PumpFile(s, arg, room) ELSE PumpInline(s, arg, room - Len(s.out))

nornd_serve_conn_pump(c) ==
  LET r == sess[c.f].req
      room == Room - Len(down[c.f])
  IN  PumpBody(PumpStatus(PumpRequest([c |-> c, out |-> <<>>], r)), r.arg, room)

\* serve_host_pump visits one exchange; the last takes the place of one that is done.
serve_host_pump(p, i) ==
  LET C == conns[p]
      s == nornd_serve_conn_pump(C[i])
      f == C[i].f
  IN  /\ conns' = [conns EXCEPT ![p] = IF s.c.phase = "DONE" THEN Front([C EXCEPT ![i] = Last(C)])
                                      ELSE [C EXCEPT ![i] = s.c]]
      /\ down' = [down EXCEPT ![f] = @ \o s.out]
      /\ UNCHANGED <<call, sess, crashed, arrived>>

-----------------------------------------------------------------------------

Peers == {Peer[f] : f \in Fetch}
NoRequest == [verb |-> "connect", arg |-> ""]

ServeInit ==
  /\ call = [f \in Fetch |-> [pc |-> "idle", req |-> NoRequest, stream |-> NoStream, rc |-> 1, out |-> <<>>]]
  /\ sess = [f \in Fetch |-> [pc |-> "idle", req |-> NoRequest, rx |-> <<>>]]
  /\ crashed = {}
  /\ down = [f \in Fetch |-> <<>>]
  /\ arrived = [f \in Fetch |-> FALSE]
  /\ conns = [p \in Peers |-> <<>>]

ServeNext ==
  \/ \E f \in Fetch :
       \/ \E r \in Request : nornd_peer_fetch(f, r)
       \/ \E g \in Fetch : on_session(f, g) \/ DialFailed(f, g)
       \/ \E g \in Fetch, n \in 1..Len(down[f]) : pump_rx(g, f, n)
       \/ DeadFrame(f) \/ TimedOut(f) \/ on_served_accept(f)
  \/ \E p \in Peers : \E i \in DOMAIN conns[p] : serve_host_pump(p, i)

ServeSpec == ServeInit /\ [][ServeNext]_serveVars

-----------------------------------------------------------------------------
(* Properties. *)

\* What the peer p serves in answer to r.
Serves(p, r) ==
  LET name == <<p, r.arg>>
  IN  Body(name, 0, IF r.verb = "cat" THEN Object[name] ELSE Local[name])

\* A call that succeeds hands over the whole of what one peer serves under the name it
\* asked for, though the body was written and read in pieces, exchanges change places in
\* the table, and an exchange that skips part of an object never completes.  The peer
\* is the one it named, unless an earlier call of its daemon returned before its own
\* session was established (peer_fetch.c:185, peer_fetch.c:253).
FetchedIsServed ==
  \A g \in Fetch : call[g].rc = 0 =>
    LET s == call[g].stream
    IN  /\ call[g].out = Serves(Peer[s], call[g].req)
        /\ s = g \/ (call[s].pc = "returned" /\ call[s].stream # s)

\* A key that a call fetches has the value it has at the peer the call named
\* (main.c:895); objects are named by their content, so that any peer's will do.
FetchedFromPeer ==
  \A g \in Fetch : call[g].rc = 0 /\ call[g].req.verb # "cat"
    => call[g].out = Serves(Peer[g], call[g].req)
=============================================================================
