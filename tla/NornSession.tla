----------------------------- MODULE NornSession -----------------------------
(***************************************************************************)
(* Sessions between clients (libnorn/norn_session.c, channel.c,            *)
(* streammux.c and the service registry of norn_impl.c): the handshake of  *)
(* three datagrams on a socket of its own for a dialler and on the shared  *)
(* DHT socket for a listener, the routing of datagrams on that socket, and *)
(* the streams of many services multiplexed over one session.              *)
(*                                                                         *)
(* The network is the set of datagrams ever sent: each may be lost, late,  *)
(* out of order, or come twice.  Ephemeral keys are numbers; a pair of     *)
(* them stands for the session keys derived from it, and a datagram names  *)
(* the pair and the side it is signed or sealed with.  What the bytes of a *)
(* stream go through is NornStream's subject: here a segment only names    *)
(* its stream.  A tick's turn of one session, and each datagram it drains, *)
(* is a step of its own.                                                   *)
(***************************************************************************)
EXTENDS Integers, SequencesExt

CONSTANTS
  Client,            \* each has one identity key, named like the client
  Port,              \* local ports of the sockets of outbound sessions
  Dialer,            \* clients that dial
  Listener,          \* clients that listen and register services
  Agent,             \* clients whose signer may fail (an ssh-agent)
  Faulty,            \* clients whose send may fail
  Service,
  NORN_SVC_DEFAULT,
  NORN_MAX_SERVICES,
  STREAMMUX_MAX,
  MaxSessions,       \* bound: sessions ever created
  MaxKeys,           \* bound: ephemeral keys ever generated
  MaxOpens           \* bound: streams an end opens per service

ASSUME SessionAssumption ==
  /\ 0 \notin Port
  /\ Dialer \subseteq Client /\ Listener \subseteq Client
  /\ Agent \subseteq Client /\ Faulty \subseteq Client
  /\ NORN_SVC_DEFAULT \in Service
  /\ NORN_MAX_SERVICES \in Nat \ {0} /\ STREAMMUX_MAX \in Nat \ {0}
  /\ MaxSessions \in Nat /\ MaxKeys \in Nat /\ MaxOpens \in Nat

VARIABLES
  sess,       \* every session ever created, by number; a number is a pointer
  order,      \* order[c]: client->sessions
  fdOpen,     \* fdOpen[c]: net.fd, the DHT socket, is open
  listening,  \* listening[c]: listen_callback is set
  registry,   \* registry[c]: stream services registered
  up,         \* up[c]: between norn_new and norn_free
  keys,       \* ephemeral keys generated so far
  net         \* datagrams sent so far

clientVars == <<fdOpen, listening, registry, up>>
vars == <<sess, order, clientVars, keys, net>>

\* struct norn_session and struct norn_stream.
Addr == [host : Client, port : Port \cup {0}]
Sid == {k \in Nat : k < 65536}
Stream == [service : Service, sid : Sid, own : BOOLEAN, closed : BOOLEAN, told : BOOLEAN]
Mux == [next : Sid, mux : SUBSET Sid]
State == {"CONNECTING", "ESTABLISHED", "CLOSED"}
HsState == {"NONE", "INIT_SENT", "RESP_SENT", "ESTABLISHED"}

-----------------------------------------------------------------------------
(* Datagrams. *)

Local(r) == [host |-> r.client, port |-> IF r.shared THEN 0 ELSE r.port]

\* channel_transcript: the ephemerals of initiator and responder, by r's role.
Transcript(r) == IF r.init THEN <<r.eph, r.peer_eph>> ELSE <<r.peer_eph, r.eph>>

\* session_dgram_send: from r's own socket, or from the shared one, to its peer.
Datagram(r, kind, v, sid) ==
  [kind |-> kind, from |-> Local(r), to |-> r.peer, pair |-> Transcript(r),
   init |-> r.init, pub |-> r.client, svc |-> v, sid |-> sid]

Handshake(r, kind) == Datagram(r, kind, NORN_SVC_DEFAULT, 0)

\* channel_open: sealed by the other side under the keys this side derived.
Opens(r, m) == r.chan /\ m.pair = Transcript(r) /\ m.init # r.init

\* The descriptor of a shared session is the client's and may have been closed.
CanSend(r) == r.fd /\ (r.shared => fdOpen[r.client])

-----------------------------------------------------------------------------
(* Streams of a session. *)

\* Mutant of FirstId: both ends count from the same number.
SameFirstId(r) == 1

FirstId(r) == IF r.init THEN 1 ELSE 2

\* The mux of service v, made on first use while the table has room.
session_get_svc(r, v) ==
  IF v \in DOMAIN r.svc \/ Cardinality(DOMAIN r.svc) = NORN_MAX_SERVICES THEN r
  ELSE [r EXCEPT !.svc = [x \in DOMAIN r.svc \cup {v} |->
                            IF x = v THEN [next |-> FirstId(r), mux |-> {}] ELSE r.svc[x]]]

HasSlot(r, v, sid) ==
  sid \in r.svc[v].mux \/ Cardinality(r.svc[v].mux) < STREAMMUX_MAX

\* open_stream: find the stream, or give it a slot; slots are never given back.
open_stream(r, v, sid) ==
  IF HasSlot(r, v, sid) THEN [r EXCEPT !.svc[v].mux = @ \cup {sid}] ELSE r

\* streammux_write, streammux_finish and session_mux_send: the segment goes out
\* sealed once the stream has a slot and the session can send.
Segments(r, v, sid) ==
  IF HasSlot(r, v, sid) /\ r.state = "ESTABLISHED" /\ CanSend(r)
  THEN {Datagram(r, "STREAM", v, sid)} ELSE {}

Wrapped(r, v, sid) ==
  \E i \in DOMAIN r.streams : r.streams[i].service = v /\ r.streams[i].sid = sid

\* norn_client_stream_svc, or the session's own handler for the default service:
\* a stream no one is registered for is kept and no one is told of it.
Announced(r, v) == v = NORN_SVC_DEFAULT \/ v \in registry[r.client]

session_maybe_accept_stream(r, v, sid) ==
  IF Wrapped(r, v, sid) THEN r
  ELSE [r EXCEPT !.streams = Append(@, [service |-> v, sid |-> sid, own |-> FALSE,
                                        closed |-> FALSE, told |-> Announced(r, v)])]

-----------------------------------------------------------------------------
(* norn_session_process_packet, as what becomes of session r and what it     *)
(* sends.  signed: the signer answers; sent: the send succeeds.              *)

Same(r) == [r |-> r, out |-> {}]

\* Established: a sealed frame for a stream of some service.  (A frame of kind DGRAM
\* only calls the handler of its service, and is not modelled.)
RecvApp(r, m, sent) ==
  LET s == session_get_svc(r, m.svc)
      t == open_stream(session_maybe_accept_stream(s, m.svc, m.sid), m.svc, m.sid)
  IN  IF ~Opens(r, m) \/ m.kind # "STREAM" THEN Same(r)
      ELSE IF m.svc \notin DOMAIN s.svc THEN Same(r)
      ELSE [r |-> t, out |-> IF sent THEN Segments(t, m.svc, m.sid) ELSE {}]

\* The handshake of channel.c.  A new ephemeral forgets the keys derived with the last.
channel_gen_ephemeral(r, key) == [r EXCEPT !.eph = key, !.peer_eph = 0, !.chan = FALSE]
channel_derive(r, peer_eph) == [r EXCEPT !.peer_eph = peer_eph, !.chan = TRUE]

\* A responder takes any INIT, with a fresh ephemeral each time.
channel_hs_accept(r, m, key) == channel_derive(channel_gen_ephemeral(r, key), m.pair[1])

\* RESP is signed over our own ephemeral.
channel_hs_confirm(r, m) ==
  IF m.pair[1] = r.eph THEN channel_derive(r, m.pair[2]) ELSE r

\* Mutant of channel_hs_finish: any CONFIRM will do.
FinishAny(r, m) == m.kind = "CONFIRM"

\* CONFIRM is sealed under the keys of this handshake, and signed by the initiator.
channel_hs_finish(r, m) == m.kind = "CONFIRM" /\ Opens(r, m) /\ m.pub = r.peer_pubkey

\* norn_session_confirm_resp and what follows it.  The state is ESTABLISHED before
\* CONFIRM is sent, the callback comes after it.
RecvResp(r, m, signed, sent) ==
  LET derived == channel_hs_confirm(r, m)
      agreed == [derived EXCEPT !.peer_pubkey = m.pub, !.state = "ESTABLISHED"]
  IN  IF m.kind # "RESP" \/ m.pair[1] # r.eph THEN Same(r)
      ELSE IF ~signed THEN Same(derived)
      ELSE IF ~sent THEN Same(agreed)
      ELSE [r |-> [agreed EXCEPT !.hs = "ESTABLISHED", !.told = TRUE],
            out |-> {Handshake(agreed, "CONFIRM")}]

\* Mutant of RecvInit: the responder does not note that it has answered.
RecvInitAgain(r, m, signed, sent, key) ==
  LET derived == channel_hs_accept(r, m, key)
      agreed == [derived EXCEPT !.peer_pubkey = m.pub]
  IN  IF m.kind # "INIT" THEN Same(r)
      ELSE IF ~signed THEN Same(derived)
      ELSE IF ~sent THEN Same(agreed)
      ELSE [r |-> agreed, out |-> {Handshake(agreed, "RESP")}]

\* norn_session_accept_init and what follows it.
RecvInit(r, m, signed, sent, key) ==
  LET derived == channel_hs_accept(r, m, key)
      agreed == [derived EXCEPT !.peer_pubkey = m.pub]
  IN  IF m.kind # "INIT" THEN Same(r)
      ELSE IF ~signed THEN Same(derived)
      ELSE IF ~sent THEN Same(agreed)
      ELSE [r |-> [agreed EXCEPT !.hs = "RESP_SENT"], out |-> {Handshake(agreed, "RESP")}]

\* norn_session_finish_confirm and what follows it.
RecvConfirm(r, m) ==
  IF ~channel_hs_finish(r, m) THEN Same(r)
  ELSE Same([r EXCEPT !.hs = "ESTABLISHED", !.state = "ESTABLISHED", !.told = TRUE])

process_packet(r, m, signed, sent, key) ==
  CASE m.from # r.peer -> Same(r)
    [] m.from = r.peer /\ r.state = "ESTABLISHED" -> RecvApp(r, m, sent)
    [] m.from = r.peer /\ r.state = "CONNECTING" /\ r.init /\ r.hs = "INIT_SENT" ->
         RecvResp(r, m, signed, sent)
    [] m.from = r.peer /\ r.state = "CONNECTING" /\ ~r.init /\ r.hs = "NONE" ->
         RecvInit(r, m, signed, sent, key)
    [] m.from = r.peer /\ r.state = "CONNECTING" /\ ~r.init /\ r.hs = "RESP_SENT" ->
         RecvConfirm(r, m)
    [] OTHER -> Same(r)

\* What signing and sending may come to on client c.
Signed(c) == IF c \in Agent THEN BOOLEAN ELSE {TRUE}
Sent(r) == {b \in BOOLEAN : (b => CanSend(r)) /\ (~b => ~CanSend(r) \/ r.client \in Faulty)}

\* The session at number s becomes o.r, and what it sends is under way.
Becomes(s, o) ==
  /\ o.r.eph <= MaxKeys
  /\ sess' = [sess EXCEPT ![s] = o.r]
  /\ keys' = IF o.r.eph > keys THEN o.r.eph ELSE keys
  /\ net' = net \cup o.out
  /\ UNCHANGED <<order, clientVars>>

-----------------------------------------------------------------------------
(* The client's calls. *)

Live(s) == ~sess[s].freed /\ up[sess[s].client]
Sessions(c) == {s \in DOMAIN sess : ~sess[s].freed /\ sess[s].client = c}

\* norn_session_new; key 0 until the handshake generates the one it uses.
session_new(c, init, shared, port, peer) ==
  [client |-> c, init |-> init, shared |-> shared, port |-> port, fd |-> TRUE,
   state |-> "CONNECTING", hs |-> "NONE", peer |-> peer, peer_pubkey |-> peer.host,
   eph |-> 0, peer_eph |-> 0, chan |-> FALSE, told |-> FALSE, freed |-> FALSE,
   svc |-> <<>>, streams |-> <<>>]

norn_listen_async(c) ==
  /\ fdOpen[c] /\ ~listening[c]
  /\ listening' = [listening EXCEPT ![c] = TRUE]
  /\ UNCHANGED <<sess, order, fdOpen, registry, up, keys, net>>

\* norn_register_stream_service: a service once, while the table has room.
norn_register_stream_service(c, v) ==
  /\ v \notin registry[c] /\ Cardinality(registry[c]) < NORN_MAX_SERVICES
  /\ registry' = [registry EXCEPT ![c] = @ \cup {v}]
  /\ UNCHANGED <<sess, order, fdOpen, listening, up, keys, net>>

\* A local port is free when no open socket of the client has it: the port of a
\* closed session is used again.
norn_dial_direct_async(c, d, p) ==
  /\ Len(sess) < MaxSessions
  /\ \A s \in Sessions(c) : sess[s].fd => sess[s].port # p
  /\ sess' = Append(sess, session_new(c, TRUE, FALSE, p, [host |-> d, port |-> 0]))
  /\ order' = [order EXCEPT ![c] = Append(@, Len(sess) + 1)]
  /\ UNCHANGED <<clientVars, keys, net>>

norn_session_build_init(r) == channel_gen_ephemeral(r, keys + 1)

\* norn_client_tick_sessions: norn_session_send_pending builds INIT with a fresh
\* ephemeral, again on the next tick when the send fails.
norn_session_send_pending(s) ==
  LET r == norn_session_build_init(sess[s])
  IN  /\ r.state = "CONNECTING" /\ r.fd /\ r.init /\ r.hs = "NONE" /\ keys < MaxKeys
      /\ \E sent \in Sent(r) :
           Becomes(s, IF sent THEN [r |-> [r EXCEPT !.hs = "INIT_SENT"],
                                    out |-> {Handshake(r, "INIT")}]
                      ELSE Same(r))

\* The tick drains the session's own socket, which is connected to the peer.
RecvOwn(s, m) ==
  /\ sess[s].state # "CLOSED" /\ sess[s].fd /\ ~sess[s].shared
  /\ m.to = Local(sess[s]) /\ m.from = sess[s].peer
  /\ \E signed \in Signed(sess[s].client), sent \in Sent(sess[s]) :
       Becomes(s, process_packet(sess[s], m, signed, sent, keys + 1))

\* Mutant of Route: sessions still in their handshake are passed over.
RouteEstablished(c, m) ==
  {i \in DOMAIN order[c] : LET r == sess[order[c][i]]
                           IN  r.shared /\ r.state = "ESTABLISHED" /\ r.peer = m.from}

\* The places in the list of the inbound sessions of a sender's address.
Route(c, m) ==
  {i \in DOMAIN order[c] : LET r == sess[order[c][i]]
                           IN  r.shared /\ r.state # "CLOSED" /\ r.peer = m.from}

\* accept_or_route, called by dispatch_response for every datagram on the shared
\* socket: the first matching session takes it; else it must look like a handshake
\* message, and makes a session that is handed to listen_callback whatever becomes
\* of the message.
accept_or_route(c, m) ==
  /\ fdOpen[c] /\ m.to = [host |-> c, port |-> 0]
  /\ \/ \E i \in Route(c, m) :
          LET s == order[c][i]
          IN  /\ \A j \in Route(c, m) : i <= j
              /\ \E signed \in Signed(c), sent \in Sent(sess[s]) :
                   Becomes(s, process_packet(sess[s], m, signed, sent, keys + 1))
     \/ /\ Route(c, m) = {}
        /\ listening[c] /\ m.kind \in {"INIT", "RESP", "CONFIRM"} /\ Len(sess) < MaxSessions
        /\ LET r == session_new(c, FALSE, TRUE, 0, m.from)
           IN  \E signed \in Signed(c), sent \in Sent(r) :
                 LET o == process_packet(r, m, signed, sent, keys + 1)
                 IN  /\ o.r.eph <= MaxKeys
                     /\ sess' = Append(sess, o.r)
                     /\ order' = [order EXCEPT ![c] = Append(@, Len(sess) + 1)]
                     /\ keys' = IF o.r.eph > keys THEN o.r.eph ELSE keys
                     /\ net' = net \cup o.out
                     /\ UNCHANGED clientVars

\* norn_session_close_async: the descriptor is closed even when it is the client's.
norn_session_close_async(s) ==
  /\ sess[s].state # "CLOSED"
  /\ sess' = [sess EXCEPT ![s].state = "CLOSED", ![s].fd = FALSE]
  /\ fdOpen' = IF sess[s].fd /\ sess[s].shared
               THEN [fdOpen EXCEPT ![sess[s].client] = FALSE] ELSE fdOpen
  /\ UNCHANGED <<order, listening, registry, up, keys, net>>

\* norn_client_remove_session: the last takes the place of the one removed.
Removed(q, s) ==
  LET i == CHOOSE j \in DOMAIN q : q[j] = s
  IN  Front([q EXCEPT ![i] = Last(q)])

\* norn_session_free leaves a shared descriptor open.
norn_session_free(s) ==
  /\ sess' = [sess EXCEPT ![s].freed = TRUE, ![s].fd = FALSE]
  /\ order' = [order EXCEPT ![sess[s].client] = Removed(@, s)]
  /\ UNCHANGED <<clientVars, keys, net>>

\* norn_free walks the list that norn_session_free swaps its last entry into: the
\* second half is never reached, and is left with its sockets open.  In what order it
\* is left no one sees any more.
norn_free(c) ==
  LET q == order[c]
      half == (Len(q) + 1) \div 2
      reached == {q[i] : i \in 1..half}
  IN  /\ sess' = [s \in DOMAIN sess |->
                   IF s \in reached THEN [sess[s] EXCEPT !.freed = TRUE, !.fd = FALSE]
                   ELSE sess[s]]
      /\ order' = [order EXCEPT ![c] = SubSeq(q, half + 1, Len(q))]
      /\ up' = [up EXCEPT ![c] = FALSE]
      /\ fdOpen' = [fdOpen EXCEPT ![c] = FALSE]
      /\ UNCHANGED <<listening, registry, keys, net>>

-----------------------------------------------------------------------------
(* Streams. *)

\* norn_stream_open_svc: the number is spent even when the mux has no slot left.
norn_stream_open_svc(s, v) ==
  LET r == session_get_svc(sess[s], v)
      id == r.svc[v].next
      spent == [r EXCEPT !.svc[v].next = (@ + 2) % 65536]
  IN  /\ sess[s].state = "ESTABLISHED" /\ v \in DOMAIN r.svc /\ id <= 2 * MaxOpens
      /\ Becomes(s, Same(
           IF ~HasSlot(r, v, id) THEN spent
           ELSE [open_stream(spent, v, id) EXCEPT !.streams =
                   Append(@, [service |-> v, sid |-> id, own |-> TRUE,
                              closed |-> FALSE, told |-> TRUE])]))

\* norn_stream_write and norn_stream_close of the wrapper i; norn_stream_reset sends
\* nothing to the peer.
norn_stream_write(s, i) ==
  LET t == sess[s].streams[i]
      r == open_stream(sess[s], t.service, t.sid)
  IN  /\ ~t.closed
      /\ Becomes(s, [r |-> r, out |-> Segments(r, t.service, t.sid)])

norn_stream_close(s, i) ==
  LET t == sess[s].streams[i]
      r == open_stream(sess[s], t.service, t.sid)
  IN  /\ ~t.closed
      /\ Becomes(s, [r |-> [r EXCEPT !.streams[i].closed = TRUE],
                     out |-> Segments(r, t.service, t.sid)])

norn_stream_reset(s, i) ==
  /\ ~sess[s].streams[i].closed
  /\ Becomes(s, Same([sess[s] EXCEPT !.streams[i].closed = TRUE]))

-----------------------------------------------------------------------------

Init ==
  /\ sess = <<>>
  /\ order = [c \in Client |-> <<>>]
  /\ fdOpen = [c \in Client |-> TRUE]
  /\ listening = [c \in Client |-> FALSE]
  /\ registry = [c \in Client |-> {}]
  /\ up = [c \in Client |-> TRUE]
  /\ keys = 0 /\ net = {}

Next ==
  \/ \E c \in Listener : up[c] /\
       (norn_listen_async(c) \/ \E v \in Service : norn_register_stream_service(c, v))
  \/ \E c \in Client, m \in net : accept_or_route(c, m)
  \/ \E c \in Client : up[c] /\ norn_free(c)
  \/ \E c \in Dialer, d \in Client, p \in Port : up[c] /\ c # d /\ norn_dial_direct_async(c, d, p)
  \/ \E s \in DOMAIN sess :
    /\ Live(s)
    /\ \/ norn_session_send_pending(s)
       \/ \E m \in net : RecvOwn(s, m)
       \/ norn_session_close_async(s)
       \/ norn_session_free(s)
       \/ \E v \in Service : norn_stream_open_svc(s, v)
       \/ \E i \in DOMAIN sess[s].streams :
            norn_stream_write(s, i) \/ norn_stream_close(s, i) \/ norn_stream_reset(s, i)

Spec == Init /\ [][Next]_vars

-----------------------------------------------------------------------------
(* Properties. *)

\* Types; and a session has at most NORN_MAX_SERVICES muxes of STREAMMUX_MAX streams.
TypeOK ==
  /\ \A s \in DOMAIN sess :
       LET r == sess[s]
       IN  /\ r.client \in Client /\ r.peer \in Addr /\ r.peer_pubkey \in Client
           /\ r.state \in State /\ r.hs \in HsState
           /\ r.eph \in 0..MaxKeys /\ r.peer_eph \in 0..MaxKeys
           /\ Cardinality(DOMAIN r.svc) <= NORN_MAX_SERVICES
           /\ \A v \in DOMAIN r.svc :
                r.svc[v] \in Mux /\ Cardinality(r.svc[v].mux) <= STREAMMUX_MAX
           /\ \A i \in DOMAIN r.streams : r.streams[i] \in Stream
  /\ \A c \in Client : Range(order[c]) = Sessions(c)
  /\ keys \in 0..MaxKeys

\* Two ends that derived the same keys.
Agree(i, r) ==
  i.init /\ ~r.init /\ i.chan /\ r.chan /\ Transcript(i) = Transcript(r)

\* A responder is ESTABLISHED only with an initiator that derived the same keys,
\* took it for whom it is, and had itself reached ESTABLISHED, whatever old messages
\* of other sessions, of the same address too, came in between.
ResponderAgrees ==
  \A s \in DOMAIN sess : (~sess[s].init /\ sess[s].hs = "ESTABLISHED") =>
    \E t \in DOMAIN sess :
      /\ Agree(sess[t], sess[s]) /\ sess[t].state # "CONNECTING"
      /\ sess[t].peer_pubkey = sess[s].client /\ sess[s].peer_pubkey = sess[t].client

\* An initiator that is ESTABLISHED has, or had until it was freed, a session at its
\* peer with the same keys: a second copy of INIT does not make the responder
\* start again with other keys.
InitiatorHasPeer ==
  \A s \in DOMAIN sess : (sess[s].init /\ sess[s].state = "ESTABLISHED") =>
    \E t \in DOMAIN sess : Agree(sess[s], sess[t])

\* A client never has two open inbound sessions of one address, which would share
\* what that address sends by their place in the list.
OneInboundPerPeer ==
  \A c \in Client : \A s, t \in Sessions(c) :
    /\ sess[s].shared /\ sess[t].shared
    /\ sess[s].state # "CLOSED" /\ sess[t].state # "CLOSED"
    /\ sess[s].peer = sess[t].peer
    => s = t

\* The streams of the two ends of a session: a stream has one wrapper at each end,
\* none is opened by both, and one that was accepted was opened by the other.
StreamsAgree ==
  /\ \A s \in DOMAIN sess : \A i, j \in DOMAIN sess[s].streams :
       /\ sess[s].streams[i].service = sess[s].streams[j].service
       /\ sess[s].streams[i].sid = sess[s].streams[j].sid
       => i = j
  /\ \A s, t \in DOMAIN sess :
       (Agree(sess[s], sess[t]) \/ Agree(sess[t], sess[s])) =>
         \A i \in DOMAIN sess[s].streams :
           ~sess[s].streams[i].own <=>
             \E j \in DOMAIN sess[t].streams :
               /\ sess[t].streams[j].own
               /\ sess[t].streams[j].service = sess[s].streams[i].service
               /\ sess[t].streams[j].sid = sess[s].streams[i].sid
=============================================================================
