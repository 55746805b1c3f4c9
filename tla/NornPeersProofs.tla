--------------------------- MODULE NornPeersProofs --------------------------
(***************************************************************************)
(* Theorems about what happens between nodes.                              *)
(*                                                                         *)
(* NornSession, for every number of clients, sessions, keys, datagrams and *)
(* streams, under loss, delay, reordering and duplication: what the two    *)
(* ends of a session know of each other, and that a client has one open    *)
(* inbound session per address.                                            *)
(*                                                                         *)
(* NornNat, for every number of dials, packets, observers and network      *)
(* changes: a dial is answered at most once, and the address the node goes *)
(* by was reported often enough since it last moved.                       *)
(*                                                                         *)
(* NornCluster, for every number of nodes and of writes: at most one node  *)
(* holds the claim of a single-owner key, each going by its own replica,   *)
(* however old that is.  A node that owns the key by its replica has seen  *)
(* itself written there.  Only a release of its own undoes that, it has    *)
(* none under way before it gives the claim up, and so every replica that  *)
(* is ahead of its own shows it still.                                     *)
(***************************************************************************)
EXTENDS NornSession, NornNat, NornCluster, SequenceTheorems, FiniteSetTheorems, TLAPS

-----------------------------------------------------------------------------
(* Types. *)

Muxes == UNION {[S -> Mux] : S \in SUBSET Service}

Session ==
  [client : Client, init : BOOLEAN, shared : BOOLEAN, port : Port \cup {0}, fd : BOOLEAN,
   state : State, hs : HsState, peer : Addr, peer_pubkey : Client, eph : Nat, peer_eph : Nat,
   chan : BOOLEAN, told : BOOLEAN, freed : BOOLEAN, svc : Muxes, streams : Seq(Stream)]

Dgram ==
  [kind : {"INIT", "RESP", "CONFIRM", "STREAM"}, from : Addr, to : Addr, pair : Nat \X Nat,
   init : BOOLEAN, pub : Client, svc : Service, sid : Sid]

\* A datagram carries what its session is at.
LEMMA DatagramType ==
  ASSUME NEW r \in Session, NEW k \in {"INIT", "RESP", "CONFIRM", "STREAM"},
         NEW v \in Service, NEW sid \in Sid
  PROVE  /\ Datagram(r, k, v, sid) \in Dgram
         /\ Datagram(r, k, v, sid).kind = k
         /\ Datagram(r, k, v, sid).pair = Transcript(r)
         /\ Datagram(r, k, v, sid).pub = r.client
         /\ Datagram(r, k, v, sid).svc = v
         /\ Datagram(r, k, v, sid).sid = sid
<1>1. Local(r) \in Addr
  BY DEF Local, Addr, Session
<1>2. Transcript(r) \in Nat \X Nat
  BY DEF Transcript, Session
<1>3. r.peer \in Addr /\ r.init \in BOOLEAN /\ r.client \in Client
  BY DEF Session
<1> DEFINE from == Local(r)
           pair == Transcript(r)
           m == [kind |-> k, from |-> from, to |-> r.peer, pair |-> pair,
                 init |-> r.init, pub |-> r.client, svc |-> v, sid |-> sid]
<1>4. m = Datagram(r, k, v, sid)
  BY DEF Datagram
<1> HIDE DEF from, pair
<1>5. m \in Dgram
  BY <1>1, <1>2, <1>3 DEF Dgram, from, pair
<1>6. m.kind = k /\ m.pair = pair /\ m.pub = r.client /\ m.svc = v /\ m.sid = sid
  OBVIOUS
<1> HIDE DEF m
<1> QED
  BY <1>4, <1>5, <1>6 DEF pair

-----------------------------------------------------------------------------
(* What the operations make of a session. *)

SameWho(r, q) ==
  q.client = r.client /\ q.init = r.init /\ q.shared = r.shared /\ q.peer = r.peer

\* Nothing but the streams, the descriptor and what was told changes.
SameShake(r, q) ==
  /\ SameWho(r, q)
  /\ q.eph = r.eph /\ q.peer_eph = r.peer_eph /\ q.chan = r.chan
  /\ q.hs = r.hs /\ q.peer_pubkey = r.peer_pubkey

Quiet(r, q) == SameShake(r, q) /\ q.state = r.state /\ q.freed = r.freed

WithStreams(r, x) == [r EXCEPT !.streams = x]
WithSvc(r, y) == [r EXCEPT !.svc = y]

LEMMA StreamsQuiet ==
  ASSUME NEW r \in Session, NEW x \in Seq(Stream)
  PROVE  WithStreams(r, x) \in Session /\ Quiet(r, WithStreams(r, x))
BY DEF Session, Quiet, SameShake, SameWho, WithStreams

LEMMA SvcQuiet ==
  ASSUME NEW r \in Session, NEW y \in Muxes
  PROVE  WithSvc(r, y) \in Session /\ Quiet(r, WithSvc(r, y))
BY DEF Session, Quiet, SameShake, SameWho, WithSvc

LEMMA QuietTrans ==
  ASSUME NEW a, NEW b, NEW c, Quiet(a, b), Quiet(b, c)
  PROVE  Quiet(a, c)
BY DEF Quiet, SameShake, SameWho

LEMMA GetSvcQuiet ==
  ASSUME NEW r \in Session, NEW v \in Service
  PROVE  session_get_svc(r, v) \in Session /\ Quiet(r, session_get_svc(r, v))
<1> DEFINE new == [next |-> FirstId(r), mux |-> {}]
           y == [x \in DOMAIN r.svc \cup {v} |-> IF x = v THEN new ELSE r.svc[x]]
<1>1. new \in Mux
  BY DEF FirstId, Mux, Sid
<1>2. PICK S \in SUBSET Service : r.svc \in [S -> Mux]
  BY DEF Session, Muxes
<1> HIDE DEF new
<1>3. y \in [S \cup {v} -> Mux]
  BY <1>1, <1>2
<1>4. y \in Muxes
  BY <1>3 DEF Muxes
<1> HIDE DEF y
<1>5. WithSvc(r, y) \in Session /\ Quiet(r, WithSvc(r, y))
  BY <1>4, SvcQuiet
<1>6. session_get_svc(r, v) = r \/ session_get_svc(r, v) = WithSvc(r, y)
  BY DEF WithSvc, session_get_svc, y, new
<1>7. Quiet(r, r)
  BY DEF Quiet, SameShake, SameWho
<1> QED
  BY <1>5, <1>6, <1>7

LEMMA OpenQuiet ==
  ASSUME NEW r \in Session, NEW v, NEW sid \in Sid
  PROVE  open_stream(r, v, sid) \in Session /\ Quiet(r, open_stream(r, v, sid))
<1> DEFINE x == [r.svc[v] EXCEPT !.mux = @ \cup {sid}]
           y == [r.svc EXCEPT ![v] = x]
<1>1. PICK S \in SUBSET Service : r.svc \in [S -> Mux]
  BY DEF Session, Muxes
<1>2. ASSUME NEW e \in Mux PROVE [e EXCEPT !.mux = @ \cup {sid}] \in Mux
  BY DEF Mux
<1>3. y \in [S -> Mux]
  <2>1. CASE v \in S
    <3>1. x \in Mux
      BY <1>1, <1>2, <2>1
    <3> HIDE DEF x
    <3> QED
      BY <1>1, <3>1
  <2>2. CASE v \notin S
    <3> HIDE DEF x
    <3>1. y = r.svc
      BY <1>1, <2>2
    <3> QED
      BY <1>1, <3>1
  <2> QED
    BY <2>1, <2>2
<1>4. y \in Muxes
  BY <1>3 DEF Muxes
<1> HIDE DEF y
<1>5. WithSvc(r, y) \in Session /\ Quiet(r, WithSvc(r, y))
  BY <1>4, SvcQuiet
<1>6. open_stream(r, v, sid) = r \/ open_stream(r, v, sid) = WithSvc(r, y)
  BY DEF WithSvc, open_stream, y, x
<1>7. Quiet(r, r)
  BY DEF Quiet, SameShake, SameWho
<1> QED
  BY <1>5, <1>6, <1>7

LEMMA AcceptQuiet ==
  ASSUME NEW r \in Session, NEW v \in Service, NEW sid \in Sid
  PROVE  /\ session_maybe_accept_stream(r, v, sid) \in Session
         /\ Quiet(r, session_maybe_accept_stream(r, v, sid))
<1> DEFINE t == [service |-> v, sid |-> sid, own |-> FALSE, closed |-> FALSE,
                 told |-> Announced(r, v)]
           x == Append(r.streams, t)
<1>1. Announced(r, v) \in BOOLEAN
  BY DEF Announced
<1>2. t \in Stream
  BY <1>1 DEF Stream
<1>3. r.streams \in Seq(Stream)
  BY DEF Session
<1> HIDE DEF t
<1>4. x \in Seq(Stream)
  BY <1>2, <1>3, AppendProperties
<1> HIDE DEF x
<1>5. WithStreams(r, x) \in Session /\ Quiet(r, WithStreams(r, x))
  BY <1>4, StreamsQuiet
<1>6. \/ session_maybe_accept_stream(r, v, sid) = r
      \/ session_maybe_accept_stream(r, v, sid) = WithStreams(r, x)
  BY DEF WithStreams, session_maybe_accept_stream, x, t
<1>7. Quiet(r, r)
  BY DEF Quiet, SameShake, SameWho
<1> QED
  BY <1>5, <1>6, <1>7

\* What goes out on a stream.
LEMMA SegmentsType ==
  ASSUME NEW r \in Session, NEW v \in Service, NEW sid \in Sid,
         NEW m \in Segments(r, v, sid)
  PROVE  m \in Dgram /\ m.kind = "STREAM"
<1>1. m = Datagram(r, "STREAM", v, sid)
  BY DEF Segments
<1> QED
  BY <1>1, DatagramType
-----------------------------------------------------------------------------
(* What a packet, and a tick, make of a session r: q, which sends out.       *)

\* A tick builds INIT.
Drew(r, q, out, key) ==
  /\ r.init /\ r.state = "CONNECTING" /\ r.hs = "NONE"
  /\ q.eph = key /\ q.state = "CONNECTING"
  /\ \A d \in out : d.kind = "INIT"

\* A responder takes INIT; it has answered once it notes so.
AnsweredBy(r, q, out, key) ==
  /\ ~r.init /\ r.state = "CONNECTING" /\ r.hs = "NONE"
  /\ q.eph = key /\ q.state = "CONNECTING"
  /\ \/ q.hs = "NONE" /\ out = {}
     \/ /\ q.hs = "RESP_SENT" /\ q.chan
        /\ \A d \in out : d.kind = "RESP" /\ d.pair = Transcript(q) /\ d.pub = q.client

\* An initiator takes RESP, and its signer fails.
Derived(r, q, out) ==
  /\ r.init /\ r.state = "CONNECTING"
  /\ q.eph = r.eph /\ q.state = "CONNECTING"
  /\ out = {}

\* An initiator takes RESP.
Agreed(r, q, out, m) ==
  /\ r.init /\ r.state = "CONNECTING" /\ m.kind = "RESP" /\ m.pair[1] = r.eph
  /\ q.eph = r.eph /\ q.peer_eph = m.pair[2] /\ q.chan
  /\ q.peer_pubkey = m.pub /\ q.state = "ESTABLISHED"
  /\ \A d \in out : d.kind = "CONFIRM" /\ d.pair = Transcript(q) /\ d.pub = q.client

\* A responder takes CONFIRM.
Confirmed(r, q, out, m) ==
  /\ ~r.init /\ r.state = "CONNECTING" /\ r.hs = "RESP_SENT" /\ channel_hs_finish(r, m)
  /\ q.eph = r.eph /\ q.peer_eph = r.peer_eph /\ q.chan = r.chan
  /\ q.peer_pubkey = r.peer_pubkey /\ q.hs = "ESTABLISHED" /\ q.state = "ESTABLISHED"
  /\ out = {}

Evolves(r, q, out, m, key) ==
  /\ SameWho(r, q) /\ q.freed = r.freed
  /\ \/ Quiet(r, q) /\ \A d \in out : d.kind = "STREAM"
     \/ Drew(r, q, out, key) \/ AnsweredBy(r, q, out, key)
     \/ Derived(r, q, out) \/ Agreed(r, q, out, m) \/ Confirmed(r, q, out, m)

Sound(r, o, m, key) == o.r \in Session /\ o.out \subseteq Dgram /\ Evolves(r, o.r, o.out, m, key)

LEMMA SameSound ==
  ASSUME NEW r \in Session, NEW m, NEW key
  PROVE  Sound(r, Same(r), m, key)
<1>1. Same(r).r = r /\ Same(r).out = {}
  BY DEF Same
<1>2. Quiet(r, r) /\ SameWho(r, r)
  BY DEF Quiet, SameShake, SameWho
<1> QED
  BY <1>1, <1>2 DEF Sound, Evolves

LEMMA QuietSound ==
  ASSUME NEW r \in Session, NEW q \in Session, Quiet(r, q), NEW out \in SUBSET Dgram,
         \A d \in out : d.kind = "STREAM", NEW m, NEW key
  PROVE  Sound(r, [r |-> q, out |-> out], m, key)
<1> DEFINE o == [r |-> q, out |-> out]
<1>1. o.r = q /\ o.out = out
  OBVIOUS
<1>2. SameWho(r, q) /\ q.freed = r.freed
  BY DEF Quiet, SameShake
<1> HIDE DEF o
<1>3. Sound(r, o, m, key)
  BY <1>1, <1>2 DEF Sound, Evolves
<1> QED
  BY <1>3 DEF o

LEMMA AppSound ==
  ASSUME NEW r \in Session, NEW m \in Dgram, NEW sent, NEW key
  PROVE  Sound(r, RecvApp(r, m, sent), m, key)
<1> DEFINE s == session_get_svc(r, m.svc)
           a == session_maybe_accept_stream(s, m.svc, m.sid)
           t == open_stream(a, m.svc, m.sid)
           out == IF sent THEN Segments(t, m.svc, m.sid) ELSE {}
<1>1. m.svc \in Service /\ m.sid \in Sid
  BY DEF Dgram
<1>2. s \in Session /\ Quiet(r, s)
  BY <1>1, GetSvcQuiet
<1> HIDE DEF s
<1>3. a \in Session /\ Quiet(s, a)
  BY <1>1, <1>2, AcceptQuiet
<1> HIDE DEF a
<1>4. t \in Session /\ Quiet(a, t)
  BY <1>1, <1>3, OpenQuiet
<1> HIDE DEF t
<1>5. Quiet(r, t)
  BY <1>2, <1>3, <1>4, QuietTrans
<1>6. out \in SUBSET Dgram /\ \A d \in out : d.kind = "STREAM"
  BY <1>1, <1>4, SegmentsType
<1> HIDE DEF out
<1>7. Sound(r, [r |-> t, out |-> out], m, key)
  BY <1>4, <1>5, <1>6, QuietSound
<1>8. RecvApp(r, m, sent) = Same(r) \/ RecvApp(r, m, sent) = [r |-> t, out |-> out]
  BY DEF RecvApp, s, a, t, out
<1> QED
  BY <1>7, <1>8, SameSound

LEMMA RespSound ==
  ASSUME NEW r \in Session, NEW m \in Dgram, NEW signed, NEW sent, NEW key,
         r.init, r.state = "CONNECTING"
  PROVE  Sound(r, RecvResp(r, m, signed, sent), m, key)
<1> DEFINE derived == channel_derive(r, m.pair[2])
           agreed == [derived EXCEPT !.peer_pubkey = m.pub, !.state = "ESTABLISHED"]
           told == [agreed EXCEPT !.hs = "ESTABLISHED", !.told = TRUE]
           d == Handshake(agreed, "CONFIRM")
<1>0. m.pair[2] \in Nat /\ m.pub \in Client
  BY DEF Dgram
<1>1. /\ derived \in Session /\ SameWho(r, derived) /\ derived.freed = r.freed
      /\ derived.eph = r.eph /\ derived.state = "CONNECTING"
      /\ derived.peer_eph = m.pair[2] /\ derived.chan
  BY <1>0 DEF channel_derive, Session, SameWho
<1> HIDE DEF derived
<1>2. /\ agreed \in Session /\ SameWho(derived, agreed) /\ agreed.freed = derived.freed
      /\ agreed.eph = derived.eph /\ agreed.peer_eph = derived.peer_eph
      /\ agreed.chan = derived.chan /\ agreed.peer_pubkey = m.pub
      /\ agreed.state = "ESTABLISHED"
  BY <1>0, <1>1 DEF Session, SameWho, State
<1> HIDE DEF agreed
<1>3. /\ told \in Session /\ SameWho(agreed, told) /\ told.freed = agreed.freed
      /\ told.eph = agreed.eph /\ told.peer_eph = agreed.peer_eph
      /\ told.chan = agreed.chan /\ told.peer_pubkey = agreed.peer_pubkey
      /\ told.state = agreed.state /\ Transcript(told) = Transcript(agreed)
  BY <1>2 DEF Session, SameWho, HsState, Transcript
<1> HIDE DEF told
<1>4. /\ d \in Dgram /\ d.kind = "CONFIRM" /\ d.pair = Transcript(agreed)
      /\ d.pub = agreed.client
  <2>1. NORN_SVC_DEFAULT \in Service /\ 0 \in Sid
    BY SessionAssumption DEF Sid
  <2> QED
    BY <1>2, <2>1, DatagramType DEF Handshake
<1> HIDE DEF d
<1>5. SameWho(r, agreed) /\ SameWho(r, told)
  BY <1>1, <1>2, <1>3 DEF SameWho
<1>6. Sound(r, Same(derived), m, key)
  <2>1. Same(derived).r = derived /\ Same(derived).out = {}
    BY DEF Same
  <2>2. Derived(r, derived, {})
    BY <1>1 DEF Derived
  <2> QED
    BY <1>1, <2>1, <2>2 DEF Sound, Evolves
<1>7. ASSUME m.kind = "RESP", m.pair[1] = r.eph PROVE Sound(r, Same(agreed), m, key)
  <2>1. Same(agreed).r = agreed /\ Same(agreed).out = {}
    BY DEF Same
  <2>2. Agreed(r, agreed, {}, m)
    BY <1>1, <1>2, <1>7 DEF Agreed
  <2> QED
    BY <1>1, <1>2, <1>5, <2>1, <2>2 DEF Sound, Evolves
<1>8. ASSUME m.kind = "RESP", m.pair[1] = r.eph
      PROVE  Sound(r, [r |-> told, out |-> {d}], m, key)
  <2> DEFINE o == [r |-> told, out |-> {d}]
  <2>1. o.r = told /\ o.out = {d}
    OBVIOUS
  <2>2. Agreed(r, told, {d}, m)
    BY <1>1, <1>2, <1>3, <1>4, <1>5, <1>8 DEF Agreed, SameWho
  <2> HIDE DEF o
  <2>3. Sound(r, o, m, key)
    BY <1>1, <1>2, <1>3, <1>4, <1>5, <2>1, <2>2 DEF Sound, Evolves
  <2> QED
    BY <2>3 DEF o
<1>9. CASE m.kind # "RESP" \/ m.pair[1] # r.eph
  <2>1. RecvResp(r, m, signed, sent) = Same(r)
    BY <1>9 DEF RecvResp
  <2> QED
    BY <2>1, SameSound
<1>10. CASE m.kind = "RESP" /\ m.pair[1] = r.eph
  <2>1. channel_hs_confirm(r, m) = derived
    BY <1>10 DEF channel_hs_confirm, derived
  <2>2. \/ RecvResp(r, m, signed, sent) = Same(derived)
        \/ RecvResp(r, m, signed, sent) = Same(agreed)
        \/ RecvResp(r, m, signed, sent) = [r |-> told, out |-> {d}]
    BY <1>10, <2>1 DEF RecvResp, agreed, told, d
  <2> QED
    BY <1>6, <1>7, <1>8, <1>10, <2>2
<1> QED
  BY <1>9, <1>10

LEMMA InitSound ==
  ASSUME NEW r \in Session, NEW m \in Dgram, NEW signed, NEW sent, NEW key \in Nat,
         ~r.init, r.state = "CONNECTING", r.hs = "NONE"
  PROVE  Sound(r, RecvInit(r, m, signed, sent, key), m, key)
<1> DEFINE drawn == channel_gen_ephemeral(r, key)
           derived == channel_derive(drawn, m.pair[1])
           agreed == [derived EXCEPT !.peer_pubkey = m.pub]
           sentR == [agreed EXCEPT !.hs = "RESP_SENT"]
           d == Handshake(agreed, "RESP")
<1>0. m.pair[1] \in Nat /\ m.pub \in Client
  BY DEF Dgram
<1>1. /\ drawn \in Session /\ SameWho(r, drawn) /\ drawn.freed = r.freed
      /\ drawn.eph = key /\ drawn.state = "CONNECTING" /\ drawn.hs = "NONE"
  BY DEF channel_gen_ephemeral, Session, SameWho
<1> HIDE DEF drawn
<1>2. /\ derived \in Session /\ SameWho(drawn, derived) /\ derived.freed = drawn.freed
      /\ derived.eph = key /\ derived.state = "CONNECTING" /\ derived.hs = "NONE"
      /\ derived.chan
  BY <1>0, <1>1 DEF channel_derive, Session, SameWho
<1> HIDE DEF derived
<1>3. /\ agreed \in Session /\ SameWho(derived, agreed) /\ agreed.freed = derived.freed
      /\ agreed.eph = key /\ agreed.state = "CONNECTING" /\ agreed.hs = "NONE"
      /\ agreed.chan
  BY <1>0, <1>2 DEF Session, SameWho
<1> HIDE DEF agreed
<1>4. /\ sentR \in Session /\ SameWho(agreed, sentR) /\ sentR.freed = agreed.freed
      /\ sentR.eph = key /\ sentR.state = "CONNECTING" /\ sentR.hs = "RESP_SENT"
      /\ sentR.chan /\ Transcript(sentR) = Transcript(agreed)
  BY <1>3 DEF Session, SameWho, HsState, Transcript
<1> HIDE DEF sentR
<1>5. /\ d \in Dgram /\ d.kind = "RESP" /\ d.pair = Transcript(agreed)
      /\ d.pub = agreed.client
  <2>1. NORN_SVC_DEFAULT \in Service /\ 0 \in Sid
    BY SessionAssumption DEF Sid
  <2> QED
    BY <1>3, <2>1, DatagramType DEF Handshake
<1> HIDE DEF d
<1>6. /\ SameWho(r, derived) /\ SameWho(r, agreed) /\ SameWho(r, sentR)
      /\ derived.freed = r.freed /\ agreed.freed = r.freed /\ sentR.freed = r.freed
  BY <1>1, <1>2, <1>3, <1>4 DEF SameWho
<1>7. Sound(r, Same(derived), m, key)
  <2>1. Same(derived).r = derived /\ Same(derived).out = {}
    BY DEF Same
  <2>2. AnsweredBy(r, derived, {}, key)
    BY <1>2 DEF AnsweredBy
  <2> QED
    BY <1>2, <1>6, <2>1, <2>2 DEF Sound, Evolves
<1>8. Sound(r, Same(agreed), m, key)
  <2>1. Same(agreed).r = agreed /\ Same(agreed).out = {}
    BY DEF Same
  <2>2. AnsweredBy(r, agreed, {}, key)
    BY <1>3 DEF AnsweredBy
  <2> QED
    BY <1>3, <1>6, <2>1, <2>2 DEF Sound, Evolves
<1>9. Sound(r, [r |-> sentR, out |-> {d}], m, key)
  <2> DEFINE o == [r |-> sentR, out |-> {d}]
  <2>1. o.r = sentR /\ o.out = {d}
    OBVIOUS
  <2>2. AnsweredBy(r, sentR, {d}, key)
    BY <1>4, <1>5 DEF AnsweredBy, SameWho
  <2> HIDE DEF o
  <2>3. Sound(r, o, m, key)
    BY <1>4, <1>5, <1>6, <2>1, <2>2 DEF Sound, Evolves
  <2> QED
    BY <2>3 DEF o
<1>10. \/ RecvInit(r, m, signed, sent, key) = Same(r)
       \/ RecvInit(r, m, signed, sent, key) = Same(derived)
       \/ RecvInit(r, m, signed, sent, key) = Same(agreed)
       \/ RecvInit(r, m, signed, sent, key) = [r |-> sentR, out |-> {d}]
  BY DEF RecvInit, channel_hs_accept, sentR, d, agreed, derived, drawn
<1> QED
  BY <1>7, <1>8, <1>9, <1>10, SameSound

LEMMA ConfirmSound ==
  ASSUME NEW r \in Session, NEW m \in Dgram, NEW key,
         ~r.init, r.state = "CONNECTING", r.hs = "RESP_SENT"
  PROVE  Sound(r, RecvConfirm(r, m), m, key)
<1> DEFINE q == [r EXCEPT !.hs = "ESTABLISHED", !.state = "ESTABLISHED", !.told = TRUE]
<1>1. /\ q \in Session /\ SameWho(r, q) /\ q.freed = r.freed
      /\ q.eph = r.eph /\ q.peer_eph = r.peer_eph /\ q.chan = r.chan
      /\ q.peer_pubkey = r.peer_pubkey /\ q.hs = "ESTABLISHED" /\ q.state = "ESTABLISHED"
  BY DEF Session, SameWho, HsState, State
<1>2. RecvConfirm(r, m) = IF ~channel_hs_finish(r, m) THEN Same(r) ELSE Same(q)
  BY DEF RecvConfirm
<1> HIDE DEF q
<1>3. CASE ~channel_hs_finish(r, m)
  BY <1>2, <1>3, SameSound
<1>4. CASE channel_hs_finish(r, m)
  <2>1. Same(q).r = q /\ Same(q).out = {}
    BY DEF Same
  <2>2. Confirmed(r, q, {}, m)
    BY <1>1, <1>4 DEF Confirmed
  <2>3. Sound(r, Same(q), m, key)
    BY <1>1, <2>1, <2>2 DEF Sound, Evolves
  <2> QED
    BY <1>2, <1>4, <2>3
<1> QED
  BY <1>3, <1>4

LEMMA PacketSound ==
  ASSUME NEW r \in Session, NEW m \in Dgram, NEW signed, NEW sent, NEW key \in Nat
  PROVE  Sound(r, process_packet(r, m, signed, sent, key), m, key)
<1> DEFINE o == process_packet(r, m, signed, sent, key)
<1>1. \/ o = Same(r)
      \/ o = RecvApp(r, m, sent)
      \/ r.init /\ r.state = "CONNECTING" /\ o = RecvResp(r, m, signed, sent)
      \/ /\ ~r.init /\ r.state = "CONNECTING" /\ r.hs = "NONE"
         /\ o = RecvInit(r, m, signed, sent, key)
      \/ /\ ~r.init /\ r.state = "CONNECTING" /\ r.hs = "RESP_SENT"
         /\ o = RecvConfirm(r, m)
  BY DEF process_packet
<1> HIDE DEF o
<1>2. Sound(r, o, m, key)
  BY <1>1, SameSound, AppSound, RespSound, InitSound, ConfirmSound
<1> QED
  BY <1>2 DEF o
-----------------------------------------------------------------------------
(* The invariant of the handshake, of sessions S, datagrams N and K keys.    *)

\* A key is one session's, and of a responder that has answered it stays.
KeysFresh(S, K) ==
  \A s \in DOMAIN S :
    /\ S[s].eph <= K
    /\ ~S[s].init /\ S[s].hs # "NONE" => S[s].eph # 0 /\ S[s].chan
    /\ \A t \in DOMAIN S : S[s].eph = S[t].eph /\ S[s].eph # 0 => s = t

Answering(r) == ~r.init /\ r.hs # "NONE"

\* Initiator i is past its handshake, with responder r.
Peered(i, r) ==
  /\ i.init /\ i.chan /\ i.state # "CONNECTING"
  /\ Answering(r) /\ Transcript(i) = Transcript(r) /\ i.peer_pubkey = r.client

\* RESP was sent by a responder that has its keys still.
RespSent(S, N) ==
  \A m \in N : m.kind = "RESP" =>
    \E s \in DOMAIN S :
      Answering(S[s]) /\ m.pair = Transcript(S[s]) /\ m.pub = S[s].client

\* CONFIRM was sent by an initiator past its handshake.
ConfirmSent(S, N) ==
  \A m \in N : m.kind = "CONFIRM" =>
    \E t, s \in DOMAIN S :
      Peered(S[t], S[s]) /\ m.pair = Transcript(S[t]) /\ m.pub = S[t].client

InitiatorPeered(S) ==
  \A t \in DOMAIN S : S[t].init /\ S[t].state = "ESTABLISHED" =>
    \E s \in DOMAIN S : Peered(S[t], S[s])

ResponderPeered(S) ==
  \A s \in DOMAIN S : ~S[s].init /\ S[s].hs = "ESTABLISHED" =>
    \E t \in DOMAIN S : Peered(S[t], S[s]) /\ S[s].peer_pubkey = S[t].client

ShakeInv(S, N, K) ==
  /\ S \in Seq(Session) /\ N \subseteq Dgram /\ K \in Nat
  /\ KeysFresh(S, K)
  /\ RespSent(S, N) /\ ConfirmSent(S, N)
  /\ InitiatorPeered(S) /\ ResponderPeered(S)

-----------------------------------------------------------------------------
(* Steps. *)

\* What of a session others rely on.
Stays(r, q) ==
  /\ q.client = r.client /\ q.init = r.init
  /\ Answering(r) => /\ Answering(q) /\ q.chan = r.chan /\ Transcript(q) = Transcript(r)
                     /\ q.peer_pubkey = r.peer_pubkey
  /\ r.init /\ r.state # "CONNECTING" =>
       /\ q.state # "CONNECTING" /\ q.chan = r.chan /\ Transcript(q) = Transcript(r)
       /\ q.peer_pubkey = r.peer_pubkey

LEMMA EvolvesStays ==
  ASSUME NEW r, NEW q, NEW out, NEW m, NEW key, Evolves(r, q, out, m, key)
  PROVE  Stays(r, q)
<1>1. CASE Quiet(r, q)
  BY <1>1 DEF Quiet, SameShake, SameWho, Stays, Answering, Transcript
<1>2. CASE Drew(r, q, out, key) \/ AnsweredBy(r, q, out, key) \/ Derived(r, q, out)
           \/ Agreed(r, q, out, m)
  BY <1>2 DEF Evolves, SameWho, Drew, AnsweredBy, Derived, Agreed, Stays, Answering
<1>3. CASE Confirmed(r, q, out, m)
  BY <1>3 DEF Evolves, SameWho, Confirmed, Stays, Answering, Transcript
<1> QED
  BY <1>1, <1>2, <1>3 DEF Evolves

LEMMA PeeredStays ==
  ASSUME NEW i, NEW r, NEW j, NEW q, Peered(i, r), Stays(i, j), Stays(r, q)
  PROVE  Peered(j, q) /\ Transcript(j) = Transcript(i) /\ Transcript(q) = Transcript(r)
BY DEF Peered, Stays, Answering

\* Every session of S lives on in T.
LivesOn(S, T) == DOMAIN S \subseteq DOMAIN T /\ \A s \in DOMAIN S : Stays(S[s], T[s])

\* What is known of old datagrams stays so.
LEMMA SentStays ==
  ASSUME NEW S, NEW T, NEW N, NEW M, LivesOn(S, T), RespSent(S, N), ConfirmSent(S, N),
         \A m \in M : m \in N \/ m.kind \notin {"RESP", "CONFIRM"}
  PROVE  RespSent(T, M) /\ ConfirmSent(T, M)
<1>1. RespSent(T, M)
  <2> SUFFICES ASSUME NEW m \in M, m.kind = "RESP"
               PROVE  \E s \in DOMAIN T :
                        Answering(T[s]) /\ m.pair = Transcript(T[s]) /\ m.pub = T[s].client
    BY DEF RespSent
  <2>1. PICK s \in DOMAIN S :
          Answering(S[s]) /\ m.pair = Transcript(S[s]) /\ m.pub = S[s].client
    BY DEF RespSent
  <2>2. s \in DOMAIN T /\ Stays(S[s], T[s])
    BY DEF LivesOn
  <2> QED
    BY <2>1, <2>2 DEF Stays
<1>2. ConfirmSent(T, M)
  <2> SUFFICES ASSUME NEW m \in M, m.kind = "CONFIRM"
               PROVE  \E t, s \in DOMAIN T :
                        Peered(T[t], T[s]) /\ m.pair = Transcript(T[t]) /\ m.pub = T[t].client
    BY DEF ConfirmSent
  <2>1. PICK t \in DOMAIN S, s \in DOMAIN S :
          Peered(S[t], S[s]) /\ m.pair = Transcript(S[t]) /\ m.pub = S[t].client
    BY DEF ConfirmSent
  <2>2. s \in DOMAIN T /\ t \in DOMAIN T /\ Stays(S[s], T[s]) /\ Stays(S[t], T[t])
    BY DEF LivesOn
  <2>3. Peered(T[t], T[s]) /\ Transcript(T[t]) = Transcript(S[t])
    BY <2>1, <2>2, PeeredStays
  <2>4. T[t].client = S[t].client
    BY <2>2 DEF Stays
  <2> QED
    BY <2>1, <2>2, <2>3, <2>4
<1> QED
  BY <1>1, <1>2

\* So does what is known of old sessions.
LEMMA PeersStay ==
  ASSUME NEW S, NEW T, LivesOn(S, T)
  PROVE  /\ \A t \in DOMAIN S : (\E s \in DOMAIN S : Peered(S[t], S[s]))
                                  => \E s \in DOMAIN T : Peered(T[t], T[s])
         /\ \A s \in DOMAIN S :
              (\E t \in DOMAIN S : Peered(S[t], S[s]) /\ S[s].peer_pubkey = S[t].client)
                => \E t \in DOMAIN T : Peered(T[t], T[s]) /\ T[s].peer_pubkey = T[t].client
<1>1. ASSUME NEW t \in DOMAIN S, NEW s \in DOMAIN S, Peered(S[t], S[s])
      PROVE  s \in DOMAIN T /\ t \in DOMAIN T /\ Peered(T[t], T[s])
  <2>1. s \in DOMAIN T /\ t \in DOMAIN T /\ Stays(S[s], T[s]) /\ Stays(S[t], T[t])
    BY DEF LivesOn
  <2> QED
    BY <1>1, <2>1, PeeredStays
<1>2. ASSUME NEW t \in DOMAIN S, NEW s \in DOMAIN S, Peered(S[t], S[s]),
             S[s].peer_pubkey = S[t].client
      PROVE  T[s].peer_pubkey = T[t].client
  <2>1. Stays(S[s], T[s]) /\ Stays(S[t], T[t])
    BY DEF LivesOn
  <2> QED
    BY <1>2, <2>1 DEF Peered, Stays
<1> QED
  BY <1>1, <1>2

Changed(S, s, q) == [S EXCEPT ![s] = q]

\* A session changes by one step of its own.
LEMMA SessionSteps ==
  ASSUME NEW S, NEW N, NEW K, ShakeInv(S, N, K), NEW s \in DOMAIN S, NEW q \in Session,
         NEW out \in SUBSET Dgram, NEW m, NEW key, key = K + 1,
         m \in N \/ m.kind \notin {"RESP", "CONFIRM"},
         Evolves(S[s], q, out, m, key)
  PROVE  ShakeInv(Changed(S, s, q), N \cup out, IF q.eph > K THEN q.eph ELSE K)
<1> DEFINE T == Changed(S, s, q)
           M == N \cup out
           L == IF q.eph > K THEN q.eph ELSE K
           r == S[s]
<1>0. /\ S \in Seq(Session) /\ N \subseteq Dgram /\ K \in Nat
      /\ KeysFresh(S, K) /\ RespSent(S, N) /\ ConfirmSent(S, N)
      /\ InitiatorPeered(S) /\ ResponderPeered(S)
  BY DEF ShakeInv
<1>1. /\ DOMAIN T = DOMAIN S /\ T[s] = q
      /\ \A t \in DOMAIN S \ {s} : T[t] = S[t]
      /\ T \in Seq(Session)
  <2>1. s \in 1..Len(S)
    BY <1>0
  <2> QED
    BY <1>0, <2>1, ExceptSeq DEF Changed
<1>2. q.eph \in Nat /\ r \in Session /\ r.eph \in Nat /\ \A t \in DOMAIN S : S[t].eph \in Nat
  <2>1. \A t \in DOMAIN S : S[t] \in Session
    BY <1>0
  <2> QED
    BY <2>1 DEF Session
<1> HIDE DEF T, r
<1>3. Stays(r, q)
  BY EvolvesStays DEF r
<1>4. LivesOn(S, T)
  <2>1. \A t \in DOMAIN S : Stays(S[t], S[t])
    BY DEF Stays
  <2> QED
    BY <1>1, <1>3, <2>1 DEF LivesOn, r
<1>5. M \subseteq Dgram /\ L \in Nat /\ L >= K /\ q.eph <= L
  BY <1>0, <1>2
<1>6. q.eph = r.eph \/ q.eph = K + 1
  BY DEF Evolves, Quiet, SameShake, Drew, AnsweredBy, Derived, Agreed, Confirmed, r
<1>7. ~q.init /\ q.hs # "NONE" => q.eph # 0 /\ q.chan
  <2>1. ~r.init /\ r.hs # "NONE" => r.eph # 0 /\ r.chan
    BY <1>0 DEF KeysFresh, r
  <2>2. q.init = r.init
    BY DEF Evolves, SameWho, r
  <2>3. CASE Quiet(r, q)
    BY <2>1, <2>2, <2>3 DEF Quiet, SameShake
  <2>4. CASE Drew(r, q, out, key) \/ Derived(r, q, out) \/ Agreed(r, q, out, m)
    BY <2>2, <2>4 DEF Drew, Derived, Agreed
  <2>5. CASE AnsweredBy(r, q, out, key)
    BY <1>0, <2>5 DEF AnsweredBy
  <2>6. CASE Confirmed(r, q, out, m)
    BY <2>1, <2>6 DEF Confirmed
  <2> QED
    BY <2>3, <2>4, <2>5, <2>6 DEF Evolves, r
<1>8. KeysFresh(T, L)
  <2> SUFFICES ASSUME NEW a \in DOMAIN S
               PROVE  /\ T[a].eph <= L
                      /\ ~T[a].init /\ T[a].hs # "NONE" => T[a].eph # 0 /\ T[a].chan
                      /\ \A b \in DOMAIN S : T[a].eph = T[b].eph /\ T[a].eph # 0 => a = b
    BY <1>1 DEF KeysFresh
  <2>1. S[a].eph <= K /\ (~S[a].init /\ S[a].hs # "NONE" => S[a].eph # 0 /\ S[a].chan)
    BY <1>0 DEF KeysFresh
  <2>2. \A b \in DOMAIN S : S[a].eph = S[b].eph /\ S[a].eph # 0 => a = b
    BY <1>0 DEF KeysFresh
  <2>3. \A b \in DOMAIN S : S[b].eph <= K
    BY <1>0 DEF KeysFresh
  <2>4. T[a].eph <= L
    BY <1>0, <1>1, <1>2, <1>5, <2>1
  <2>5. ~T[a].init /\ T[a].hs # "NONE" => T[a].eph # 0 /\ T[a].chan
    BY <1>1, <1>7, <2>1
  <2>6. ASSUME NEW b \in DOMAIN S, T[a].eph = T[b].eph, T[a].eph # 0 PROVE a = b
    <3>1. CASE q.eph = r.eph
      BY <1>1, <2>2, <2>6, <3>1 DEF r
    <3>2. CASE q.eph = K + 1
      BY <1>0, <1>1, <1>2, <2>2, <2>3, <2>6, <3>2
    <3> QED
      BY <1>6, <3>1, <3>2
  <2> QED
    BY <2>4, <2>5, <2>6
<1>9. RespSent(T, N) /\ ConfirmSent(T, N)
  BY <1>0, <1>4, SentStays
<1>10. ASSUME r.init, q.state = "ESTABLISHED", r.state # "ESTABLISHED"
       PROVE  \E a \in DOMAIN T : Peered(q, T[a])
  <2>1. Agreed(r, q, out, m)
    BY <1>10 DEF Evolves, Quiet, Drew, AnsweredBy, Derived, Confirmed, r
  <2>2. m \in N /\ m \in Dgram /\ m.kind = "RESP" /\ m.pair[1] = r.eph
    BY <1>0, <2>1 DEF Agreed
  <2>3. PICK a \in DOMAIN T :
          Answering(T[a]) /\ m.pair = Transcript(T[a]) /\ m.pub = T[a].client
    BY <1>9, <2>2 DEF RespSent
  <2>4. m.pair = <<m.pair[1], m.pair[2]>>
    BY <2>2 DEF Dgram
  <2>5. q.init
    BY <1>10 DEF Evolves, SameWho, r
  <2>6. Transcript(q) = m.pair
    BY <2>1, <2>2, <2>4, <2>5 DEF Agreed, Transcript
  <2>7. Peered(q, T[a])
    BY <2>1, <2>3, <2>5, <2>6 DEF Peered, Agreed
  <2> QED
    BY <2>7
<1>11. InitiatorPeered(T)
  <2> SUFFICES ASSUME NEW t \in DOMAIN S, T[t].init, T[t].state = "ESTABLISHED"
               PROVE  \E a \in DOMAIN T : Peered(T[t], T[a])
    BY <1>1 DEF InitiatorPeered
  <2>1. CASE S[t].init /\ S[t].state = "ESTABLISHED"
    <3>1. \E a \in DOMAIN S : Peered(S[t], S[a])
      BY <1>0, <2>1 DEF InitiatorPeered
    <3> QED
      BY <1>4, <3>1, PeersStay
  <2>2. CASE ~(S[t].init /\ S[t].state = "ESTABLISHED")
    <3>1. t = s
      BY <1>1, <2>2
    <3>2. r.init /\ r.state # "ESTABLISHED"
      BY <1>1, <1>3, <2>2, <3>1 DEF Stays, r
    <3> QED
      BY <1>1, <1>10, <3>1, <3>2
  <2> QED
    BY <2>1, <2>2
<1>12. ResponderPeered(T)
  <2> SUFFICES ASSUME NEW a \in DOMAIN S, ~T[a].init, T[a].hs = "ESTABLISHED"
               PROVE  \E t \in DOMAIN T : Peered(T[t], T[a]) /\ T[a].peer_pubkey = T[t].client
    BY <1>1 DEF ResponderPeered
  <2>1. CASE ~S[a].init /\ S[a].hs = "ESTABLISHED"
    <3>1. \E t \in DOMAIN S : Peered(S[t], S[a]) /\ S[a].peer_pubkey = S[t].client
      BY <1>0, <2>1 DEF ResponderPeered
    <3> QED
      BY <1>4, <3>1, PeersStay
  <2>2. CASE ~(~S[a].init /\ S[a].hs = "ESTABLISHED")
    <3>1. a = s
      BY <1>1, <2>2
    <3>2. ~r.init /\ r.hs # "ESTABLISHED" /\ q.hs = "ESTABLISHED"
      BY <1>1, <1>3, <2>2, <3>1 DEF Stays, r
    <3>3. Confirmed(r, q, out, m)
      BY <3>2 DEF Evolves, Quiet, SameShake, Drew, AnsweredBy, Derived, Agreed, r
    <3>4. /\ m.kind = "CONFIRM" /\ m.pair = Transcript(r) /\ m.pub = r.peer_pubkey
          /\ r.hs = "RESP_SENT"
      BY <3>3 DEF Confirmed, channel_hs_finish, Opens
    <3>5. m \in N
      BY <3>4
    <3>6. PICK t \in DOMAIN S, b \in DOMAIN S :
            Peered(S[t], S[b]) /\ m.pair = Transcript(S[t]) /\ m.pub = S[t].client
      BY <1>0, <3>4, <3>5 DEF ConfirmSent
    <3>7. Transcript(S[b]) = Transcript(r) /\ ~S[b].init
      BY <3>4, <3>6 DEF Peered, Answering
    <3>8. S[b].eph = r.eph
      BY <3>2, <3>7 DEF Transcript
    <3>9. r.eph # 0
      BY <1>0, <3>2, <3>4 DEF KeysFresh, r
    <3>10. b = s
      BY <1>0, <3>8, <3>9 DEF KeysFresh, r
    <3>11. Peered(S[t], S[s]) /\ S[s].peer_pubkey = S[t].client
      BY <3>4, <3>6, <3>10 DEF r
    <3> QED
      BY <1>4, <3>1, <3>11, PeersStay
  <2> QED
    BY <2>1, <2>2
<1>13. RespSent(T, M)
  <2> SUFFICES ASSUME NEW d \in out, d.kind = "RESP"
               PROVE  \E a \in DOMAIN T :
                        Answering(T[a]) /\ d.pair = Transcript(T[a]) /\ d.pub = T[a].client
    BY <1>9 DEF RespSent
  <2>1. AnsweredBy(r, q, out, key)
    BY DEF Evolves, Drew, Derived, Agreed, Confirmed, r
  <2>2. ~q.init
    BY <2>1 DEF Evolves, SameWho, AnsweredBy, r
  <2>3. Answering(q) /\ d.pair = Transcript(q) /\ d.pub = q.client
    BY <2>1, <2>2 DEF AnsweredBy, Answering
  <2> QED
    BY <1>1, <2>3
<1>14. ConfirmSent(T, M)
  <2> SUFFICES ASSUME NEW d \in out, d.kind = "CONFIRM"
               PROVE  \E t, a \in DOMAIN T :
                        Peered(T[t], T[a]) /\ d.pair = Transcript(T[t]) /\ d.pub = T[t].client
    BY <1>9 DEF ConfirmSent
  <2>1. Agreed(r, q, out, m)
    BY DEF Evolves, Drew, AnsweredBy, Derived, Confirmed, r
  <2>2. PICK a \in DOMAIN T : Peered(q, T[a])
    BY <1>10, <2>1 DEF Agreed
  <2>3. d.pair = Transcript(q) /\ d.pub = q.client
    BY <2>1 DEF Agreed
  <2> QED
    BY <1>1, <2>2, <2>3
<1> QED
  BY <1>0, <1>1, <1>5, <1>8, <1>11, <1>12, <1>13, <1>14 DEF ShakeInv, T
\* Sessions are closed or freed, and keep what else they had.
Ends(r, q) ==
  SameShake(r, q) /\ (q.state = r.state \/ q.state = "CLOSED") /\ (r.freed => q.freed)

LEMMA SessionsEnd ==
  ASSUME NEW S, NEW N, NEW K, ShakeInv(S, N, K), NEW T \in Seq(Session),
         DOMAIN T = DOMAIN S, \A s \in DOMAIN S : Ends(S[s], T[s])
  PROVE  ShakeInv(T, N, K)
<1>0. /\ S \in Seq(Session) /\ N \subseteq Dgram /\ K \in Nat
      /\ KeysFresh(S, K) /\ RespSent(S, N) /\ ConfirmSent(S, N)
      /\ InitiatorPeered(S) /\ ResponderPeered(S)
  BY DEF ShakeInv
<1>1. LivesOn(S, T)
  BY DEF LivesOn, Stays, Ends, SameShake, SameWho, Answering, Transcript
<1>2. KeysFresh(T, K)
  BY <1>0 DEF KeysFresh, Ends, SameShake, SameWho
<1>3. RespSent(T, N) /\ ConfirmSent(T, N)
  BY <1>0, <1>1, SentStays
<1>4. \A s \in DOMAIN S :
        /\ T[s].init = S[s].init /\ T[s].hs = S[s].hs
        /\ T[s].state = "ESTABLISHED" => S[s].state = "ESTABLISHED"
  BY DEF Ends, SameShake, SameWho
<1>5. InitiatorPeered(T)
  BY <1>0, <1>1, <1>4, PeersStay DEF InitiatorPeered
<1>6. ResponderPeered(T)
  <2> SUFFICES ASSUME NEW s \in DOMAIN S, ~T[s].init, T[s].hs = "ESTABLISHED"
               PROVE  \E t \in DOMAIN T : Peered(T[t], T[s]) /\ T[s].peer_pubkey = T[t].client
    BY DEF ResponderPeered
  <2>1. \E t \in DOMAIN S : Peered(S[t], S[s]) /\ S[s].peer_pubkey = S[t].client
    BY <1>0, <1>4 DEF ResponderPeered
  <2> QED
    BY <1>1, <2>1, PeersStay
<1> QED
  BY <1>0, <1>2, <1>3, <1>5, <1>6 DEF ShakeInv

\* A session is created.
LEMMA SessionBegins ==
  ASSUME NEW S, NEW N, NEW K, ShakeInv(S, N, K), NEW r \in Session,
         r.eph = 0, r.hs = "NONE", r.state = "CONNECTING"
  PROVE  ShakeInv(Append(S, r), N, K)
<1> DEFINE T == Append(S, r)
<1>0. /\ S \in Seq(Session) /\ N \subseteq Dgram /\ K \in Nat
      /\ KeysFresh(S, K) /\ RespSent(S, N) /\ ConfirmSent(S, N)
      /\ InitiatorPeered(S) /\ ResponderPeered(S)
  BY DEF ShakeInv
<1>1. /\ T \in Seq(Session) /\ DOMAIN S = 1..Len(S) /\ DOMAIN T = 1..(Len(S) + 1)
      /\ Len(S) \in Nat /\ T[Len(S) + 1] = r /\ \A s \in 1..Len(S) : T[s] = S[s]
  BY <1>0, AppendProperties
<1> HIDE DEF T
<1>2. DOMAIN T = DOMAIN S \cup {Len(S) + 1} /\ \A s \in DOMAIN S : T[s] = S[s]
  BY <1>1
<1>3. LivesOn(S, T)
  BY <1>2 DEF LivesOn, Stays
<1>4. KeysFresh(T, K)
  BY <1>0, <1>1, <1>2 DEF KeysFresh
<1>5. RespSent(T, N) /\ ConfirmSent(T, N)
  BY <1>0, <1>3, SentStays
<1>6. InitiatorPeered(T)
  BY <1>0, <1>1, <1>2, <1>3, PeersStay DEF InitiatorPeered
<1>7. ResponderPeered(T)
  BY <1>0, <1>1, <1>2, <1>3, PeersStay DEF ResponderPeered
<1> QED
  BY <1>0, <1>1, <1>4, <1>5, <1>6, <1>7 DEF ShakeInv, T

-----------------------------------------------------------------------------
(* The list of a client holds all of its sessions. *)

Routed ==
  /\ order \in [Client -> Seq(Nat)]
  /\ \A c \in Client : \A i \in DOMAIN order[c] : order[c][i] \in DOMAIN sess
  /\ \A s \in DOMAIN sess : ~sess[s].freed =>
       \E i \in DOMAIN order[sess[s].client] : order[sess[s].client][i] = s

SessionInv == ShakeInv(sess, net, keys) /\ Routed /\ OneInboundPerPeer

\* What may become of a session where packets are routed.
Fades(r, q) ==
  /\ q.client = r.client /\ q.shared = r.shared /\ q.peer = r.peer
  /\ r.freed => q.freed
  /\ r.state = "CLOSED" => q.state = "CLOSED"

LEMMA InboundStays ==
  ASSUME OneInboundPerPeer, DOMAIN sess' = DOMAIN sess,
         \A s \in DOMAIN sess : Fades(sess[s], sess'[s])
  PROVE  OneInboundPerPeer'
<1> SUFFICES ASSUME NEW c \in Client, NEW s \in Sessions(c)', NEW t \in Sessions(c)',
                    sess'[s].shared, sess'[t].shared,
                    sess'[s].state # "CLOSED", sess'[t].state # "CLOSED",
                    sess'[s].peer = sess'[t].peer
             PROVE  s = t
  BY DEF OneInboundPerPeer
<1>1. s \in DOMAIN sess /\ t \in DOMAIN sess
  BY DEF Sessions
<1>2. s \in Sessions(c) /\ t \in Sessions(c)
  BY <1>1 DEF Sessions, Fades
<1> QED
  BY <1>1, <1>2 DEF OneInboundPerPeer, Fades

LEMMA RoutedStays ==
  ASSUME Routed, DOMAIN sess' = DOMAIN sess, order' = order,
         \A s \in DOMAIN sess : Fades(sess[s], sess'[s])
  PROVE  Routed'
BY DEF Routed, Fades

LEMMA EvolvesFades ==
  ASSUME NEW r, NEW q, NEW out, NEW m, NEW key, Evolves(r, q, out, m, key)
  PROVE  Fades(r, q)
BY DEF Evolves, SameWho, Quiet, Drew, AnsweredBy, Derived, Agreed, Confirmed, Fades

LEMMA SessionTypes ==
  ASSUME SessionInv
  PROVE  /\ sess \in Seq(Session) /\ DOMAIN sess = 1..Len(sess) /\ Len(sess) \in Nat
         /\ net \subseteq Dgram /\ keys \in Nat
         /\ \A s \in DOMAIN sess : sess[s] \in Session
<1>1. sess \in Seq(Session) /\ net \subseteq Dgram /\ keys \in Nat
  BY DEF SessionInv, ShakeInv
<1> QED
  BY <1>1

\* A session takes a step of its own.
LEMMA BecomesKeeps ==
  ASSUME SessionInv, NEW s \in DOMAIN sess, NEW o, Becomes(s, o), NEW m,
         m \in net \/ m.kind \notin {"RESP", "CONFIRM"}, NEW key, key = keys + 1,
         Sound(sess[s], o, m, key)
  PROVE  SessionInv'
<1>1. /\ sess' = Changed(sess, s, o.r) /\ net' = net \cup o.out /\ order' = order
      /\ keys' = IF o.r.eph > keys THEN o.r.eph ELSE keys
  BY DEF Becomes, Changed
<1>2. /\ o.r \in Session /\ o.out \in SUBSET Dgram
      /\ Evolves(sess[s], o.r, o.out, m, key)
  BY DEF Sound
<1>3. ShakeInv(sess', net', keys')
  BY <1>1, <1>2, SessionSteps DEF SessionInv
<1>4. DOMAIN sess' = DOMAIN sess /\ \A t \in DOMAIN sess : Fades(sess[t], sess'[t])
  <2>1. Fades(sess[s], o.r)
    BY <1>2, EvolvesFades
  <2>2. \A t \in DOMAIN sess : Fades(sess[t], sess[t])
    BY DEF Fades
  <2> QED
    BY <1>1, <2>1, <2>2 DEF Changed
<1>5. Routed' /\ OneInboundPerPeer'
  BY <1>1, <1>4, InboundStays, RoutedStays DEF SessionInv
<1> QED
  BY <1>3, <1>5 DEF SessionInv

\* A new session, inbound or outbound.
IsNew(r, c, peer) ==
  /\ r \in Session /\ r.eph = 0 /\ r.hs = "NONE" /\ r.state = "CONNECTING"
  /\ r.peer = peer /\ r.client = c

LEMMA NoStreams == <<>> \in Muxes /\ <<>> \in Seq(Stream)
<1>1. {} \in SUBSET Service /\ <<>> \in [{} -> Mux]
  OBVIOUS
<1> QED
  BY <1>1 DEF Muxes

LEMMA InboundType ==
  ASSUME NEW c \in Client, NEW peer \in Addr
  PROVE  IsNew(session_new(c, FALSE, TRUE, 0, peer), c, peer)
<1>1. peer.host \in Client
  BY DEF Addr
<1> QED
  BY <1>1, NoStreams DEF session_new, Session, State, HsState, IsNew

LEMMA OutboundType ==
  ASSUME NEW c \in Client, NEW port \in Port, NEW peer \in Addr
  PROVE  /\ IsNew(session_new(c, TRUE, FALSE, port, peer), c, peer)
         /\ session_new(c, TRUE, FALSE, port, peer).shared = FALSE
<1>1. peer.host \in Client
  BY DEF Addr
<1> QED
  BY <1>1, NoStreams DEF session_new, Session, State, HsState, IsNew

\* A session is added for client c, to its list too.
LEMMA AddedKeeps ==
  ASSUME SessionInv, NEW c \in Client, NEW q \in Session, q.client = c,
         sess' = Append(sess, q), order' = [order EXCEPT ![c] = Append(@, Len(sess) + 1)],
         \A s \in Sessions(c) :
           q.shared /\ sess[s].shared /\ sess[s].state # "CLOSED" => sess[s].peer # q.peer
  PROVE  Routed' /\ OneInboundPerPeer'
<1> DEFINE n == Len(sess) + 1
<1>1. /\ sess \in Seq(Session) /\ Len(sess) \in Nat
      /\ order \in [Client -> Seq(Nat)] /\ Routed /\ OneInboundPerPeer
  BY SessionTypes DEF SessionInv, Routed
<1>2. /\ DOMAIN sess = 1..Len(sess) /\ DOMAIN sess' = 1..n
      /\ sess'[n] = q /\ \A s \in 1..Len(sess) : sess'[s] = sess[s]
  BY <1>1, AppendProperties
<1>3. /\ DOMAIN sess' = DOMAIN sess \cup {n} /\ n \notin DOMAIN sess
      /\ \A s \in DOMAIN sess : sess'[s] = sess[s]
  BY <1>1, <1>2
<1>4. /\ order' \in [Client -> Seq(Nat)]
      /\ \A d \in Client \ {c} : order'[d] = order[d]
      /\ order'[c] = Append(order[c], n)
  BY <1>1, AppendProperties
<1>5. /\ DOMAIN order'[c] = 1..(Len(order[c]) + 1) /\ DOMAIN order[c] = 1..Len(order[c])
      /\ order'[c][Len(order[c]) + 1] = n /\ Len(order[c]) \in Nat
      /\ \A i \in 1..Len(order[c]) : order'[c][i] = order[c][i]
  BY <1>1, <1>4, AppendProperties
<1> HIDE DEF n
<1>6. \A d \in Client : \A i \in DOMAIN order'[d] : order'[d][i] \in DOMAIN sess'
  <2> SUFFICES ASSUME NEW d \in Client, NEW i \in DOMAIN order'[d]
               PROVE  order'[d][i] \in DOMAIN sess'
    OBVIOUS
  <2>1. CASE d = c
    BY <1>1, <1>3, <1>5, <2>1 DEF Routed
  <2>2. CASE d # c
    BY <1>1, <1>3, <1>4, <2>2 DEF Routed
  <2> QED
    BY <2>1, <2>2
<1>7. ASSUME NEW s \in DOMAIN sess', ~sess'[s].freed
      PROVE  \E i \in DOMAIN order'[sess'[s].client] : order'[sess'[s].client][i] = s
  <2>1. CASE s = n
    <3>1. sess'[s].client = c /\ Len(order[c]) + 1 \in DOMAIN order'[c]
      BY <1>2, <1>5, <2>1
    <3> QED
      BY <1>5, <2>1, <3>1
  <2>2. CASE s # n
    <3>0. s \in DOMAIN sess /\ sess'[s] = sess[s] /\ sess[s] \in Session
      BY <1>1, <1>3, <2>2
    <3>1. s \in DOMAIN sess /\ sess'[s] = sess[s] /\ sess[s].client \in Client
      BY <3>0 DEF Session
    <3>2. PICK i \in DOMAIN order[sess[s].client] : order[sess[s].client][i] = s
      BY <1>1, <1>7, <3>1 DEF Routed
    <3>3. i \in DOMAIN order'[sess[s].client] /\ order'[sess[s].client][i] = s
      <4>1. CASE sess[s].client = c
        BY <1>5, <3>2, <4>1
      <4>2. CASE sess[s].client # c
        BY <1>4, <3>1, <3>2, <4>2
      <4> QED
        BY <4>1, <4>2
    <3> QED
      BY <3>1, <3>3
  <2> QED
    BY <2>1, <2>2
<1>8. Routed'
  BY <1>4, <1>6, <1>7 DEF Routed
<1>9. OneInboundPerPeer'
  <2> SUFFICES ASSUME NEW d \in Client, NEW s \in Sessions(d)', NEW t \in Sessions(d)',
                      sess'[s].shared, sess'[t].shared,
                      sess'[s].state # "CLOSED", sess'[t].state # "CLOSED",
                      sess'[s].peer = sess'[t].peer, s # t
               PROVE  FALSE
    BY DEF OneInboundPerPeer
  <2>1. \A u \in DOMAIN sess : u \in Sessions(d)' => u \in Sessions(d)
    BY <1>3 DEF Sessions
  <2>2. s \in DOMAIN sess' /\ t \in DOMAIN sess' /\ sess'[s].client = d /\ sess'[t].client = d
    BY DEF Sessions
  <2>3. CASE s # n /\ t # n
    BY <1>1, <1>3, <2>1, <2>2, <2>3 DEF OneInboundPerPeer
  <2>4. CASE s = n
    BY <1>2, <1>3, <2>1, <2>2, <2>4
  <2>5. CASE t = n
    BY <1>2, <1>3, <2>1, <2>2, <2>5
  <2> QED
    BY <2>3, <2>4, <2>5
<1> QED
  BY <1>8, <1>9
-----------------------------------------------------------------------------
(* The actions. *)

LEMMA SessionUnchanged ==
  ASSUME SessionInv, UNCHANGED <<sess, order, keys, net>>
  PROVE  SessionInv'
<1>1. \A s \in DOMAIN sess : Fades(sess[s], sess'[s])
  BY DEF Fades
<1>2. Routed' /\ OneInboundPerPeer'
  BY <1>1, InboundStays, RoutedStays DEF SessionInv
<1> QED
  BY <1>2 DEF SessionInv

\* A packet for a session that is there.
LEMMA PacketKeeps ==
  ASSUME SessionInv, NEW s \in DOMAIN sess, NEW m \in net, NEW signed, NEW sent,
         Becomes(s, process_packet(sess[s], m, signed, sent, keys + 1))
  PROVE  SessionInv'
<1> DEFINE key == keys + 1
           o == process_packet(sess[s], m, signed, sent, key)
<1>1. sess[s] \in Session /\ m \in Dgram /\ key \in Nat /\ key = keys + 1
  BY SessionTypes
<1> HIDE DEF key
<1>2. Sound(sess[s], o, m, key)
  BY <1>1, PacketSound
<1>3. Becomes(s, o)
  BY <1>1
<1> HIDE DEF o
<1> QED
  BY <1>1, <1>2, <1>3, BecomesKeeps

\* A packet that makes a session.
LEMMA AcceptKeeps ==
  ASSUME SessionInv, NEW c \in Client, NEW m \in net, accept_or_route(c, m)
  PROVE  SessionInv'
<1>1. CASE \E i \in Route(c, m) : \E signed \in Signed(c), sent \in Sent(sess[order[c][i]]) :
             Becomes(order[c][i],
                     process_packet(sess[order[c][i]], m, signed, sent, keys + 1))
  <2>0. PICK i \in Route(c, m) : \E signed \in Signed(c), sent \in Sent(sess[order[c][i]]) :
          Becomes(order[c][i], process_packet(sess[order[c][i]], m, signed, sent, keys + 1))
    BY <1>1
  <2>1. PICK signed \in Signed(c), sent \in Sent(sess[order[c][i]]) :
          Becomes(order[c][i], process_packet(sess[order[c][i]], m, signed, sent, keys + 1))
    BY <2>0
  <2>2. order[c][i] \in DOMAIN sess
    BY DEF Route, SessionInv, Routed
  <2> QED
    BY <2>1, <2>2, PacketKeeps
<1>2. CASE ~\E i \in Route(c, m) :
             \E signed \in Signed(c), sent \in Sent(sess[order[c][i]]) :
               Becomes(order[c][i],
                       process_packet(sess[order[c][i]], m, signed, sent, keys + 1))
  <2> DEFINE r == session_new(c, FALSE, TRUE, 0, m.from)
             key == keys + 1
             long == Append(sess, r)
             n == Len(sess) + 1
  <2>1. /\ Route(c, m) = {}
        /\ \E signed \in Signed(c), sent \in Sent(r) :
             LET o == process_packet(r, m, signed, sent, key)
             IN  /\ sess' = Append(sess, o.r)
                 /\ order' = [order EXCEPT ![c] = Append(@, Len(sess) + 1)]
                 /\ keys' = IF o.r.eph > keys THEN o.r.eph ELSE keys
                 /\ net' = net \cup o.out
    BY <1>2 DEF accept_or_route
  <2>2. m \in Dgram /\ key \in Nat /\ key = keys + 1 /\ m.from \in Addr
    BY SessionTypes DEF Dgram
  <2>3. /\ r \in Session /\ r.eph = 0 /\ r.hs = "NONE" /\ r.state = "CONNECTING"
        /\ r.peer = m.from /\ r.client = c
    <3>1. IsNew(r, c, m.from)
      BY <2>2, InboundType
    <3> QED
      BY <3>1 DEF IsNew
  <2> HIDE DEF r, key
  <2>4. PICK signed, sent :
          LET o == process_packet(r, m, signed, sent, key)
          IN  /\ sess' = Append(sess, o.r)
              /\ order' = [order EXCEPT ![c] = Append(@, Len(sess) + 1)]
              /\ keys' = IF o.r.eph > keys THEN o.r.eph ELSE keys
              /\ net' = net \cup o.out
    BY <2>1
  <2> DEFINE o == process_packet(r, m, signed, sent, key)
             q == o.r
  <2>5. Sound(r, o, m, key)
    BY <2>2, <2>3, PacketSound
  <2>6. /\ sess' = Append(sess, q) /\ net' = net \cup o.out
        /\ order' = [order EXCEPT ![c] = Append(@, Len(sess) + 1)]
        /\ keys' = IF q.eph > keys THEN q.eph ELSE keys
    BY <2>4
  <2> HIDE DEF o
  <2>7. q \in Session /\ o.out \in SUBSET Dgram /\ Evolves(r, q, o.out, m, key)
    BY <2>5 DEF Sound
  <2> HIDE DEF q
  <2>8. ShakeInv(long, net, keys)
    BY <2>3, SessionBegins DEF SessionInv
  <2>9. /\ long \in Seq(Session) /\ n \in DOMAIN long /\ long[n] = r
        /\ Changed(long, n, q) = Append(sess, q)
    <3>1. sess \in Seq(Session)
      BY SessionTypes
    <3>2. /\ long \in Seq(Session) /\ Len(long) = n /\ long[n] = r /\ Len(sess) \in Nat
          /\ \A i \in 1..Len(sess) : long[i] = sess[i]
      BY <2>3, <3>1, AppendProperties
    <3>3. /\ Append(sess, q) \in Seq(Session) /\ Len(Append(sess, q)) = n
          /\ Append(sess, q)[n] = q
          /\ \A i \in 1..Len(sess) : Append(sess, q)[i] = sess[i]
      BY <2>7, <3>1, AppendProperties
    <3> HIDE DEF long
    <3>4. /\ Changed(long, n, q) \in Seq(Session) /\ Len(Changed(long, n, q)) = n
          /\ \A i \in 1..n : Changed(long, n, q)[i] = IF i = n THEN q ELSE long[i]
      BY <2>7, <3>2, ExceptSeq DEF Changed
    <3>5. \A i \in 1..n : Changed(long, n, q)[i] = Append(sess, q)[i]
      BY <3>2, <3>3, <3>4
    <3>6. Changed(long, n, q) = Append(sess, q)
      BY <3>3, <3>4, <3>5, SeqEqual
    <3> QED
      BY <3>2, <3>6
  <2>10. ShakeInv(sess', net', keys')
    <3>1. ShakeInv(Changed(long, n, q), net \cup o.out, IF q.eph > keys THEN q.eph ELSE keys)
      BY <2>2, <2>7, <2>8, <2>9, SessionSteps
    <3> QED
      BY <2>6, <2>9, <3>1
  <2>11. q.client = c /\ q.peer = m.from
    BY <2>3, <2>7 DEF Evolves, SameWho
  <2>12. ASSUME NEW s \in Sessions(c), sess[s].shared, sess[s].state # "CLOSED"
         PROVE  sess[s].peer # q.peer
    <3>1. s \in DOMAIN sess /\ ~sess[s].freed /\ sess[s].client = c
      BY DEF Sessions
    <3>2. PICK i \in DOMAIN order[c] : order[c][i] = s
      BY <3>1 DEF SessionInv, Routed
    <3> QED
      BY <2>1, <2>11, <2>12, <3>2 DEF Route
  <2>13. Routed' /\ OneInboundPerPeer'
    BY <2>6, <2>7, <2>11, <2>12, AddedKeeps
  <2> QED
    BY <2>10, <2>13 DEF SessionInv
<1> QED
  BY <1>1, <1>2

LEMMA DialKeeps ==
  ASSUME SessionInv, NEW c \in Client, NEW d \in Client, NEW p \in Port,
         norn_dial_direct_async(c, d, p)
  PROVE  SessionInv'
<1> DEFINE peer == [host |-> d, port |-> 0]
           r == session_new(c, TRUE, FALSE, p, peer)
<1>1. peer \in Addr
  BY DEF Addr
<1> HIDE DEF peer
<1>2. /\ r \in Session /\ r.eph = 0 /\ r.hs = "NONE" /\ r.state = "CONNECTING"
      /\ r.shared = FALSE /\ r.client = c
  <2>1. IsNew(r, c, peer) /\ r.shared = FALSE
    BY <1>1, OutboundType
  <2> HIDE DEF r
  <2> QED
    BY <2>1 DEF IsNew
<1>3. /\ sess' = Append(sess, r) /\ UNCHANGED <<keys, net>>
      /\ order' = [order EXCEPT ![c] = Append(@, Len(sess) + 1)]
  BY DEF norn_dial_direct_async, peer
<1> HIDE DEF r
<1>4. ShakeInv(sess', net', keys')
  BY <1>2, <1>3, SessionBegins DEF SessionInv
<1>5. Routed' /\ OneInboundPerPeer'
  BY <1>2, <1>3, AddedKeeps
<1> QED
  BY <1>4, <1>5 DEF SessionInv

LEMMA PendingKeeps ==
  ASSUME SessionInv, NEW s \in DOMAIN sess, norn_session_send_pending(s)
  PROVE  SessionInv'
<1> DEFINE key == keys + 1
           r == channel_gen_ephemeral(sess[s], key)
           q == [r EXCEPT !.hs = "INIT_SENT"]
           d == Handshake(r, "INIT")
           yes == [r |-> q, out |-> {d}]
           m == [kind |-> "INIT"]
<1>1. sess[s] \in Session /\ key \in Nat /\ key = keys + 1
  BY SessionTypes
<1> HIDE DEF key
<1>2. /\ r \in Session /\ SameWho(sess[s], r) /\ r.freed = sess[s].freed
      /\ r.eph = key /\ r.state = sess[s].state /\ r.hs = sess[s].hs
  BY <1>1 DEF channel_gen_ephemeral, Session, SameWho
<1>3. /\ r.state = "CONNECTING" /\ r.init /\ r.hs = "NONE"
      /\ Becomes(s, yes) \/ Becomes(s, Same(r))
  BY DEF norn_session_send_pending, norn_session_build_init, key
<1> HIDE DEF r
<1>4. /\ q \in Session /\ SameWho(r, q) /\ q.freed = r.freed
      /\ q.eph = r.eph /\ q.state = r.state
  BY <1>2 DEF Session, SameWho, HsState
<1> HIDE DEF q
<1>5. d \in Dgram /\ d.kind = "INIT"
  <2>1. NORN_SVC_DEFAULT \in Service /\ 0 \in Sid
    BY SessionAssumption DEF Sid
  <2> QED
    BY <1>2, <2>1, DatagramType DEF Handshake
<1> HIDE DEF d
<1>6. SameWho(sess[s], q) /\ sess[s].init
  BY <1>2, <1>3, <1>4 DEF SameWho
<1>7. Sound(sess[s], yes, m, key)
  <2>1. yes.r = q /\ yes.out = {d}
    OBVIOUS
  <2>2. Drew(sess[s], q, {d}, key)
    BY <1>2, <1>3, <1>4, <1>5, <1>6 DEF Drew
  <2> HIDE DEF yes
  <2> QED
    BY <1>2, <1>4, <1>5, <1>6, <2>1, <2>2 DEF Sound, Evolves
<1>8. Sound(sess[s], Same(r), m, key)
  <2>1. Same(r).r = r /\ Same(r).out = {}
    BY DEF Same
  <2>2. Drew(sess[s], r, {}, key)
    BY <1>2, <1>3, <1>6 DEF Drew
  <2> QED
    BY <1>2, <2>1, <2>2 DEF Sound, Evolves
<1>9. m.kind \notin {"RESP", "CONFIRM"}
  OBVIOUS
<1> HIDE DEF yes, m
<1> QED
  BY <1>1, <1>3, <1>7, <1>8, <1>9, BecomesKeeps

\* A call on a session's streams.
LEMMA StreamKeeps ==
  ASSUME SessionInv, NEW s \in DOMAIN sess, NEW q \in Session, Quiet(sess[s], q),
         NEW out \in SUBSET Dgram, \A d \in out : d.kind = "STREAM",
         Becomes(s, [r |-> q, out |-> out])
  PROVE  SessionInv'
<1> DEFINE m == [kind |-> "STREAM"]
           key == keys + 1
           o == [r |-> q, out |-> out]
<1>1. sess[s] \in Session
  BY SessionTypes
<1>2. Sound(sess[s], o, m, key)
  BY <1>1, QuietSound
<1>3. m.kind \notin {"RESP", "CONFIRM"} /\ key = keys + 1 /\ Becomes(s, o)
  OBVIOUS
<1> HIDE DEF m, key, o
<1> QED
  BY <1>2, <1>3, BecomesKeeps

LEMMA ModSid ==
  ASSUME NEW d \in Nat
  PROVE  d % 65536 \in Sid
<1> DEFINE x == d % 65536
<1>1. x \in Int
  OBVIOUS
<1>2. 0 <= x
  OBVIOUS
<1>3. x < 65536
  OBVIOUS
<1> HIDE DEF x
<1>4. x \in Sid
  BY <1>1, <1>2, <1>3 DEF Sid
<1> QED
  BY <1>4 DEF x

LEMMA NextSid ==
  ASSUME NEW e \in Sid
  PROVE  (e + 2) % 65536 \in Sid
<1> DEFINE d == e + 2
<1>1. d \in Nat
  BY DEF Sid
<1> HIDE DEF d
<1>2. d % 65536 \in Sid
  BY <1>1, ModSid
<1> QED
  BY <1>2 DEF d

LEMMA OpenKeeps ==
  ASSUME SessionInv, NEW s \in DOMAIN sess, NEW v \in Service, norn_stream_open_svc(s, v)
  PROVE  SessionInv'
<1> DEFINE r == session_get_svc(sess[s], v)
           id == r.svc[v].next
           e == [r.svc[v] EXCEPT !.next = (@ + 2) % 65536]
           y == [r.svc EXCEPT ![v] = e]
           spent == WithSvc(r, y)
           t == [service |-> v, sid |-> id, own |-> TRUE, closed |-> FALSE, told |-> TRUE]
           a == open_stream(spent, v, id)
           x == Append(a.streams, t)
           q == WithStreams(a, x)
<1>1. sess[s] \in Session
  BY SessionTypes
<1>2. r \in Session /\ Quiet(sess[s], r)
  BY <1>1, GetSvcQuiet
<1>3. v \in DOMAIN r.svc
  BY DEF norn_stream_open_svc
<1>4. Becomes(s, Same(spent)) \/ Becomes(s, Same(q))
  BY DEF norn_stream_open_svc, WithSvc, WithStreams
<1> HIDE DEF r
<1>5. PICK S \in SUBSET Service : r.svc \in [S -> Mux]
  BY <1>2 DEF Session, Muxes
<1>6. r.svc[v] \in Mux /\ id \in Sid /\ v \in S
  BY <1>3, <1>5 DEF Mux
<1>7. e \in Mux
  <2>1. ASSUME NEW f \in Mux PROVE [f EXCEPT !.next = (@ + 2) % 65536] \in Mux
    <3> DEFINE z == (f.next + 2) % 65536
    <3>1. z \in Sid
      <4>1. f.next \in Sid
        BY DEF Mux
      <4> QED
        BY <4>1, NextSid
    <3> HIDE DEF z
    <3>2. [f EXCEPT !.next = z] \in Mux
      BY <3>1 DEF Mux
    <3> QED
      BY <3>2 DEF z
  <2> QED
    BY <1>6, <2>1
<1> HIDE DEF e
<1>8. y \in [S -> Mux]
  BY <1>5, <1>6, <1>7
<1>9. y \in Muxes
  BY <1>8 DEF Muxes
<1> HIDE DEF y
<1>10. spent \in Session /\ Quiet(r, spent)
  BY <1>2, <1>9, SvcQuiet
<1> HIDE DEF spent, id
<1>11. a \in Session /\ Quiet(spent, a)
  BY <1>6, <1>10, OpenQuiet
<1> HIDE DEF a
<1>12. x \in Seq(Stream)
  <2>1. t \in Stream
    BY <1>6 DEF Stream
  <2>2. a.streams \in Seq(Stream)
    BY <1>11 DEF Session
  <2> HIDE DEF t
  <2> QED
    BY <2>1, <2>2, AppendProperties
<1> HIDE DEF x
<1>13. q \in Session /\ Quiet(a, q)
  BY <1>11, <1>12, StreamsQuiet
<1> HIDE DEF q
<1>14. Quiet(sess[s], spent) /\ Quiet(sess[s], q)
  BY <1>2, <1>10, <1>11, <1>13, QuietTrans
<1>15. CASE Becomes(s, Same(spent))
  BY <1>10, <1>14, <1>15, StreamKeeps DEF Same
<1>16. CASE Becomes(s, Same(q))
  BY <1>13, <1>14, <1>16, StreamKeeps DEF Same
<1> QED
  BY <1>4, <1>15, <1>16

LEMMA WriteKeeps ==
  ASSUME SessionInv, NEW s \in DOMAIN sess, NEW i \in DOMAIN sess[s].streams,
         norn_stream_write(s, i) \/ norn_stream_close(s, i) \/ norn_stream_reset(s, i)
  PROVE  SessionInv'
<1> DEFINE t == sess[s].streams[i]
           r == open_stream(sess[s], t.service, t.sid)
           out == Segments(r, t.service, t.sid)
           x == [r.streams EXCEPT ![i] = [@ EXCEPT !.closed = TRUE]]
           y == [sess[s].streams EXCEPT ![i] = [@ EXCEPT !.closed = TRUE]]
<1>1. sess[s] \in Session
  BY SessionTypes
<1>2. sess[s].streams \in Seq(Stream) /\ t \in Stream /\ t.service \in Service /\ t.sid \in Sid
  <2>1. sess[s].streams \in Seq(Stream)
    BY <1>1 DEF Session
  <2>2. t \in Stream
    BY <2>1
  <2> QED
    BY <2>1, <2>2 DEF Stream
<1>3. \/ Becomes(s, [r |-> r, out |-> out])
      \/ Becomes(s, [r |-> WithStreams(r, x), out |-> out])
      \/ Becomes(s, [r |-> WithStreams(sess[s], y), out |-> {}])
  BY DEF norn_stream_write, norn_stream_close, norn_stream_reset, Same, WithStreams
<1> HIDE DEF t
<1>4. r \in Session /\ Quiet(sess[s], r)
  BY <1>1, <1>2, OpenQuiet
<1> HIDE DEF r
<1>5. out \in SUBSET Dgram /\ \A d \in out : d.kind = "STREAM"
  BY <1>2, <1>4, SegmentsType
<1> HIDE DEF out
<1>6. ASSUME NEW z \in Seq(Stream)
      PROVE  [z EXCEPT ![i] = [@ EXCEPT !.closed = TRUE]] \in Seq(Stream)
  <2>1. \A f \in Stream : [f EXCEPT !.closed = TRUE] \in Stream
    BY DEF Stream
  <2> DEFINE f == [z[i] EXCEPT !.closed = TRUE]
  <2>2. CASE i \in 1..Len(z)
    <3>1. f \in Stream
      BY <2>1, <2>2
    <3> HIDE DEF f
    <3>2. [z EXCEPT ![i] = f] \in Seq(Stream)
      BY <2>2, <3>1, ExceptSeq
    <3> QED
      BY <3>2 DEF f
  <2>3. CASE i \notin 1..Len(z)
    <3> HIDE DEF f
    <3>1. [z EXCEPT ![i] = f] = z
      BY <2>3
    <3> QED
      BY <3>1 DEF f
  <2> QED
    BY <2>2, <2>3
<1>7. x \in Seq(Stream) /\ y \in Seq(Stream)
  BY <1>2, <1>4, <1>6 DEF Session
<1> HIDE DEF x, y
<1>8. WithStreams(r, x) \in Session /\ Quiet(sess[s], WithStreams(r, x))
  BY <1>4, <1>7, StreamsQuiet, QuietTrans
<1>9. WithStreams(sess[s], y) \in Session /\ Quiet(sess[s], WithStreams(sess[s], y))
  BY <1>1, <1>7, StreamsQuiet
<1>10. CASE Becomes(s, [r |-> r, out |-> out])
  BY <1>4, <1>5, <1>10, StreamKeeps
<1>11. CASE Becomes(s, [r |-> WithStreams(r, x), out |-> out])
  BY <1>5, <1>8, <1>11, StreamKeeps
<1>12. CASE Becomes(s, [r |-> WithStreams(sess[s], y), out |-> {}])
  BY <1>9, <1>12, StreamKeeps
<1> QED
  BY <1>3, <1>10, <1>11, <1>12

-----------------------------------------------------------------------------
(* Sessions end. *)

Closed(r) == [r EXCEPT !.state = "CLOSED", !.fd = FALSE]
Reaped(r) == [r EXCEPT !.freed = TRUE, !.fd = FALSE]

LEMMA EndedType ==
  ASSUME NEW r \in Session
  PROVE  /\ Closed(r) \in Session /\ Ends(r, Closed(r)) /\ Fades(r, Closed(r))
         /\ Reaped(r) \in Session /\ Ends(r, Reaped(r)) /\ Fades(r, Reaped(r)) /\ Reaped(r).freed
         /\ Ends(r, r) /\ Fades(r, r)
<1>1. Closed(r) \in Session /\ Ends(r, Closed(r)) /\ Fades(r, Closed(r))
  BY DEF Closed, Session, Ends, SameShake, SameWho, Fades, State
<1>2. Reaped(r) \in Session /\ Ends(r, Reaped(r)) /\ Fades(r, Reaped(r)) /\ Reaped(r).freed
  BY DEF Reaped, Session, Ends, SameShake, SameWho, Fades
<1>3. Ends(r, r) /\ Fades(r, r)
  BY DEF Ends, SameShake, SameWho, Fades
<1> QED
  BY <1>1, <1>2, <1>3

LEMMA CloseKeeps ==
  ASSUME SessionInv, NEW s \in DOMAIN sess, norn_session_close_async(s)
  PROVE  SessionInv'
<1>1. sess' = Changed(sess, s, Closed(sess[s])) /\ UNCHANGED <<order, keys, net>>
  BY DEF norn_session_close_async, Changed, Closed
<1>2. sess \in Seq(Session) /\ s \in 1..Len(sess) /\ \A t \in DOMAIN sess : sess[t] \in Session
  BY SessionTypes
<1>3. Closed(sess[s]) \in Session
  BY <1>2, EndedType
<1>4. /\ sess' \in Seq(Session) /\ DOMAIN sess' = DOMAIN sess /\ sess'[s] = Closed(sess[s])
      /\ \A t \in DOMAIN sess \ {s} : sess'[t] = sess[t]
  BY <1>1, <1>2, <1>3, ExceptSeq DEF Changed
<1>5. \A t \in DOMAIN sess : Ends(sess[t], sess'[t]) /\ Fades(sess[t], sess'[t])
  BY <1>2, <1>4, EndedType
<1>6. ShakeInv(sess', net', keys')
  BY <1>1, <1>4, <1>5, SessionsEnd DEF SessionInv
<1>7. Routed' /\ OneInboundPerPeer'
  BY <1>1, <1>4, <1>5, InboundStays, RoutedStays DEF SessionInv
<1> QED
  BY <1>6, <1>7 DEF SessionInv

\* The list without s holds all others it held.
LEMMA RemovedHolds ==
  ASSUME NEW q \in Seq(Nat), NEW s, \E j \in DOMAIN q : q[j] = s
  PROVE  /\ Removed(q, s) \in Seq(Nat)
         /\ \A i \in DOMAIN Removed(q, s) : \E j \in DOMAIN q : Removed(q, s)[i] = q[j]
         /\ \A j \in DOMAIN q : q[j] # s => \E i \in DOMAIN Removed(q, s) : Removed(q, s)[i] = q[j]
<1> DEFINE i == CHOOSE j \in DOMAIN q : q[j] = s
           n == Len(q)
           p == [q EXCEPT ![i] = q[n]]
           f == SubSeq(p, 1, n - 1)
<1>1. i \in DOMAIN q /\ q[i] = s
  OBVIOUS
<1>2. n \in Nat \ {0} /\ i \in 1..n /\ DOMAIN q = 1..n /\ n \in 1..n
  BY <1>1
<1> HIDE DEF i, n
<1>3. q[n] \in Nat
  BY <1>2
<1>4. /\ p \in Seq(Nat) /\ Len(p) = n
      /\ \A j \in 1..n : p[j] = IF j = i THEN q[n] ELSE q[j]
  BY <1>2, <1>3, ExceptSeq DEF n
<1> HIDE DEF p
<1>5. /\ f \in Seq(Nat) /\ Len(f) = n - 1 /\ DOMAIN f = 1..(n - 1)
      /\ \A j \in 1..(n - 1) : f[j] = p[j]
  <2>1. 1 \in Int /\ n - 1 \in Int /\ \A j \in 1..(n - 1) : p[j] \in Nat
    BY <1>2, <1>4
  <2>2. /\ f \in Seq(Nat) /\ Len(f) = IF 1 <= n - 1 THEN n - 1 - 1 + 1 ELSE 0
        /\ \A j \in 1..(n - 1 - 1 + 1) : f[j] = p[1 + j - 1]
    BY <2>1, SubSeqProperties
  <2> HIDE DEF f
  <2>3. Len(f) = n - 1
    BY <1>2, <2>2
  <2>4. \A j \in 1..(n - 1) : f[j] = p[j]
    BY <1>2, <2>2
  <2> QED
    BY <2>2, <2>3, <2>4
<1>6. Removed(q, s) = f
  BY <1>2, <1>4 DEF Removed, Front, Last, i, p, n
<1> HIDE DEF f
<1>7. \A k \in DOMAIN f : \E j \in DOMAIN q : f[k] = q[j]
  <2> SUFFICES ASSUME NEW k \in 1..(n - 1) PROVE \E j \in DOMAIN q : f[k] = q[j]
    BY <1>5
  <2>1. k \in 1..n
    BY <1>2
  <2>2. f[k] = IF k = i THEN q[n] ELSE q[k]
    BY <1>4, <1>5, <2>1
  <2> QED
    BY <1>2, <2>1, <2>2
<1>8. ASSUME NEW j \in DOMAIN q, q[j] # s PROVE \E k \in DOMAIN f : f[k] = q[j]
  <2>1. j # i
    BY <1>1, <1>8 DEF i
  <2>2. CASE j # n
    <3>1. j \in 1..(n - 1) /\ j \in 1..n
      BY <1>2, <2>2
    <3> QED
      BY <1>4, <1>5, <2>1, <3>1
  <2>3. CASE j = n
    <3>1. i \in 1..n /\ i # n
      BY <1>2, <2>1, <2>3
    <3>2. i \in 1..(n - 1)
      BY <1>2, <3>1
    <3>3. f[i] = q[n]
      BY <1>2, <1>4, <1>5, <3>2
    <3> QED
      BY <1>5, <2>3, <3>2, <3>3
  <2> QED
    BY <2>2, <2>3
<1> QED
  BY <1>5, <1>6, <1>7, <1>8

LEMMA FreeKeeps ==
  ASSUME SessionInv, NEW s \in DOMAIN sess, ~sess[s].freed, norn_session_free(s)
  PROVE  SessionInv'
<1> DEFINE c == sess[s].client
           q == Removed(order[c], s)
<1>1. /\ sess' = Changed(sess, s, Reaped(sess[s])) /\ UNCHANGED <<keys, net>>
      /\ order' = [order EXCEPT ![c] = q]
  BY DEF norn_session_free, Changed, Reaped
<1>2. sess \in Seq(Session) /\ s \in 1..Len(sess) /\ \A t \in DOMAIN sess : sess[t] \in Session
  BY SessionTypes
<1>3. Reaped(sess[s]) \in Session
  BY <1>2, EndedType
<1>4. /\ sess' \in Seq(Session) /\ DOMAIN sess' = DOMAIN sess /\ sess'[s] = Reaped(sess[s])
      /\ \A t \in DOMAIN sess \ {s} : sess'[t] = sess[t]
  BY <1>1, <1>2, <1>3, ExceptSeq DEF Changed
<1>5. \A t \in DOMAIN sess : Ends(sess[t], sess'[t]) /\ Fades(sess[t], sess'[t])
  BY <1>2, <1>4, EndedType
<1>6. ShakeInv(sess', net', keys')
  BY <1>1, <1>4, <1>5, SessionsEnd DEF SessionInv
<1>7. OneInboundPerPeer'
  BY <1>4, <1>5, InboundStays DEF SessionInv
<1>8. c \in Client /\ order \in [Client -> Seq(Nat)] /\ \E j \in DOMAIN order[c] : order[c][j] = s
  BY <1>2 DEF SessionInv, Routed, Session
<1>9. /\ q \in Seq(Nat)
      /\ \A i \in DOMAIN q : \E j \in DOMAIN order[c] : q[i] = order[c][j]
      /\ \A j \in DOMAIN order[c] :
           order[c][j] # s => \E i \in DOMAIN q : q[i] = order[c][j]
  <2>1. order[c] \in Seq(Nat)
    BY <1>8
  <2> DEFINE list == order[c]
  <2>2. list \in Seq(Nat) /\ \E j \in DOMAIN list : list[j] = s
    BY <1>8, <2>1
  <2> HIDE DEF list
  <2>3. /\ Removed(list, s) \in Seq(Nat)
        /\ \A i \in DOMAIN Removed(list, s) : \E j \in DOMAIN list : Removed(list, s)[i] = list[j]
        /\ \A j \in DOMAIN list : list[j] # s =>
             \E i \in DOMAIN Removed(list, s) : Removed(list, s)[i] = list[j]
    BY <2>2, RemovedHolds
  <2> QED
    BY <2>3 DEF list
<1> HIDE DEF c, q
<1>10. /\ order' \in [Client -> Seq(Nat)] /\ order'[c] = q
       /\ \A d \in Client \ {c} : order'[d] = order[d]
  BY <1>1, <1>8, <1>9
<1>11. ASSUME NEW d \in Client, NEW i \in DOMAIN order'[d]
       PROVE  order'[d][i] \in DOMAIN sess'
  <2>1. CASE d = c
    BY <1>4, <1>8, <1>9, <1>10, <2>1 DEF SessionInv, Routed
  <2>2. CASE d # c
    BY <1>4, <1>10, <2>2 DEF SessionInv, Routed
  <2> QED
    BY <2>1, <2>2
<1>12. ASSUME NEW t \in DOMAIN sess', ~sess'[t].freed
       PROVE  \E i \in DOMAIN order'[sess'[t].client] : order'[sess'[t].client][i] = t
  <2>1. t # s /\ t \in DOMAIN sess /\ sess'[t] = sess[t]
    BY <1>2, <1>4, <1>12, EndedType
  <2>2. sess[t].client \in Client
    BY <1>2, <2>1 DEF Session
  <2>3. PICK j \in DOMAIN order[sess[t].client] : order[sess[t].client][j] = t
    BY <1>12, <2>1 DEF SessionInv, Routed
  <2>4. CASE sess[t].client = c
    BY <1>9, <1>10, <2>1, <2>3, <2>4
  <2>5. CASE sess[t].client # c
    BY <1>10, <2>1, <2>2, <2>3, <2>5
  <2> QED
    BY <2>4, <2>5
<1>13. Routed'
  BY <1>10, <1>11, <1>12 DEF Routed
<1> QED
  BY <1>6, <1>7, <1>13 DEF SessionInv

LEMMA FreeClientKeeps ==
  ASSUME SessionInv, NEW c \in Client, norn_free(c)
  PROVE  SessionInv'
<1> DEFINE q == order[c]
           half == (Len(q) + 1) \div 2
           reached == {q[i] : i \in 1..half}
           rest == SubSeq(q, half + 1, Len(q))
<1>1. /\ sess' = [s \in DOMAIN sess |-> IF s \in reached THEN Reaped(sess[s]) ELSE sess[s]]
      /\ order' = [order EXCEPT ![c] = rest] /\ UNCHANGED <<keys, net>>
  BY DEF norn_free, Reaped
<1>2. /\ sess \in Seq(Session) /\ DOMAIN sess = 1..Len(sess) /\ Len(sess) \in Nat
      /\ \A t \in DOMAIN sess : sess[t] \in Session
  BY SessionTypes
<1>3. q \in Seq(Nat) /\ order \in [Client -> Seq(Nat)] /\ Len(q) \in Nat /\ DOMAIN q = 1..Len(q)
  BY DEF SessionInv, Routed
<1>4. half \in Nat /\ half <= Len(q)
  <2>1. ASSUME NEW n \in Nat PROVE (n + 1) \div 2 \in Nat /\ (n + 1) \div 2 <= n
    OBVIOUS
  <2> QED
    BY <1>3, <2>1
<1> HIDE DEF half
<1>5. /\ DOMAIN sess' = DOMAIN sess
      /\ \A s \in DOMAIN sess : sess'[s] = IF s \in reached THEN Reaped(sess[s]) ELSE sess[s]
  BY <1>1
<1> HIDE DEF reached
<1>6. \A s \in DOMAIN sess : /\ sess'[s] \in Session /\ Ends(sess[s], sess'[s])
                             /\ Fades(sess[s], sess'[s])
  BY <1>2, <1>5, EndedType
<1>7. sess' \in Seq(Session)
  <2> DEFINE new == sess'
  <2>0. new = [s \in DOMAIN sess |-> IF s \in reached THEN Reaped(sess[s]) ELSE sess[s]]
    BY <1>1
  <2>1. new \in [1..Len(sess) -> Session]
    BY <1>2, <1>5, <1>6, <2>0
  <2> QED
    BY <1>2, <2>1, SeqDef
<1>8. ShakeInv(sess', net', keys')
  BY <1>1, <1>5, <1>6, <1>7, SessionsEnd DEF SessionInv
<1>9. OneInboundPerPeer'
  BY <1>5, <1>6, InboundStays DEF SessionInv
<1> DEFINE n == Len(q)
<1> HIDE DEF q
<1>10. /\ rest \in Seq(Nat) /\ DOMAIN rest = 1..(n - half)
       /\ \A i \in 1..(n - half) : rest[i] = q[half + i]
  <2>1. half + 1 \in Int /\ n \in Int /\ \A i \in (half + 1)..n : q[i] \in Nat
    BY <1>3, <1>4
  <2>2. /\ rest \in Seq(Nat)
        /\ Len(rest) = IF half + 1 <= n THEN n - (half + 1) + 1 ELSE 0
        /\ \A i \in 1..(n - (half + 1) + 1) : rest[i] = q[half + 1 + i - 1]
    BY <2>1, SubSeqProperties
  <2>0. n \in Nat /\ half \in Nat /\ half <= n
    BY <1>3, <1>4
  <2>5. Len(rest) = IF half + 1 <= n THEN n - (half + 1) + 1 ELSE 0
    BY <2>2
  <2> HIDE DEF rest, n
  <2>3. Len(rest) = n - half
    BY <2>0, <2>5
  <2>4. \A i \in 1..(n - half) : rest[i] = q[half + i]
    BY <1>3, <1>4, <2>1, <2>2
  <2> QED
    BY <2>2, <2>3, <2>4
<1> HIDE DEF rest
<1>11. /\ order' \in [Client -> Seq(Nat)] /\ order'[c] = rest
       /\ \A d \in Client \ {c} : order'[d] = order[d]
  BY <1>1, <1>3, <1>10
<1>12. \A i \in DOMAIN rest : half + i \in DOMAIN q
  BY <1>3, <1>4, <1>10
<1>13. ASSUME NEW d \in Client, NEW i \in DOMAIN order'[d]
       PROVE  order'[d][i] \in DOMAIN sess'
  <2>1. CASE d = c
    <3>1. order'[d][i] = q[half + i] /\ half + i \in DOMAIN q
      BY <1>10, <1>11, <1>12, <1>13, <2>1
    <3>2. \A j \in DOMAIN q : q[j] \in DOMAIN sess
      BY DEF SessionInv, Routed, q
    <3> QED
      BY <1>5, <3>1, <3>2
  <2>2. CASE d # c
    BY <1>5, <1>11, <2>2 DEF SessionInv, Routed
  <2> QED
    BY <2>1, <2>2
<1>14. ASSUME NEW t \in DOMAIN sess', ~sess'[t].freed
       PROVE  \E i \in DOMAIN order'[sess'[t].client] : order'[sess'[t].client][i] = t
  <2>1. t \in DOMAIN sess /\ t \notin reached /\ sess'[t] = sess[t] /\ sess[t].client \in Client
    <3>1. t \in DOMAIN sess /\ t \notin reached
      BY <1>2, <1>5, <1>14, EndedType
    <3>2. sess[t] \in Session
      BY <1>2, <3>1
    <3> QED
      BY <1>5, <3>1, <3>2 DEF Session
  <2>2. PICK j \in DOMAIN order[sess[t].client] : order[sess[t].client][j] = t
    BY <1>14, <2>1 DEF SessionInv, Routed
  <2>3. CASE sess[t].client = c
    <3>1. j \in 1..n /\ q[j] = t
      BY <1>3, <2>2, <2>3 DEF q
    <3>2. j \notin 1..half
      BY <2>1, <3>1 DEF reached
    <3>3. j - half \in 1..(n - half) /\ half + (j - half) = j
      BY <1>3, <1>4, <3>1, <3>2
    <3>4. rest[j - half] = t
      BY <1>10, <3>1, <3>3
    <3> QED
      BY <1>10, <1>11, <2>1, <2>3, <3>3, <3>4
  <2>4. CASE sess[t].client # c
    BY <1>11, <2>1, <2>2, <2>4
  <2> QED
    BY <2>3, <2>4
<1>15. Routed'
  BY <1>11, <1>13, <1>14 DEF Routed
<1> QED
  BY <1>8, <1>9, <1>15 DEF SessionInv

-----------------------------------------------------------------------------
(* The theorems. *)

LEMMA SessionInitInv == Init => SessionInv
<1> SUFFICES ASSUME Init PROVE SessionInv
  OBVIOUS
<1> USE DEF Init
<1>1. sess \in Seq(Session) /\ DOMAIN sess = {} /\ net = {} /\ keys = 0
  OBVIOUS
<1>2. ShakeInv(sess, net, keys)
  BY <1>1 DEF ShakeInv, KeysFresh, RespSent, ConfirmSent, InitiatorPeered, ResponderPeered
<1>3. Routed
  BY <1>1 DEF Routed
<1>4. OneInboundPerPeer
  BY <1>1 DEF OneInboundPerPeer, Sessions
<1> QED
  BY <1>2, <1>3, <1>4 DEF SessionInv

LEMMA SessionNextInv == SessionInv /\ [Next]_vars => SessionInv'
<1> SUFFICES ASSUME SessionInv, [Next]_vars PROVE SessionInv'
  OBVIOUS
<1>1. ASSUME NEW c \in Client, norn_listen_async(c) PROVE SessionInv'
  BY <1>1, SessionUnchanged DEF norn_listen_async
<1>2. ASSUME NEW c \in Client, NEW v \in Service, norn_register_stream_service(c, v)
      PROVE  SessionInv'
  BY <1>2, SessionUnchanged DEF norn_register_stream_service
<1>3. ASSUME NEW s \in DOMAIN sess, NEW m \in net, RecvOwn(s, m) PROVE SessionInv'
  BY <1>3, PacketKeeps DEF RecvOwn
<1>4. ASSUME NEW s \in DOMAIN sess, Live(s),
             \/ norn_session_send_pending(s)
             \/ \E m \in net : RecvOwn(s, m)
             \/ norn_session_close_async(s)
             \/ norn_session_free(s)
             \/ \E v \in Service : norn_stream_open_svc(s, v)
             \/ \E i \in DOMAIN sess[s].streams :
                  norn_stream_write(s, i) \/ norn_stream_close(s, i) \/ norn_stream_reset(s, i)
      PROVE  SessionInv'
  <2>1. ~sess[s].freed
    BY <1>4 DEF Live
  <2> QED
    BY <1>3, <1>4, <2>1, PendingKeeps, CloseKeeps, FreeKeeps, OpenKeeps, WriteKeeps
<1>5. CASE UNCHANGED vars
  BY <1>5, SessionUnchanged DEF vars
<1>6. Dialer \subseteq Client /\ Listener \subseteq Client
  BY SessionAssumption
<1>7. CASE Next
  BY <1>1, <1>2, <1>4, <1>6, <1>7, AcceptKeeps, FreeClientKeeps, DialKeeps DEF Next
<1> QED
  BY <1>5, <1>7

LEMMA SessionAlways == Spec => []SessionInv
BY SessionInitInv, SessionNextInv, PTL DEF Spec

LEMMA PeeredAgree ==
  ASSUME SessionInv, NEW t \in DOMAIN sess, NEW s \in DOMAIN sess, Peered(sess[t], sess[s])
  PROVE  Agree(sess[t], sess[s])
<1>1. sess[s].chan
  BY DEF SessionInv, ShakeInv, KeysFresh, Peered, Answering
<1> QED
  BY <1>1 DEF Peered, Answering, Agree

\* A responder is ESTABLISHED only with an initiator that derived the same keys, took it
\* for whom it is and is past its handshake, whatever datagrams are lost, late, repeated
\* or of other sessions (channel_hs_finish).
THEOREM ResponderKnowsPeer == Spec => []ResponderAgrees
<1>1. SessionInv => ResponderAgrees
  <2> SUFFICES ASSUME SessionInv, NEW s \in DOMAIN sess, ~sess[s].init,
                      sess[s].hs = "ESTABLISHED"
               PROVE  \E t \in DOMAIN sess :
                        /\ Agree(sess[t], sess[s]) /\ sess[t].state # "CONNECTING"
                        /\ sess[t].peer_pubkey = sess[s].client
                        /\ sess[s].peer_pubkey = sess[t].client
    BY DEF ResponderAgrees
  <2>1. PICK t \in DOMAIN sess :
          Peered(sess[t], sess[s]) /\ sess[s].peer_pubkey = sess[t].client
    BY DEF SessionInv, ShakeInv, ResponderPeered
  <2>2. Agree(sess[t], sess[s])
    BY <2>1, PeeredAgree
  <2> QED
    BY <2>1, <2>2 DEF Peered
<1> QED
  BY <1>1, SessionAlways, PTL

\* An initiator that is ESTABLISHED has a session at its peer with the same keys: a
\* responder that has answered takes no second INIT (norn_session_accept_init).
THEOREM InitiatorKnowsPeer == Spec => []InitiatorHasPeer
<1>1. SessionInv => InitiatorHasPeer
  <2> SUFFICES ASSUME SessionInv, NEW s \in DOMAIN sess, sess[s].init,
                      sess[s].state = "ESTABLISHED"
               PROVE  \E t \in DOMAIN sess : Agree(sess[s], sess[t])
    BY DEF InitiatorHasPeer
  <2>1. PICK t \in DOMAIN sess : Peered(sess[s], sess[t])
    BY DEF SessionInv, ShakeInv, InitiatorPeered
  <2> QED
    BY <2>1, PeeredAgree
<1> QED
  BY <1>1, SessionAlways, PTL

\* A client never has two open inbound sessions of one address: accept_or_route finds
\* the one there is, however the list was reordered when others were freed.
THEOREM OneInbound == Spec => []OneInboundPerPeer
<1>1. SessionInv => OneInboundPerPeer
  BY DEF SessionInv
<1> QED
  BY <1>1, SessionAlways, PTL

-----------------------------------------------------------------------------
(* Hole punching (NornNat). *)

-----------------------------------------------------------------------------
(* First and leading places. *)

\* A set of places that is not empty has a first one.
LEMMA MinIsThere ==
  ASSUME NEW n \in Nat, NEW S \in SUBSET (1..n), S # {}
  PROVE  Min(S) \in S
<1> DEFINE U == 1..n
           T == {1..i : i \in S}
<1>1. T # {} /\ T \subseteq FiniteSubsetsOf(U)
  <2>1. IsFiniteSet(U)
    BY FS_Interval
  <2>2. FiniteSubsetsOf(U) = SUBSET U
    BY <2>1, FS_FiniteSubsetsOfFinite
  <2>3. \A i \in S : 1..i \in SUBSET U
    OBVIOUS
  <2>4. T \subseteq SUBSET U
    BY <2>3
  <2>5. T # {}
    OBVIOUS
  <2> QED
    BY <2>2, <2>4, <2>5
<1>2. IsWellFoundedOn(StrictSubsetOrdering(U), FiniteSubsetsOf(U))
  BY FS_StrictSubsetOrderingWellFounded
<1>3. PICK x \in T : \A y \in T : ~(<<y, x>> \in StrictSubsetOrdering(U))
  BY <1>1, <1>2, WFMin
<1>4. PICK i \in S : x = 1..i
  BY <1>3
<1>5. \A j \in S : i <= j
  <2> SUFFICES ASSUME NEW j \in S, j < i PROVE FALSE
    OBVIOUS
  <2>1. 1..j \subseteq 1..i /\ 1..j # 1..i
    OBVIOUS
  <2>2. 1..j \in T /\ 1..i \in SUBSET U /\ 1..j \in SUBSET U
    OBVIOUS
  <2> QED
    BY <1>3, <1>4, <2>1, <2>2 DEF StrictSubsetOrdering
<1> QED
  BY <1>5 DEF Min

Vote == [ep : Endpoint, n : Nat]

\* A list of votes that is not empty has a first entry with the most votes.
LEMMA LeadingIsThere ==
  ASSUME NEW v \in Seq(Vote), v # <<>>
  PROVE  \E i \in 1..Len(v) : Leading(v) = v[i]
<1> DEFINE U == 1..Len(v)
           above(i) == {j \in U : v[j].n > v[i].n}
           T == {above(i) : i \in U}
           best == {i \in U : \A j \in U : v[j].n <= v[i].n}
<1>0. Len(v) \in Nat \ {0} /\ DOMAIN v = U /\ \A i \in U : v[i].n \in Nat
  <2>1. \A i \in U : v[i] \in Vote
    OBVIOUS
  <2> QED
    BY <2>1 DEF Vote
<1>1. T # {} /\ T \subseteq FiniteSubsetsOf(U)
  <2>1. IsFiniteSet(U)
    BY <1>0, FS_Interval
  <2>2. FiniteSubsetsOf(U) = SUBSET U
    BY <2>1, FS_FiniteSubsetsOfFinite
  <2>3. above(1) \in T
    BY <1>0
  <2>4. T \subseteq SUBSET U
    OBVIOUS
  <2> HIDE DEF T
  <2> QED
    BY <2>2, <2>3, <2>4
<1>2. IsWellFoundedOn(StrictSubsetOrdering(U), FiniteSubsetsOf(U))
  BY FS_StrictSubsetOrderingWellFounded
<1>3. PICK x \in T : \A y \in T : ~(<<y, x>> \in StrictSubsetOrdering(U))
  <2> HIDE DEF T, U
  <2> QED
    BY <1>1, <1>2, WFMin
<1>4. PICK i \in U : x = above(i)
  BY <1>3
<1>5. above(i) = {}
  <2> SUFFICES ASSUME NEW j \in above(i) PROVE FALSE
    OBVIOUS
  <2>1. above(j) \subseteq above(i) /\ above(j) # above(i)
    BY <1>0
  <2>2. above(j) \in T /\ above(j) \in SUBSET U /\ above(i) \in SUBSET U
    OBVIOUS
  <2>3. <<above(j), above(i)>> \in StrictSubsetOrdering(U)
    <3> HIDE DEF U, above
    <3> QED
      BY <2>1, <2>2 DEF StrictSubsetOrdering
  <2> QED
    BY <1>3, <1>4, <2>2, <2>3
<1>6. \A j \in U : v[j].n <= v[i].n
  BY <1>0, <1>5
<1>7. best # {} /\ best \in SUBSET (1..Len(v))
  BY <1>6
<1>8. Min(best) \in best
  <2> HIDE DEF best
  <2> QED
    BY <1>0, <1>7, MinIsThere
<1>9. Leading(v) = v[Min(best)]
  BY <1>0 DEF Leading
<1> QED
  BY <1>8, <1>9

-----------------------------------------------------------------------------
(* A dial is answered at most once. *)

Dial == [key : Pubkey, state : {"resolving", "holepunch", Freed}, told : Nat]
Pending == [dial : Nat, active : BOOLEAN]

\* A context that was answered is freed, a hole punch in progress has one entry at most,
\* and an active entry is of a context that waits for it.
DialInv ==
  /\ dials \in Seq(Dial)
  /\ punch \in Seq(Pending)
  /\ \A d \in 1..Len(dials) : dials[d].told <= 1 /\ (dials[d].state # Freed => dials[d].told = 0)
  /\ \A i \in 1..Len(punch) :
       /\ punch[i].dial \in 1..Len(dials)
       /\ punch[i].active => dials[punch[i].dial].state = "holepunch"
  /\ \A i, j \in 1..Len(punch) :
       punch[i].active /\ punch[j].active /\ punch[i].dial = punch[j].dial => i = j

\* The place a packet for dial e is delivered to.
LEMMA WaitingIsThere ==
  ASSUME DialInv, NEW e, Waiting(e) # {}
  PROVE  /\ Min(Waiting(e)) \in 1..Len(punch)
         /\ punch[Min(Waiting(e))].active /\ punch[Min(Waiting(e))].dial = e
<1>1. Waiting(e) \in SUBSET (1..Len(punch)) /\ Len(punch) \in Nat
  BY DEF Waiting, DialInv
<1>2. Min(Waiting(e)) \in Waiting(e)
  BY <1>1, MinIsThere
<1> QED
  BY <1>1, <1>2 DEF Waiting

\* Answered(d) frees one context and tells it once more.
LEMMA AnsweredIs ==
  ASSUME DialInv, NEW d \in 1..Len(dials)
  PROVE  /\ Answered(d) \in Seq(Dial) /\ Len(Answered(d)) = Len(dials)
         /\ \A c \in 1..Len(dials) : c # d => Answered(d)[c] = dials[c]
         /\ Answered(d)[d].state = Freed /\ Answered(d)[d].told = dials[d].told + 1
<1> DEFINE r == [key |-> dials[d].key, state |-> Freed, told |-> dials[d].told + 1]
<1>1. dials \in Seq(Dial) /\ dials[d] \in Dial
  BY DEF DialInv
<1>2. r \in Dial /\ r.state = Freed /\ r.told = dials[d].told + 1
  BY <1>1 DEF Dial
<1>3. Answered(d) = [dials EXCEPT ![d] = r]
  BY <1>1 DEF Answered, Dial
<1> HIDE DEF r
<1> QED
  BY <1>1, <1>2, <1>3, ExceptSeq

CloseDial(i) ==
  /\ dials' = dials \/ dials' = Answered(punch[i].dial)
  /\ punch' = [punch EXCEPT ![i].active = FALSE]

\* A packet that ends the wait of entry i: the entry is no longer active, and its dial
\* answered or left to wait for a probe.
LEMMA EntryEnds ==
  ASSUME DialInv, NEW e, Waiting(e) # {}, CloseDial(Min(Waiting(e)))
  PROVE  DialInv'
<1> DEFINE i == Min(Waiting(e))
           q == [punch[i] EXCEPT !.active = FALSE]
<1>1. i \in 1..Len(punch) /\ punch[i].active /\ punch[i].dial = e
  BY WaitingIsThere
<1>2. /\ punch \in Seq(Pending) /\ dials \in Seq(Dial) /\ punch[i] \in Pending
      /\ e \in 1..Len(dials) /\ dials[e].state = "holepunch" /\ dials[e].told = 0
  BY <1>1 DEF DialInv, Freed
<1>3. q \in Pending /\ q.dial = punch[i].dial /\ ~q.active /\ punch' = [punch EXCEPT ![i] = q]
  BY <1>2 DEF Pending, CloseDial
<1>4. /\ punch' \in Seq(Pending) /\ Len(punch') = Len(punch)
      /\ \A j \in 1..Len(punch) : punch'[j] = IF j = i THEN q ELSE punch[j]
  <2> HIDE DEF i, q
  <2> QED
    BY <1>1, <1>2, <1>3, ExceptSeq
<1>5. \A j \in 1..Len(punch) :
        /\ punch'[j].dial = punch[j].dial
        /\ punch'[j].active => punch[j].active /\ punch[j].dial # e
  <2> SUFFICES ASSUME NEW j \in 1..Len(punch)
               PROVE  /\ punch'[j].dial = punch[j].dial
                      /\ punch'[j].active => punch[j].active /\ punch[j].dial # e
    OBVIOUS
  <2> HIDE DEF q
  <2>1. CASE j = i
    BY <1>3, <1>4, <2>1
  <2>2. CASE j # i
    BY <1>1, <1>4, <2>2 DEF DialInv
  <2> QED
    BY <2>1, <2>2
<1>6. /\ dials' \in Seq(Dial) /\ Len(dials') = Len(dials)
      /\ \A c \in 1..Len(dials) : c # e => dials'[c] = dials[c]
      /\ dials'[e].told <= 1 /\ (dials'[e].state # Freed => dials'[e].told = 0)
  <2>1. CASE dials' = dials
    BY <1>2, <2>1
  <2>2. CASE dials' = Answered(e)
    BY <1>2, <2>2, AnsweredIs
  <2> QED
    BY <1>1, <2>1, <2>2 DEF CloseDial
<1>7. \A d \in 1..Len(dials') : dials'[d].told <= 1 /\ (dials'[d].state # Freed => dials'[d].told = 0)
  BY <1>2, <1>6 DEF DialInv
<1>8. \A j \in 1..Len(punch') :
        /\ punch'[j].dial \in 1..Len(dials')
        /\ punch'[j].active => dials'[punch'[j].dial].state = "holepunch"
  BY <1>4, <1>5, <1>6 DEF DialInv
<1>9. \A j, m \in 1..Len(punch') :
        punch'[j].active /\ punch'[m].active /\ punch'[j].dial = punch'[m].dial => j = m
  BY <1>4, <1>5 DEF DialInv
<1> QED
  BY <1>4, <1>6, <1>7, <1>8, <1>9 DEF DialInv

\* A new dial.
LEMMA DialStarts ==
  ASSUME DialInv, NEW k \in Pubkey, norn_dial_async(k)
  PROVE  DialInv'
<1>1. PICK c \in Dial : c.told = 0 /\ dials' = Append(dials, c)
  <2> DEFINE cond == (\E en \in norn_endpoint_cache_lookup(cache, k).found : "direct" \in en.caps) \/ ~TxnRoom
             c == Ctx(k, IF cond THEN Freed ELSE "resolving")
  <2>1. dials' = Append(dials, c)
    BY DEF norn_dial_async
  <2>2. c \in Dial /\ c.told = 0
    BY DEF Ctx, Dial, Freed
  <2> HIDE DEF c
  <2> QED
    BY <2>1, <2>2
<1>2. dials \in Seq(Dial) /\ punch' = punch /\ Len(dials) \in Nat
  BY DEF DialInv, norn_dial_async
<1>3. /\ dials' \in Seq(Dial) /\ Len(dials') = Len(dials) + 1
      /\ \A d \in 1..Len(dials) : dials'[d] = dials[d]
      /\ dials'[Len(dials) + 1] = c
  BY <1>1, <1>2, AppendProperties
<1>4. ASSUME NEW d \in 1..Len(dials')
      PROVE  dials'[d].told <= 1 /\ (dials'[d].state # Freed => dials'[d].told = 0)
  <2>1. d \in 1..Len(dials) \/ d = Len(dials) + 1
    BY <1>2, <1>3
  <2> QED
    BY <2>1, <1>1, <1>3 DEF DialInv
<1>5. ASSUME NEW i \in 1..Len(punch)
      PROVE  /\ punch[i].dial \in 1..Len(dials')
             /\ punch[i].active => dials'[punch[i].dial].state = "holepunch"
  BY <1>2, <1>3 DEF DialInv
<1> QED
  BY <1>2, <1>3, <1>4, <1>5 DEF DialInv

\* What on_endpoint_resolved may do to the context d and the list of hole punches.
Resolves(d) ==
  \/ dials' = [dials EXCEPT ![d].state = Freed] /\ punch' = punch
  \/ dials' = Answered(d) /\ punch' = punch
  \/ /\ dials' = [dials EXCEPT ![d].state = "holepunch"]
     /\ punch' = punch \/ punch' = Append(punch, [dial |-> d, active |-> TRUE])

\* The outcomes of on_endpoint_resolved, with those of the request it may send.
LEMMA ResolvedIs ==
  ASSUME NEW d, NEW found, NEW caps, NEW works, on_endpoint_resolved(d, found, caps, works)
  PROVE  Resolves(d)
<1> DEFINE dialled == found /\ "direct" \in caps /\ works
           punches == found /\ ~dialled /\ "rendezvous" \in caps
           req == norn_send_holepunch_req_async(d, works)
           more == Append(punch, [dial |-> d, active |-> TRUE])
<1>1. req.punch \in {punch, more} /\ (~req.sent => req.punch = punch)
  BY DEF norn_send_holepunch_req_async
<1>2. /\ dials' = IF dialled THEN [dials EXCEPT ![d].state = Freed]
                  ELSE IF punches /\ req.sent THEN [dials EXCEPT ![d].state = "holepunch"]
                  ELSE Answered(d)
      /\ punch' = IF punches THEN req.punch ELSE punch
  BY DEF on_endpoint_resolved
<1> HIDE DEF req, more
<1>3. CASE dialled
  BY <1>2, <1>3 DEF Resolves
<1>4. CASE ~dialled /\ punches /\ req.sent
  BY <1>1, <1>2, <1>4 DEF Resolves, more
<1>5. CASE ~dialled /\ ~(punches /\ req.sent)
  BY <1>1, <1>2, <1>5 DEF Resolves
<1> QED
  BY <1>3, <1>4, <1>5

\* on_endpoint_resolved of a context that still resolves, and so has no entry yet.
LEMMA DialResolves ==
  ASSUME DialInv, NEW d \in 1..Len(dials), dials[d].state = "resolving", Resolves(d)
  PROVE  DialInv'
<1>1. /\ dials \in Seq(Dial) /\ punch \in Seq(Pending) /\ dials[d] \in Dial /\ dials[d].told = 0
      /\ Len(dials) \in Nat /\ Len(punch) \in Nat
  BY DEF DialInv, Freed
<1>2. \A i \in 1..Len(punch) : punch[i].active => punch[i].dial # d
  BY DEF DialInv
<1>3. /\ dials' \in Seq(Dial) /\ Len(dials') = Len(dials)
      /\ \A c \in 1..Len(dials) : c # d => dials'[c] = dials[c]
      /\ dials'[d].told <= 1 /\ (dials'[d].state # Freed => dials'[d].told = 0)
  <2>1. ASSUME NEW st \in {"holepunch", Freed}, dials' = [dials EXCEPT ![d].state = st]
        PROVE  /\ dials' \in Seq(Dial) /\ Len(dials') = Len(dials)
               /\ \A c \in 1..Len(dials) : c # d => dials'[c] = dials[c]
               /\ dials'[d].state = st /\ dials'[d].told = 0
    <3> DEFINE r == [dials[d] EXCEPT !.state = st]
    <3>1. r \in Dial /\ r.state = st /\ r.told = 0
      BY <1>1 DEF Dial
    <3>2. dials' = [dials EXCEPT ![d] = r]
      BY <2>1
    <3> HIDE DEF r
    <3> QED
      BY <1>1, <3>1, <3>2, ExceptSeq
  <2>2. CASE dials' = Answered(d)
    BY <1>1, <2>2, AnsweredIs
  <2>3. CASE dials' = [dials EXCEPT ![d].state = Freed]
    BY <2>1, <2>3
  <2>4. CASE dials' = [dials EXCEPT ![d].state = "holepunch"]
    BY <2>1, <2>4
  <2> QED
    BY <2>2, <2>3, <2>4 DEF Resolves
<1>4. CASE punch' = punch
  <2>1. \A e \in 1..Len(dials') : dials'[e].told <= 1 /\ (dials'[e].state # Freed => dials'[e].told = 0)
    BY <1>3 DEF DialInv
  <2>2. \A i \in 1..Len(punch) :
          /\ punch[i].dial \in 1..Len(dials')
          /\ punch[i].active => dials'[punch[i].dial].state = "holepunch"
    BY <1>2, <1>3 DEF DialInv
  <2>3. \A i, j \in 1..Len(punch) :
          punch[i].active /\ punch[j].active /\ punch[i].dial = punch[j].dial => i = j
    BY DEF DialInv
  <2> QED
    BY <1>1, <1>3, <1>4, <2>1, <2>2, <2>3 DEF DialInv
<1>5. CASE punch' # punch
  <2> DEFINE q == [dial |-> d, active |-> TRUE]
             n == Len(punch)
  <2>1. punch' = Append(punch, q) /\ dials'[d].state = "holepunch"
    <3>1. dials' = [dials EXCEPT ![d].state = "holepunch"] /\ punch' = Append(punch, q)
      BY <1>5 DEF Resolves
    <3> QED
      BY <1>1, <3>1 DEF Dial
  <2>2. q \in Pending /\ q.dial = d
    BY <1>1 DEF Pending
  <2> HIDE DEF q
  <2>3. /\ punch' \in Seq(Pending) /\ Len(punch') = n + 1 /\ punch'[n + 1] = q
        /\ \A i \in 1..n : punch'[i] = punch[i]
    BY <1>1, <2>1, <2>2, AppendProperties
  <2>4. \A e \in 1..Len(dials') : dials'[e].told <= 1 /\ (dials'[e].state # Freed => dials'[e].told = 0)
    BY <1>3 DEF DialInv
  <2>5. ASSUME NEW i \in 1..Len(punch')
        PROVE  /\ punch'[i].dial \in 1..Len(dials')
               /\ punch'[i].active => dials'[punch'[i].dial].state = "holepunch"
    <3>1. CASE i = n + 1
      BY <3>1, <1>3, <2>1, <2>2, <2>3
    <3>2. CASE i \in 1..n
      BY <3>2, <1>2, <1>3, <2>3 DEF DialInv
    <3> QED
      BY <3>1, <3>2, <1>1, <2>3
  <2>6. ASSUME NEW i \in 1..Len(punch'), NEW j \in 1..Len(punch'),
               punch'[i].active, punch'[j].active, punch'[i].dial = punch'[j].dial
        PROVE  i = j
    <3>1. i \in 1..n \/ i = n + 1
      BY <1>1, <2>3
    <3>2. j \in 1..n \/ j = n + 1
      BY <1>1, <2>3
    <3>3. CASE i \in 1..n /\ j \in 1..n
      BY <3>3, <2>3, <2>6 DEF DialInv
    <3>4. CASE i = n + 1 /\ j \in 1..n
      BY <3>4, <1>2, <2>2, <2>3, <2>6
    <3>5. CASE i \in 1..n /\ j = n + 1
      BY <3>5, <1>2, <2>2, <2>3, <2>6
    <3> QED
      BY <3>1, <3>2, <3>3, <3>4, <3>5
  <2> QED
    BY <1>3, <2>3, <2>4, <2>5, <2>6 DEF DialInv
<1> QED
  BY <1>4, <1>5

\* A step that touches neither the contexts nor their entries.
LEMMA DialQuiet ==
  ASSUME DialInv, UNCHANGED <<dials, punch>>
  PROVE  DialInv'
BY DEF DialInv

\* Responses and probes may come twice, late, or both, and resolves may fail or succeed:
\* a dial's callback is called at most once and a freed context is out of every packet's
\* reach (norn_dial_async, on_endpoint_resolved, dispatch_response).
THEOREM DialAnsweredOnce == NatSpec => []ToldOnce
<1>1. NatInit => DialInv
  BY DEF NatInit, DialInv
<1>2. DialInv /\ [NatNext]_natVars => DialInv'
  <2> SUFFICES ASSUME DialInv, [NatNext]_natVars PROVE DialInv'
    OBVIOUS
  <2>1. ASSUME NEW k \in Pubkey, norn_dial_async(k) PROVE DialInv'
    BY <2>1, DialStarts
  <2>2. ASSUME NEW d \in DOMAIN dials, NEW found \in BOOLEAN, NEW works \in BOOLEAN,
               NEW caps \in Caps, on_endpoint_resolved(d, found, caps, works)
        PROVE  DialInv'
    <3>1. d \in 1..Len(dials) /\ dials[d].state = "resolving"
      BY <2>2 DEF DialInv, on_endpoint_resolved
    <3>2. Resolves(d)
      BY <2>2, ResolvedIs
    <3> QED
      BY <3>1, <3>2, DialResolves
  <2>3. ASSUME NEW d \in DOMAIN dials, NEW address \in BOOLEAN, RecvHolepunchResp(d, address)
        PROVE  DialInv'
    <3>1. Waiting(d) # {} /\ CloseDial(Min(Waiting(d)))
      BY <2>3 DEF RecvHolepunchResp, CloseDial
    <3> QED
      BY <3>1, EntryEnds
  <2>4. ASSUME NEW d \in DOMAIN dials, RecvProbe(d) PROVE DialInv'
    <3>1. Waiting(d) # {} /\ CloseDial(Min(Waiting(d)))
      BY <2>4 DEF RecvProbe, CloseDial
    <3> QED
      BY <3>1, EntryEnds
  <2>5. ASSUME NEW e \in Endpoint, net_update_external_ip(e) \/ net_set_mapped_endpoint(e)
        PROVE  DialInv'
    BY <2>5, DialQuiet DEF net_update_external_ip, net_set_mapped_endpoint, dialVars
  <2>6. CASE Track("discover") \/ norn_tick \/ net_reset_external \/ norn_relay_handle_create("id")
    BY <2>6, DialQuiet DEF Track, norn_tick, net_reset_external, norn_relay_handle_create, dialVars
  <2>7. CASE UNCHANGED natVars
    BY <2>7, DialQuiet DEF natVars
  <2>8. ASSUME NEW k \in Pubkey, norn_endpoint_cache_remove(k) \/ norn_rendezvous_handle_req(k)
        PROVE  DialInv'
    BY <2>8, DialQuiet DEF norn_endpoint_cache_remove, norn_rendezvous_handle_req, dialVars
  <2>9. ASSUME NEW k \in Pubkey, NEW caps \in Caps, norn_endpoint_cache_store(k, caps)
         PROVE  DialInv'
    BY <2>9, DialQuiet DEF norn_endpoint_cache_store, dialVars
  <2> QED
    BY <2>1, <2>2, <2>3, <2>4, <2>5, <2>6, <2>7, <2>8, <2>9 DEF NatNext
<1>3. DialInv => ToldOnce
  <2> SUFFICES ASSUME DialInv PROVE ToldOnce
    OBVIOUS
  <2>1. DOMAIN dials = 1..Len(dials) /\ DOMAIN punch = 1..Len(punch)
    BY DEF DialInv
  <2> QED
    BY <2>1 DEF DialInv, ToldOnce, Freed
<1> QED
  BY <1>1, <1>2, <1>3, PTL DEF NatSpec

-----------------------------------------------------------------------------
(* The node's own address. *)

\* An endpoint has no more votes in the table than reports since the network changed.
VotesReported(v, reports) == \A i \in 1..Len(v) : v[i].n <= reports[v[i].ep]

VoteInv ==
  /\ votes \in Seq(Vote)
  /\ since \in [Endpoint -> Nat]
  /\ ext = [valid |-> ext.valid, ep |-> ext.ep, mapped |-> ext.mapped]
  /\ VotesReported(votes, since)
  /\ (ext.valid /\ ~ext.mapped) => ext.ep \in Endpoint
  /\ EndpointCorroborated

\* A report of e, counted or not, leaves the table within the reports.
LEMMA VotedIs ==
  ASSUME VoteInv, NEW e \in Endpoint, NEW reports, reports = [since EXCEPT ![e] = @ + 1]
  PROVE  /\ reports \in [Endpoint -> Nat] /\ \A f \in Endpoint : since[f] <= reports[f]
         /\ VotesReported(votes, reports)
         /\ Voted(e) \in Seq(Vote) /\ Voted(e) # <<>> /\ VotesReported(Voted(e), reports)
<1>1. votes \in Seq(Vote) /\ since \in [Endpoint -> Nat] /\ Len(votes) \in Nat
  BY DEF VoteInv
<1>2. /\ reports \in [Endpoint -> Nat] /\ \A f \in Endpoint : since[f] <= reports[f]
      /\ reports[e] = since[e] + 1
  BY <1>1
<1>3. \A i \in 1..Len(votes) : /\ votes[i] \in Vote /\ votes[i].ep \in Endpoint /\ votes[i].n \in Nat
                               /\ votes[i].n <= since[votes[i].ep]
  <2>1. \A i \in 1..Len(votes) : votes[i] \in Vote
    BY <1>1
  <2> QED
    BY <2>1 DEF VoteInv, VotesReported, Vote
<1>4. VotesReported(votes, reports)
  <2> SUFFICES ASSUME NEW i \in 1..Len(votes) PROVE votes[i].n <= reports[votes[i].ep]
    BY DEF VotesReported
  <2>1. since[votes[i].ep] \in Nat /\ reports[votes[i].ep] \in Nat /\ votes[i].n \in Nat
    BY <1>1, <1>2, <1>3
  <2> QED
    BY <1>2, <1>3, <2>1
<1> DEFINE hits == {i \in DOMAIN votes : votes[i].ep = e}
<1>5. CASE hits # {}
  <2> DEFINE i == Min(hits)
             r == [votes[i] EXCEPT !.n = @ + 1]
  <2>1. i \in hits
    <3>1. hits \in SUBSET (1..Len(votes))
      BY <1>1
    <3> HIDE DEF hits
    <3> QED
      BY <1>1, <1>5, <3>1, MinIsThere
  <2>2. i \in 1..Len(votes) /\ votes[i].ep = e
    BY <1>1, <2>1
  <2>3. Voted(e) = [votes EXCEPT ![i] = r]
    BY <1>5 DEF Voted
  <2>4. r \in Vote /\ r.ep = e /\ r.n = votes[i].n + 1
    <3>1. votes[i] \in Vote
      BY <1>3, <2>2
    <3> HIDE DEF i
    <3> QED
      BY <2>2, <3>1 DEF Vote
  <2> HIDE DEF r, i
  <2>5. /\ Voted(e) \in Seq(Vote) /\ Len(Voted(e)) = Len(votes)
        /\ \A j \in 1..Len(votes) : Voted(e)[j] = IF j = i THEN r ELSE votes[j]
    BY <1>1, <2>2, <2>3, <2>4, ExceptSeq
  <2>6. VotesReported(Voted(e), reports)
    <3> SUFFICES ASSUME NEW j \in 1..Len(votes) PROVE Voted(e)[j].n <= reports[Voted(e)[j].ep]
      BY <2>5 DEF VotesReported
    <3>1. CASE j = i
      BY <3>1, <1>1, <1>2, <1>3, <2>2, <2>4, <2>5
    <3>2. CASE j # i
      BY <3>2, <1>4, <2>5 DEF VotesReported
    <3> QED
      BY <3>1, <3>2
  <2>7. Voted(e) # <<>>
    BY <1>1, <2>2, <2>5
  <2> QED
    BY <1>2, <1>4, <2>5, <2>6, <2>7
<1>6. CASE hits = {} /\ Len(votes) < EXT_MAX_VOTES
  <2> DEFINE r == [ep |-> e, n |-> 1]
  <2>1. Voted(e) = Append(votes, r)
    BY <1>6 DEF Voted
  <2>2. r \in Vote /\ r.ep = e /\ r.n = 1
    BY DEF Vote
  <2> HIDE DEF r
  <2>3. /\ Voted(e) \in Seq(Vote) /\ Len(Voted(e)) = Len(votes) + 1 /\ Voted(e) # <<>>
        /\ \A j \in 1..Len(votes) : Voted(e)[j] = votes[j]
        /\ Voted(e)[Len(votes) + 1] = r
    BY <1>1, <2>1, <2>2, AppendProperties
  <2>4. VotesReported(Voted(e), reports)
    <3> SUFFICES ASSUME NEW j \in 1..(Len(votes) + 1) PROVE Voted(e)[j].n <= reports[Voted(e)[j].ep]
      BY <2>3 DEF VotesReported
    <3>1. CASE j = Len(votes) + 1
      BY <3>1, <1>1, <1>2, <2>2, <2>3
    <3>2. CASE j \in 1..Len(votes)
      BY <3>2, <1>4, <2>3 DEF VotesReported
    <3> QED
      BY <3>1, <3>2, <1>1
  <2> QED
    BY <1>2, <1>4, <2>3, <2>4
<1>7. CASE hits = {} /\ ~(Len(votes) < EXT_MAX_VOTES)
  <2>1. Voted(e) = votes
    BY <1>7 DEF Voted
  <2>2. votes # <<>>
    BY <1>7, NatAssumption
  <2> QED
    BY <1>1, <1>2, <1>4, <2>1, <2>2
<1> QED
  BY <1>5, <1>6, <1>7

\* net_update_external_ip: what becomes the node's address has the votes, and so the
\* reports.
LEMMA ReportKeeps ==
  ASSUME VoteInv, NEW e \in Endpoint, net_update_external_ip(e)
  PROVE  VoteInv'
<1>1. since' = [since EXCEPT ![e] = @ + 1]
  BY DEF net_update_external_ip
<1>2. /\ since' \in [Endpoint -> Nat] /\ \A f \in Endpoint : since[f] <= since'[f]
      /\ VotesReported(votes, since')
      /\ Voted(e) \in Seq(Vote) /\ Voted(e) # <<>> /\ VotesReported(Voted(e), since')
  BY <1>1, VotedIs
<1>3. /\ votes \in Seq(Vote) /\ since \in [Endpoint -> Nat]
      /\ ext = [valid |-> ext.valid, ep |-> ext.ep, mapped |-> ext.mapped]
  BY DEF VoteInv
<1>4. votes' \in Seq(Vote) /\ VotesReported(votes', since')
  <2>1. votes' = votes \/ votes' = Voted(e)
    BY DEF net_update_external_ip
  <2> QED
    BY <1>2, <1>3, <2>1
<1>5. CASE ext' = ext
  <2>1. (ext.valid /\ ~ext.mapped) => ext.ep \in Endpoint /\ since'[ext.ep] >= EXT_CONFIRM_THRESHOLD
    BY <1>2, <1>3, NatAssumption DEF VoteInv, EndpointCorroborated
  <2> QED
    BY <1>2, <1>3, <1>4, <1>5, <2>1 DEF VoteInv, EndpointCorroborated
<1>6. CASE ext' # ext
  <2> DEFINE top == Leading(votes')
  <2>1. /\ votes' = Voted(e) /\ top.n >= EXT_CONFIRM_THRESHOLD
        /\ ext' = [ext EXCEPT !.valid = TRUE, !.ep = top.ep]
    BY <1>6 DEF net_update_external_ip
  <2>2. PICK i \in 1..Len(votes') : top = votes'[i]
    BY <1>2, <2>1, LeadingIsThere
  <2>3. top \in Vote /\ top.n <= since'[top.ep]
    BY <1>4, <2>2 DEF VotesReported
  <2>4. top.ep \in Endpoint /\ top.n \in Nat /\ since'[top.ep] \in Nat
    BY <1>2, <2>3 DEF Vote
  <2>5. since'[top.ep] >= EXT_CONFIRM_THRESHOLD
    BY <2>1, <2>3, <2>4, NatAssumption
  <2> HIDE DEF top
  <2>6. /\ ext' = [valid |-> ext'.valid, ep |-> ext'.ep, mapped |-> ext'.mapped] /\ ext'.ep = top.ep
    BY <1>3, <2>1
  <2> QED
    BY <1>2, <1>4, <2>4, <2>5, <2>6 DEF VoteInv, EndpointCorroborated
<1> QED
  BY <1>5, <1>6

\* A step that touches neither the votes nor the address.
LEMMA VoteQuiet ==
  ASSUME VoteInv, UNCHANGED <<votes, ext, since>>
  PROVE  VoteInv'
BY DEF VoteInv, VotesReported, EndpointCorroborated

\* An address the node goes by, unless its router mapped it, was reported at least
\* EXT_CONFIRM_THRESHOLD times since the network last changed, however many endpoints
\* compete for however few places (net_update_external_ip, net_reset_external).
THEOREM AddressCorroborated == NatSpec => []EndpointCorroborated
<1>1. NatInit => VoteInv
  BY DEF NatInit, VoteInv, VotesReported, EndpointCorroborated
<1>2. VoteInv /\ [NatNext]_natVars => VoteInv'
  <2> SUFFICES ASSUME VoteInv, [NatNext]_natVars PROVE VoteInv'
    OBVIOUS
  <2>0. /\ votes \in Seq(Vote) /\ since \in [Endpoint -> Nat] /\ VotesReported(votes, since)
        /\ ext = [valid |-> ext.valid, ep |-> ext.ep, mapped |-> ext.mapped]
    BY DEF VoteInv
  <2>1. ASSUME NEW e \in Endpoint, net_update_external_ip(e) PROVE VoteInv'
    BY <2>1, ReportKeeps
  <2>2. ASSUME NEW e \in Endpoint, net_set_mapped_endpoint(e) PROVE VoteInv'
    <3>1. ext' = [valid |-> TRUE, ep |-> e, mapped |-> TRUE] /\ UNCHANGED <<votes, since>>
      BY <2>2 DEF net_set_mapped_endpoint
    <3> QED
      BY <2>0, <3>1 DEF VoteInv, EndpointCorroborated
  <2>3. CASE net_reset_external
    <3>1. /\ votes' = <<>> /\ ext' = [ext EXCEPT !.valid = FALSE]
          /\ since' = [e \in Endpoint |-> 0]
      BY <2>3 DEF net_reset_external
    <3>2. /\ ext' = [valid |-> ext'.valid, ep |-> ext'.ep, mapped |-> ext'.mapped] /\ ~ext'.valid
      BY <2>0, <3>1
    <3> QED
      BY <3>1, <3>2 DEF VoteInv, VotesReported, EndpointCorroborated
  <2>4. ASSUME NEW k \in Pubkey,
               \/ norn_endpoint_cache_remove(k) \/ norn_rendezvous_handle_req(k)
               \/ norn_dial_async(k)
        PROVE  VoteInv'
    BY <2>4, VoteQuiet DEF norn_endpoint_cache_remove, norn_rendezvous_handle_req,
       norn_dial_async, extVars
  <2>5. ASSUME NEW k \in Pubkey, NEW caps \in Caps, norn_endpoint_cache_store(k, caps)
        PROVE  VoteInv'
    BY <2>5, VoteQuiet DEF norn_endpoint_cache_store, extVars
  <2>6. ASSUME NEW d \in DOMAIN dials, NEW found \in BOOLEAN, NEW works \in BOOLEAN,
               NEW caps \in Caps, on_endpoint_resolved(d, found, caps, works)
        PROVE  VoteInv'
    BY <2>6, VoteQuiet DEF on_endpoint_resolved, extVars
  <2>7. ASSUME NEW d \in DOMAIN dials, NEW address \in BOOLEAN,
               RecvHolepunchResp(d, address) \/ RecvProbe(d)
        PROVE  VoteInv'
    BY <2>7, VoteQuiet DEF RecvHolepunchResp, RecvProbe, extVars
  <2>8. CASE Track("discover") \/ norn_tick \/ norn_relay_handle_create("id")
    BY <2>8, VoteQuiet DEF Track, norn_tick, norn_relay_handle_create, extVars
  <2>9. CASE UNCHANGED natVars
    BY <2>9, VoteQuiet DEF natVars
  <2> QED
    BY <2>1, <2>2, <2>3, <2>4, <2>5, <2>6, <2>7, <2>8, <2>9 DEF NatNext
<1>3. VoteInv => EndpointCorroborated
  BY DEF VoteInv
<1> QED
  BY <1>1, <1>2, <1>3, PTL DEF NatSpec

-----------------------------------------------------------------------------
(* Claims (NornCluster). *)

\* The writes of claimants.
LockCmd == {CasCmd(Lock, Empty, n) : n \in Node} \cup {CasCmd(Lock, n, Empty) : n \in Node}
LockWrite == [id : Nat, cmd : LockCmd, expect : Value]

Releases(w, n) == w.cmd = CasCmd(Lock, n, Empty)

ClaimTypes ==
  /\ leader \in [Node -> Node \cup {NoNode}]
  /\ fwd \subseteq [to : Node, write : LockWrite]
  /\ pending \subseteq LockWrite
  /\ chosen \in Seq(LockWrite)
  /\ done \in [Node -> Nat] /\ \A n \in Node : done[n] <= Len(chosen)
  /\ DOMAIN kv = Node
  /\ submits \in Nat
  /\ releasing \subseteq Node

-----------------------------------------------------------------------------
(* The inductive invariant. *)

\* h[i] is the map after the first i entries of the log: each replica is at one of
\* them, and a node that holds the key at one holds it at every later one, unless it
\* released it in between.
History(h, log) ==
  /\ DOMAIN h = 0..Len(log)
  /\ \A i \in 1..Len(log) : h[i] = Do(h[i - 1], log[i].cmd)
  /\ \A n \in Node : \A i \in 0..Len(log) : \A j \in i..Len(log) :
       Seen(h[i], Lock) = n =>
         Seen(h[j], Lock) = n \/ \E k \in (i + 1)..j : Releases(log[k], n)

ReplicasFollow == \E h : History(h, chosen) /\ \A n \in Node : kv[n] = h[done[n]]

\* Releases of n that its replica has not seen: forwarded, proposed and chosen ones.
Forwarded(n) == {f \in fwd : Releases(f.write, n)}
Proposed(n) == {w \in pending : Releases(w, n)}
Ahead(n) == {i \in (done[n] + 1)..Len(chosen) : Releases(chosen[i], n)}

NoRelease(n) == Forwarded(n) = {} /\ Proposed(n) = {} /\ Ahead(n) = {}

\* A claimant has at most one.
OneRelease(n) ==
  /\ \A x, y \in Forwarded(n) : x = y
  /\ \A x, y \in Proposed(n) : x = y
  /\ \A x, y \in Ahead(n) : x = y
  /\ Forwarded(n) = {} \/ Proposed(n) = {}
  /\ Forwarded(n) = {} \/ Ahead(n) = {}
  /\ Proposed(n) = {} \/ Ahead(n) = {}

ReleasesKnown ==
  \A n \in Node :
    /\ n \notin releasing => NoRelease(n)
    /\ n \in releasing => OneRelease(n) /\ Seen(kv[n], Lock) = n

ClaimInv == ClaimTypes /\ ReplicasFollow /\ ReleasesKnown

-----------------------------------------------------------------------------
(* Commands. *)

\* A command of a claimant leaves the key alone, or exchanges the two values it names.
LEMMA DoLock ==
  ASSUME NEW m, NEW c \in LockCmd
  PROVE  \/ Seen(Do(m, c), Lock) = Seen(m, Lock)
         \/ Seen(m, Lock) = c.expect /\ Seen(Do(m, c), Lock) = c.val
<1>1. c.op = "cas" /\ c.key = Lock
  BY DEF LockCmd, CasCmd
<1>2. CASE ~Takes(m, c)
  BY <1>2 DEF Do
<1>3. CASE Takes(m, c)
  <2>1. Do(m, c) = With(m, Lock, c.val)
    BY <1>1, <1>3 DEF Do
  <2>2. Seen(With(m, Lock, c.val), Lock) = c.val
    BY DEF Seen, With
  <2>3. Seen(m, Lock) = c.expect
    BY <1>1, <1>3 DEF Takes
  <2> QED
    BY <2>1, <2>2, <2>3
<1> QED
  BY <1>2, <1>3

\* Only a node's own release takes the key from it.
LEMMA OnlyReleaseLoses ==
  ASSUME NEW m, NEW w \in LockWrite, NEW n \in Node, Seen(m, Lock) = n,
         Seen(Do(m, w.cmd), Lock) # n
  PROVE  Releases(w, n)
<1>1. w.cmd \in LockCmd
  BY DEF LockWrite
<1>2. w.cmd.expect = n
  BY <1>1, DoLock
<1>3. n # Empty
  BY ClusterAssumption
<1>4. PICK p \in Node : w.cmd = CasCmd(Lock, Empty, p) \/ w.cmd = CasCmd(Lock, p, Empty)
  BY <1>1 DEF LockCmd
<1>5. CasCmd(Lock, Empty, p).expect = Empty /\ CasCmd(Lock, p, Empty).expect = p
  BY DEF CasCmd
<1> QED
  BY <1>2, <1>3, <1>4, <1>5 DEF Releases

\* A claim releases nothing, and a release is of one node.
LEMMA WhoseRelease ==
  ASSUME NEW n \in Node, NEW p \in Node
  PROVE  /\ CasCmd(Lock, Empty, n) # CasCmd(Lock, p, Empty)
         /\ CasCmd(Lock, n, Empty) = CasCmd(Lock, p, Empty) => n = p
<1>1. CasCmd(Lock, Empty, n).expect = Empty /\ CasCmd(Lock, p, Empty).expect = p
  BY DEF CasCmd
<1>2. CasCmd(Lock, n, Empty).expect = n
  BY DEF CasCmd
<1>3. p # Empty
  BY ClusterAssumption
<1> QED
  BY <1>1, <1>2, <1>3

-----------------------------------------------------------------------------
(* The log grows. *)

\* One more entry makes one more map.
LEMMA HistoryGrows ==
  ASSUME NEW log \in Seq(LockWrite), NEW w \in LockWrite, NEW h, History(h, log)
  PROVE  \E g : /\ History(g, Append(log, w))
                /\ \A i \in 0..Len(log) : g[i] = h[i]
<1> DEFINE L == Len(log)
           long == Append(log, w)
           last == Do(h[L], w.cmd)
           g == [i \in 0..(L + 1) |-> IF i = L + 1 THEN last ELSE h[i]]
<1>1. L \in Nat /\ long \in Seq(LockWrite) /\ Len(long) = L + 1 /\ long[L + 1] = w
  BY AppendProperties
<1>2. \A i \in 1..L : long[i] = log[i]
  BY AppendProperties
<1>3. \A i \in 0..L : g[i] = h[i]
  BY <1>1
<1>4. g[L + 1] = last /\ DOMAIN g = 0..(L + 1)
  BY <1>1
<1>5. /\ DOMAIN h = 0..L
      /\ \A i \in 1..L : h[i] = Do(h[i - 1], log[i].cmd)
      /\ \A n \in Node : \A i \in 0..L : \A j \in i..L :
           Seen(h[i], Lock) = n =>
             Seen(h[j], Lock) = n \/ \E k \in (i + 1)..j : Releases(log[k], n)
  BY DEF History
<1> HIDE DEF long, g
<1>6. \A i \in 1..(L + 1) : g[i] = Do(g[i - 1], long[i].cmd)
  <2> TAKE i \in 1..(L + 1)
  <2>1. CASE i = L + 1
    <3>1. g[i - 1] = h[L]
      BY <1>1, <1>3, <2>1
    <3> QED
      BY <1>1, <1>4, <2>1, <3>1
  <2>2. CASE i # L + 1
    <3>1. i \in 1..L /\ i - 1 \in 0..L /\ i \in 0..L
      BY <1>1, <2>2
    <3>2. g[i] = h[i] /\ g[i - 1] = h[i - 1] /\ long[i] = log[i]
      BY <1>2, <1>3, <3>1
    <3>3. h[i] = Do(h[i - 1], log[i].cmd)
      BY <1>5, <3>1
    <3> QED
      BY <3>2, <3>3
  <2> QED
    BY <2>1, <2>2
<1>7. ASSUME NEW n \in Node, NEW i \in 0..(L + 1), NEW j \in i..(L + 1),
             Seen(g[i], Lock) = n
      PROVE  Seen(g[j], Lock) = n \/ \E k \in (i + 1)..j : Releases(long[k], n)
  <2>1. CASE i = j
    BY <1>7, <2>1
  <2>2. CASE i # j /\ j # L + 1
    <3>1. i \in 0..L /\ j \in i..L /\ g[i] = h[i] /\ g[j] = h[j]
      BY <1>1, <1>3, <2>2
    <3>2. Seen(h[j], Lock) = n \/ \E k \in (i + 1)..j : Releases(log[k], n)
      BY <1>5, <1>7, <3>1
    <3>3. \A k \in (i + 1)..j : long[k] = log[k]
      BY <1>1, <1>2, <3>1
    <3> QED
      BY <3>1, <3>2, <3>3
  <2>3. CASE i # j /\ j = L + 1
    <3>1. i \in 0..L /\ L \in i..L /\ g[i] = h[i]
      BY <1>1, <1>3, <2>3
    <3>2. Seen(h[L], Lock) = n \/ \E k \in (i + 1)..L : Releases(log[k], n)
      BY <1>5, <1>7, <3>1
    <3>3. CASE Seen(h[L], Lock) = n
      <4>1. Seen(last, Lock) = n \/ Releases(w, n)
        BY <3>3, OnlyReleaseLoses
      <4>2. L + 1 \in (i + 1)..j
        BY <1>1, <2>3, <3>1
      <4> QED
        BY <1>1, <1>4, <2>3, <4>1, <4>2
    <3>4. CASE \E k \in (i + 1)..L : Releases(log[k], n)
      <4>1. PICK k \in (i + 1)..L : Releases(log[k], n)
        BY <3>4
      <4>2. k \in (i + 1)..j /\ k \in 1..L
        BY <1>1, <2>3, <3>1
      <4>3. Releases(long[k], n)
        BY <1>2, <4>1, <4>2
      <4> QED
        BY <4>2, <4>3
    <3> QED
      BY <3>2, <3>3, <3>4
  <2> QED
    BY <1>1, <2>1, <2>2, <2>3
<1>8. History(g, long)
  BY <1>1, <1>4, <1>6, <1>7 DEF History
<1> QED
  BY <1>3, <1>8 DEF long

-----------------------------------------------------------------------------
(* The invariant holds throughout. *)

LEMMA ClaimInit == ClusterInit => ClaimInv
<1> SUFFICES ASSUME ClusterInit PROVE ClaimInv
  OBVIOUS
<1> USE DEF ClusterInit
<1>1. Len(chosen) = 0 /\ chosen \in Seq(LockWrite)
  OBVIOUS
<1>2. ClaimTypes
  BY <1>1 DEF ClaimTypes
<1>3. ReplicasFollow
  <2> DEFINE h == [i \in 0..0 |-> EmptyMap]
  <2>1. History(h, chosen)
    BY <1>1 DEF History
  <2>2. \A n \in Node : kv[n] = h[done[n]]
    OBVIOUS
  <2> HIDE DEF h
  <2> QED
    BY <2>1, <2>2 DEF ReplicasFollow
<1>4. ReleasesKnown
  <2>1. \A n \in Node : NoRelease(n)
    BY <1>1 DEF NoRelease, Forwarded, Proposed, Ahead
  <2> QED
    BY <2>1 DEF ReleasesKnown
<1> QED
  BY <1>2, <1>3, <1>4 DEF ClaimInv

\* Steps that leave the log and the replicas alone.
LEMMA ReplicasStay ==
  ASSUME ReplicasFollow, UNCHANGED <<chosen, done, kv>>
  PROVE  ReplicasFollow'
BY DEF ReplicasFollow, History

\* Steps that leave the log and the replicas alone, and only drop proposals.
LEMMA ReleasesDrop ==
  ASSUME ReleasesKnown, UNCHANGED <<chosen, done, kv, releasing>>,
         fwd' \subseteq fwd, pending' \subseteq pending
  PROVE  ReleasesKnown'
BY DEF ReleasesKnown, NoRelease, OneRelease, Forwarded, Proposed, Ahead

\* A write is submitted: it is proposed at its leader, forwarded, or refused.
LEMMA SubmitAdds ==
  ASSUME ClaimTypes, NEW n \in Node, NEW c \in LockCmd, NEW e \in Value, kv_submit(n, c, e),
         releasing' \subseteq Node
  PROVE  /\ ClaimTypes'
         /\ UNCHANGED <<chosen, done, kv>>
         /\ \E w \in LockWrite, f \in [to : Node, write : LockWrite] :
              /\ w.cmd = c /\ f.write = w
              /\ \/ Accepted(n) /\ fwd' = fwd /\ pending' = pending \cup {w}
                 \/ Accepted(n) /\ fwd' = fwd \cup {f} /\ pending' = pending
                 \/ ~Accepted(n) /\ fwd' = fwd /\ pending' = pending
<1> DEFINE w == [id |-> submits + 1, cmd |-> c, expect |-> e]
           f == [to |-> leader[n], write |-> w]
           g == [to |-> n, write |-> w]
           room == Len(chosen) + Cardinality(pending) < RAFT_MAX_LOG
<1>1. w \in LockWrite /\ w.cmd = c
  BY DEF ClaimTypes, LockWrite
<1>2. /\ submits' = submits + 1
      /\ IF leader[n] = n THEN pending' = (IF room THEN pending \cup {w} ELSE pending)
         ELSE pending' = pending
      /\ fwd' = IF leader[n] \in {n, NoNode} THEN fwd ELSE fwd \cup {f}
      /\ UNCHANGED <<leader, chosen, done, kv>>
  BY DEF kv_submit, Proposes
<1>3. Accepted(n) <=> leader[n] # NoNode /\ (leader[n] = n => room)
  BY DEF Accepted
<1>4. leader[n] \in Node \cup {NoNode} /\ NoNode \notin Node
  BY ClusterAssumption DEF ClaimTypes
<1>5. f.write = w /\ g.write = w /\ g \in [to : Node, write : LockWrite]
  BY <1>1
<1>6. leader[n] \in Node => f \in [to : Node, write : LockWrite]
  BY <1>1
<1> HIDE DEF w, f, g, room
<1>7. \/ Accepted(n) /\ fwd' = fwd /\ pending' = pending \cup {w}
      \/ Accepted(n) /\ leader[n] \in Node /\ fwd' = fwd \cup {f} /\ pending' = pending
      \/ ~Accepted(n) /\ fwd' = fwd /\ pending' = pending
  BY <1>2, <1>3, <1>4
<1>8. ClaimTypes'
  <2>1. fwd' \subseteq [to : Node, write : LockWrite]
    BY <1>6, <1>7 DEF ClaimTypes
  <2>2. pending' \subseteq LockWrite
    BY <1>1, <1>7 DEF ClaimTypes
  <2>3. submits' \in Nat
    BY <1>2 DEF ClaimTypes
  <2> QED
    BY <1>2, <2>1, <2>2, <2>3 DEF ClaimTypes
<1>9. CASE leader[n] \in Node
  BY <1>1, <1>2, <1>5, <1>6, <1>7, <1>8, <1>9
<1>10. CASE leader[n] \notin Node
  BY <1>1, <1>2, <1>5, <1>7, <1>8, <1>10
<1> QED
  BY <1>9, <1>10

\* A claim is no release.
LEMMA ClaimKeepsInv ==
  ASSUME ClaimInv, NEW n \in Node, Claim(n)
  PROVE  ClaimInv'
<1> DEFINE c == CasCmd(Lock, Empty, n)
<1>1. c \in LockCmd /\ Empty \in Value
  <2>1. c \in LockCmd
    BY DEF LockCmd
  <2>2. Empty \in Value
    BY ClusterAssumption
  <2> QED
    BY <2>1, <2>2
<1>2. kv_submit(n, c, Empty) /\ releasing' = releasing
  BY DEF Claim
<1>3. ClaimTypes /\ ReplicasFollow /\ ReleasesKnown /\ releasing \subseteq Node
  BY DEF ClaimInv, ClaimTypes
<1> HIDE DEF c
<1>4. PICK w \in LockWrite, f \in [to : Node, write : LockWrite] :
        /\ w.cmd = c /\ f.write = w
        /\ \/ fwd' = fwd /\ pending' = pending \cup {w}
           \/ fwd' = fwd \cup {f} /\ pending' = pending
           \/ fwd' = fwd /\ pending' = pending
  BY <1>1, <1>2, <1>3, SubmitAdds
<1>5. ClaimTypes' /\ UNCHANGED <<chosen, done, kv>>
  BY <1>1, <1>2, <1>3, SubmitAdds
<1>6. \A p \in Node : ~Releases(w, p) /\ ~Releases(f.write, p)
  BY <1>4, WhoseRelease DEF Releases, c
<1>7. ASSUME NEW p \in Node
      PROVE  Forwarded(p)' = Forwarded(p) /\ Proposed(p)' = Proposed(p) /\ Ahead(p)' = Ahead(p)
  <2>1. Forwarded(p)' = Forwarded(p)
    BY <1>4, <1>6 DEF Forwarded
  <2>2. Proposed(p)' = Proposed(p)
    BY <1>4, <1>6 DEF Proposed
  <2>3. Ahead(p)' = Ahead(p)
    BY <1>5 DEF Ahead
  <2> QED
    BY <2>1, <2>2, <2>3
<1>8. ReleasesKnown'
  BY <1>2, <1>3, <1>5, <1>7 DEF ReleasesKnown, NoRelease, OneRelease
<1> QED
  BY <1>3, <1>5, <1>8, ReplicasStay DEF ClaimInv

\* A node releases only when it has no release under way.
LEMMA ReleaseKeepsInv ==
  ASSUME ClaimInv, NEW n \in Node, Release(n)
  PROVE  ClaimInv'
<1> DEFINE c == CasCmd(Lock, n, Empty)
<1>1. c \in LockCmd /\ n \in Value
  BY ClusterAssumption DEF LockCmd
<1>2. /\ kv_submit(n, c, n) /\ n \notin releasing /\ Seen(kv[n], Lock) = n
      /\ releasing' = IF Accepted(n) THEN releasing \cup {n} ELSE releasing
  BY DEF Release
<1>3. ClaimTypes /\ ReplicasFollow /\ ReleasesKnown /\ releasing' \subseteq Node
  BY <1>2 DEF ClaimInv, ClaimTypes
<1> HIDE DEF c
<1>4. PICK w \in LockWrite, f \in [to : Node, write : LockWrite] :
        /\ w.cmd = c /\ f.write = w
        /\ \/ Accepted(n) /\ fwd' = fwd /\ pending' = pending \cup {w}
           \/ Accepted(n) /\ fwd' = fwd \cup {f} /\ pending' = pending
           \/ ~Accepted(n) /\ fwd' = fwd /\ pending' = pending
  BY <1>1, <1>2, <1>3, SubmitAdds
<1>5. ClaimTypes' /\ UNCHANGED <<chosen, done, kv>>
  BY <1>1, <1>2, <1>3, SubmitAdds
<1>6. \A p \in Node : p # n => ~Releases(w, p) /\ ~Releases(f.write, p)
  BY <1>4, WhoseRelease DEF Releases, c
<1>7. \A p \in Node : Ahead(p)' = Ahead(p)
  BY <1>5 DEF Ahead
<1>8. \A p \in Node \ {n} : Forwarded(p)' = Forwarded(p)
  BY <1>4, <1>6 DEF Forwarded
<1>9. \A p \in Node \ {n} : Proposed(p)' = Proposed(p)
  BY <1>4, <1>6 DEF Proposed
<1>10. NoRelease(n)
  BY <1>2, <1>3 DEF ReleasesKnown
<1>11. Accepted(n) => OneRelease(n)'
  <2> SUFFICES ASSUME Accepted(n) PROVE OneRelease(n)'
    OBVIOUS
  <2>1. Forwarded(n) = {} /\ Proposed(n) = {} /\ Ahead(n)' = {}
    BY <1>7, <1>10 DEF NoRelease
  <2>2. CASE fwd' = fwd /\ pending' = pending \cup {w}
    <3>1. Forwarded(n)' = {} /\ Proposed(n)' \subseteq {w}
      BY <2>1, <2>2 DEF Forwarded, Proposed
    <3> QED
      BY <2>1, <3>1 DEF OneRelease
  <2>3. CASE fwd' = fwd \cup {f} /\ pending' = pending
    <3>1. Forwarded(n)' \subseteq {f} /\ Proposed(n)' = {}
      BY <2>1, <2>3 DEF Forwarded, Proposed
    <3> QED
      BY <2>1, <3>1 DEF OneRelease
  <2> QED
    BY <1>4, <2>2, <2>3
<1>12. ~Accepted(n) => NoRelease(n)'
  BY <1>4, <1>7, <1>10 DEF NoRelease, Forwarded, Proposed
<1>13. \A p \in Node \ {n} :
         /\ (p \in releasing') = (p \in releasing)
         /\ NoRelease(p)' = NoRelease(p) /\ OneRelease(p)' = OneRelease(p)
  BY <1>2, <1>7, <1>8, <1>9 DEF NoRelease, OneRelease
<1>14. ReleasesKnown'
  BY <1>2, <1>3, <1>5, <1>11, <1>12, <1>13 DEF ReleasesKnown
<1> QED
  BY <1>3, <1>5, <1>14, ReplicasStay DEF ClaimInv

\* A frame becomes a proposal, or nothing.
LEMMA ForwardKeepsInv ==
  ASSUME ClaimInv, NEW f \in fwd, RecvForward(f)
  PROVE  ClaimInv'
<1>1. ClaimTypes /\ ReplicasFollow /\ ReleasesKnown
  BY DEF ClaimInv
<1>2. f \in [to : Node, write : LockWrite] /\ f.write \in LockWrite
  BY <1>1 DEF ClaimTypes
<1>3. /\ fwd' = fwd \ {f} /\ UNCHANGED <<leader, chosen, done, kv, submits, releasing>>
      /\ pending' = pending \/ pending' = pending \cup {f.write}
  BY DEF RecvForward, Proposes
<1>4. ClaimTypes'
  BY <1>1, <1>2, <1>3 DEF ClaimTypes
<1>5. ASSUME NEW p \in Node
      PROVE  /\ NoRelease(p) => NoRelease(p)'
             /\ OneRelease(p) => OneRelease(p)'
  <2>1. Ahead(p)' = Ahead(p) /\ Forwarded(p)' = Forwarded(p) \ {f}
    BY <1>3 DEF Ahead, Forwarded
  <2>2. CASE ~Releases(f.write, p)
    <3>1. Forwarded(p)' = Forwarded(p) /\ Proposed(p)' \subseteq Proposed(p)
      BY <1>3, <2>2 DEF Forwarded, Proposed
    <3> QED
      BY <2>1, <3>1 DEF NoRelease, OneRelease
  <2>3. CASE Releases(f.write, p)
    <3>1. f \in Forwarded(p)
      BY <2>3 DEF Forwarded
    <3>2. Proposed(p)' \subseteq Proposed(p) \cup {f.write}
      BY <1>3 DEF Proposed
    <3>3. OneRelease(p) => Proposed(p) = {} /\ Ahead(p) = {} /\ Forwarded(p)' = {}
      BY <2>1, <3>1 DEF OneRelease
    <3> QED
      BY <2>1, <3>1, <3>2, <3>3 DEF NoRelease, OneRelease
  <2> QED
    BY <2>2, <2>3
<1>6. ReleasesKnown'
  BY <1>1, <1>3, <1>5 DEF ReleasesKnown
<1> QED
  BY <1>1, <1>3, <1>4, <1>6, ReplicasStay DEF ClaimInv

\* A proposal becomes the last entry of the log.
LEMMA CommitKeepsInv ==
  ASSUME ClaimInv, NEW w \in pending, Commit(w)
  PROVE  ClaimInv'
<1>1. ClaimTypes /\ ReplicasFollow /\ ReleasesKnown
  BY DEF ClaimInv
<1> DEFINE L == Len(chosen)
<1>2. /\ w \in LockWrite /\ chosen \in Seq(LockWrite) /\ L \in Nat
      /\ \A n \in Node : done[n] \in 0..L
  BY <1>1 DEF ClaimTypes
<1>3. /\ pending' = pending \ {w} /\ chosen' = Append(chosen, w)
      /\ UNCHANGED <<leader, done, fwd, kv, submits, releasing>>
  BY DEF Commit
<1>4. /\ chosen' \in Seq(LockWrite) /\ Len(chosen') = L + 1 /\ chosen'[L + 1] = w
      /\ \A i \in 1..L : chosen'[i] = chosen[i]
  BY <1>2, <1>3, AppendProperties
<1>5. ClaimTypes'
  <2>1. \A n \in Node : done'[n] <= Len(chosen')
    BY <1>2, <1>3, <1>4
  <2> QED
    BY <1>1, <1>3, <1>4, <2>1 DEF ClaimTypes
<1>6. ReplicasFollow'
  <2>1. PICK h : History(h, chosen) /\ \A n \in Node : kv[n] = h[done[n]]
    BY <1>1 DEF ReplicasFollow
  <2>2. PICK g : History(g, chosen') /\ \A i \in 0..L : g[i] = h[i]
    BY <1>2, <1>3, <2>1, HistoryGrows
  <2>3. \A n \in Node : kv'[n] = g[done'[n]]
    BY <1>2, <1>3, <2>1, <2>2
  <2> QED
    BY <2>2, <2>3 DEF ReplicasFollow
<1>7. ASSUME NEW p \in Node
      PROVE  /\ NoRelease(p) => NoRelease(p)'
             /\ OneRelease(p) => OneRelease(p)'
  <2>1. Forwarded(p)' = Forwarded(p) /\ Proposed(p)' = Proposed(p) \ {w}
    BY <1>3 DEF Forwarded, Proposed
  <2>2. Ahead(p)' \subseteq Ahead(p) \cup {L + 1}
    BY <1>2, <1>3, <1>4 DEF Ahead
  <2>3. CASE ~Releases(w, p)
    <3>1. Ahead(p)' \subseteq Ahead(p)
      BY <1>2, <1>3, <1>4, <2>2, <2>3 DEF Ahead
    <3> QED
      BY <2>1, <3>1 DEF NoRelease, OneRelease
  <2>4. CASE Releases(w, p)
    <3>1. w \in Proposed(p)
      BY <2>4 DEF Proposed
    <3>2. OneRelease(p) => Proposed(p)' = {} /\ Ahead(p) = {} /\ Forwarded(p) = {}
      BY <2>1, <3>1 DEF OneRelease
    <3> QED
      BY <2>1, <2>2, <3>1, <3>2 DEF NoRelease, OneRelease
  <2> QED
    BY <2>3, <2>4
<1>8. ReleasesKnown'
  BY <1>1, <1>3, <1>7 DEF ReleasesKnown
<1> QED
  BY <1>5, <1>6, <1>8 DEF ClaimInv

\* A replica moves on by one entry; the claimant whose release that was has none left.
LEMMA ApplyKeepsInv ==
  ASSUME ClaimInv, NEW n \in Node, ApplyNext(n)
  PROVE  ClaimInv'
<1>1. ClaimTypes /\ ReplicasFollow /\ ReleasesKnown
  BY DEF ClaimInv
<1> DEFINE L == Len(chosen)
           d == done[n] + 1
           replica == Do(kv[n], chosen[d].cmd)
<1>2. /\ chosen \in Seq(LockWrite) /\ L \in Nat /\ d \in 1..L
      /\ chosen[d] \in LockWrite /\ done[n] \in 0..L /\ d - 1 = done[n]
  BY <1>1 DEF ClaimTypes, ApplyNext
<1>3. /\ done' = [done EXCEPT ![n] = d]
      /\ kv' = [kv EXCEPT ![n] = replica]
      /\ releasing' = IF Seen(replica, Lock) = n THEN releasing ELSE releasing \ {n}
      /\ UNCHANGED <<leader, pending, chosen, fwd, submits>>
  BY DEF ApplyNext
<1> HIDE DEF replica
<1>4. /\ done'[n] = d /\ kv'[n] = replica
      /\ \A p \in Node \ {n} : done'[p] = done[p] /\ kv'[p] = kv[p]
      /\ done' \in [Node -> Nat] /\ DOMAIN kv' = Node
  BY <1>1, <1>2, <1>3 DEF ClaimTypes
<1>5. ClaimTypes'
  <2>1. \A p \in Node : done'[p] <= Len(chosen')
    BY <1>1, <1>2, <1>3, <1>4 DEF ClaimTypes
  <2>2. releasing' \subseteq Node
    BY <1>1, <1>3 DEF ClaimTypes
  <2> QED
    BY <1>1, <1>3, <1>4, <2>1, <2>2 DEF ClaimTypes
<1>6. ReplicasFollow'
  <2>1. PICK h : History(h, chosen) /\ \A p \in Node : kv[p] = h[done[p]]
    BY <1>1 DEF ReplicasFollow
  <2>2. h[d] = Do(h[d - 1], chosen[d].cmd)
    BY <1>2, <2>1 DEF History
  <2>3. kv'[n] = h[done'[n]]
    BY <1>2, <1>4, <2>1, <2>2 DEF replica
  <2>4. \A p \in Node : kv'[p] = h[done'[p]]
    BY <1>4, <2>1, <2>3
  <2>5. History(h, chosen')
    BY <1>3, <2>1
  <2> QED
    BY <2>4, <2>5 DEF ReplicasFollow
<1>7. \A p \in Node : Forwarded(p)' = Forwarded(p) /\ Proposed(p)' = Proposed(p)
  BY <1>3 DEF Forwarded, Proposed
<1>8. \A p \in Node \ {n} : Ahead(p)' = Ahead(p)
  BY <1>3, <1>4 DEF Ahead
<1>9. Ahead(n)' = Ahead(n) \ {d}
  BY <1>2, <1>3, <1>4 DEF Ahead
<1>10. ASSUME NEW p \in Node \ {n}
       PROVE  /\ p \notin releasing' => NoRelease(p)'
              /\ p \in releasing' => OneRelease(p)' /\ Seen(kv'[p], Lock) = p
  <2>1. (p \in releasing') = (p \in releasing)
    BY <1>3
  <2>2. NoRelease(p)' = NoRelease(p) /\ OneRelease(p)' = OneRelease(p)
    BY <1>7, <1>8 DEF NoRelease, OneRelease
  <2> QED
    BY <1>1, <1>4, <2>1, <2>2 DEF ReleasesKnown
<1>11. NoRelease(n) => NoRelease(n)'
  BY <1>7, <1>9 DEF NoRelease
<1>12. OneRelease(n) => OneRelease(n)'
  BY <1>7, <1>9 DEF OneRelease
<1>13. n \in releasing' => OneRelease(n)' /\ Seen(kv'[n], Lock) = n
  BY <1>1, <1>3, <1>4, <1>12 DEF ReleasesKnown
<1>14. n \notin releasing' => NoRelease(n)'
  <2> SUFFICES ASSUME n \notin releasing' PROVE NoRelease(n)'
    OBVIOUS
  <2>1. CASE n \notin releasing
    BY <1>1, <1>11, <2>1 DEF ReleasesKnown
  <2>2. CASE n \in releasing
    <3>1. Seen(replica, Lock) # n
      BY <1>3, <2>2
    <3>2. Seen(kv[n], Lock) = n /\ OneRelease(n)
      BY <1>1, <2>2 DEF ReleasesKnown
    <3>3. Releases(chosen[d], n)
      BY <1>2, <3>1, <3>2, OnlyReleaseLoses DEF replica
    <3>4. d \in Ahead(n)
      BY <1>2, <3>3 DEF Ahead
    <3> QED
      BY <1>7, <1>9, <3>2, <3>4 DEF OneRelease, NoRelease
  <2> QED
    BY <2>1, <2>2
<1>15. ReleasesKnown'
  BY <1>10, <1>13, <1>14 DEF ReleasesKnown
<1> QED
  BY <1>5, <1>6, <1>15 DEF ClaimInv

LEMMA ClaimNextInv == ClaimInv /\ [ClaimNext]_clusterVars => ClaimInv'
<1> SUFFICES ASSUME ClaimInv, [ClaimNext]_clusterVars PROVE ClaimInv'
  OBVIOUS
<1>1. ClaimTypes /\ ReplicasFollow /\ ReleasesKnown
  BY DEF ClaimInv
<1>2. ASSUME NEW n \in Node, NEW l \in Node \cup {NoNode}, LearnLeader(n, l) PROVE ClaimInv'
  <2>1. UNCHANGED <<pending, chosen, done, fwd, kv, submits, releasing>>
    BY <1>2 DEF LearnLeader
  <2>2. leader' \in [Node -> Node \cup {NoNode}]
    BY <1>1, <1>2 DEF LearnLeader, ClaimTypes
  <2>3. ClaimTypes'
    BY <1>1, <2>1, <2>2 DEF ClaimTypes
  <2>4. ReplicasFollow' /\ ReleasesKnown'
    BY <1>1, <2>1, ReplicasStay, ReleasesDrop
  <2> QED
    BY <2>3, <2>4 DEF ClaimInv
<1>3. ASSUME UNCHANGED <<leader, chosen, done, kv, submits, releasing>>,
             fwd' \subseteq fwd, pending' \subseteq pending
      PROVE  ClaimInv'
  <2>1. ClaimTypes'
    BY <1>1, <1>3 DEF ClaimTypes
  <2>2. ReplicasFollow' /\ ReleasesKnown'
    BY <1>1, <1>3, ReplicasStay, ReleasesDrop
  <2> QED
    BY <2>1, <2>2 DEF ClaimInv
<1>4. ASSUME NEW f \in fwd, LoseForward(f) PROVE ClaimInv'
  BY <1>3, <1>4 DEF LoseForward, raftVars
<1>5. ASSUME NEW w \in pending, LoseProposal(w) PROVE ClaimInv'
  BY <1>3, <1>5 DEF LoseProposal
<1>6. CASE UNCHANGED clusterVars
  BY <1>3, <1>6 DEF clusterVars, raftVars
<1>7. CASE ClusterNext
  BY <1>2, <1>4, <1>5, <1>7, ApplyKeepsInv, ForwardKeepsInv, CommitKeepsInv DEF ClusterNext
<1>8. CASE \E n \in Node : Claim(n) \/ Release(n)
  BY <1>8, ClaimKeepsInv, ReleaseKeepsInv
<1> QED
  BY <1>6, <1>7, <1>8 DEF ClaimNext

\* Of two owners the one whose replica is further ahead would show the other there.
LEMMA InvExcludes == ClaimInv => OwnerExclusive
<1> SUFFICES ASSUME ClaimInv, NEW n \in Node, NEW p \in Node, Owns(n), Owns(p), n # p
             PROVE  FALSE
  BY DEF OwnerExclusive
<1>1. ClaimTypes /\ ReplicasFollow /\ ReleasesKnown
  BY DEF ClaimInv
<1>2. PICK h : History(h, chosen) /\ \A q \in Node : kv[q] = h[done[q]]
  BY <1>1 DEF ReplicasFollow
<1>3. Len(chosen) \in Nat /\ \A q \in Node : done[q] \in 0..Len(chosen)
  BY <1>1 DEF ClaimTypes
<1>4. ASSUME NEW a \in Node, NEW b \in Node, Owns(a), Owns(b), done[a] <= done[b]
      PROVE  a = b
  <2>1. Seen(h[done[a]], Lock) = a /\ Seen(h[done[b]], Lock) = b
    BY <1>2, <1>4 DEF Owns
  <2>2. done[a] \in 0..Len(chosen) /\ done[b] \in done[a]..Len(chosen)
    BY <1>3, <1>4
  <2>3. \/ Seen(h[done[b]], Lock) = a
        \/ \E k \in (done[a] + 1)..done[b] : Releases(chosen[k], a)
    BY <1>2, <2>1, <2>2 DEF History
  <2>4. Ahead(a) = {}
    BY <1>1, <1>4 DEF ReleasesKnown, NoRelease, Owns
  <2>5. ~\E k \in (done[a] + 1)..done[b] : Releases(chosen[k], a)
    BY <1>3, <2>2, <2>4 DEF Ahead
  <2> QED
    BY <2>1, <2>3, <2>5
<1> QED
  BY <1>3, <1>4

\* The compare-and-set of norn_kv_apply, run in log order on every replica, gives a
\* single-owner key one owner at a time, whatever forwards are late or lost and however
\* old the replicas are that the claimants go by.
THEOREM OneOwner == ClaimSpec => []OwnerExclusive
<1>1. ClaimSpec => []ClaimInv
  BY ClaimInit, ClaimNextInv, PTL DEF ClaimSpec
<1> QED
  BY <1>1, InvExcludes, PTL
=============================================================================
