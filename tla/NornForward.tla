---------------------------- MODULE NornForward ----------------------------
(***************************************************************************)
(* The tunnel norn-forward (norn_forward_main.c) and its pump              *)
(* (libnorn/norn_forward.c).  As a client it accepts local connections and *)
(* opens a session and a stream for each; as a server it takes the streams *)
(* peers open and connects each to the local service.  A connection then   *)
(* copies bytes both ways between a socket and a stream.                   *)
(*                                                                         *)
(* The far ends of the socket and of the stream send bytes, named by their *)
(* connection and place, and may end their sending side at any time; a     *)
(* write to either takes as many bytes as it has room for.  The loop takes *)
(* its steps in turn; since they touch different slots of the table, the   *)
(* model takes them in any order.                                          *)
(***************************************************************************)
EXTENDS Naturals, SequencesExt

CONSTANTS
  MAX_CONN,
  bufsize,
  MaxConns,   \* bound: connections made
  MaxSent     \* bound: bytes each far end sends on a connection

ASSUME ForwardAssumption ==
  MAX_CONN \in Nat \ {0} /\ bufsize \in Nat \ {0} /\ MaxConns \in Nat /\ MaxSent \in Nat

VARIABLES
  server_mode,
  running,    \* FALSE once the process has crashed
  g_conns,    \* g_conns[i]: [fd, state, pump]; fd is a connection, or 0 for -1
  made,       \* connections so far; they are numbered
  far,        \* far[i][e]: [open, sent, ended, taken, got, eof]: the far end at side e of
              \* the last connection in slot i, and whether our end is in use
  last,       \* history: that connection, or 0
  failed      \* history: slots whose last connection met an error, or was alive at the end

forwardVars == <<server_mode, running, g_conns, made, far, last, failed>>

ConnSlot == 1..MAX_CONN
Side == {"fd", "stream"}
Other(e) == IF e = "fd" THEN "stream" ELSE "fd"

Bytes(k, e, from, to) == [i \in 1..(to - from) |-> [conn |-> k, side |-> e, at |-> from + i]]

-----------------------------------------------------------------------------
(* The pump. *)

\* One direction: what was read and not written yet, and how far its ends are.
Half == [buf |-> <<>>, src_eof |-> FALSE, dst_shut |-> FALSE]

norn_pump_new == [fd |-> Half, stream |-> Half]   \* by the side that is read

\* Mutant of Drained: the destination is shut as soon as the source has ended.
EofSeen(eof, buf) == eof

\* All that was read is written and no more will come.
Drained(eof, buf) == eof /\ buf = <<>>

\* half_drive, whose rounds end when the source has nothing more or the buffer is full,
\* and the buffer is empty or the destination, which took room bytes, takes no more.
half_drive(h, unread, ended, room) ==
  LET all == h.buf \o unread
      written == Min({room, Len(all)})
      rest == SubSeq(all, written + 1, Len(all))
      buf == SubSeq(rest, 1, Min({bufsize, Len(rest)}))
      eof == h.src_eof \/ (ended /\ Len(rest) < bufsize)
  IN  [half |-> [buf |-> buf, src_eof |-> eof, dst_shut |-> h.dst_shut \/ Drained(eof, buf)],
       out |-> SubSeq(all, 1, written),
       read |-> written + Len(buf) - Len(h.buf)]

\* Mutant of half_done: the end of the source is enough.
HalfEnded(h) == h.src_eof

half_done(h) == h.src_eof /\ h.buf = <<>> /\ h.dst_shut

-----------------------------------------------------------------------------
(* The table. *)

FreeConn == [fd |-> 0, state |-> "dead", pump |-> {}]

\* conn_alloc: the first slot without a descriptor; 0 when there is none.
conn_alloc ==
  LET S == {i \in ConnSlot : g_conns[i].fd = 0}
  IN  IF S = {} THEN 0 ELSE Min(S)

FarEnd(open) ==
  [open |-> open, sent |-> 0, ended |-> FALSE, taken |-> 0, got |-> <<>>, eof |-> FALSE]

\* Connection made + 1 gets slot i, with what is known of its stream.
Occupies(i, state, pump) ==
  /\ g_conns' = [g_conns EXCEPT ![i] = [fd |-> made + 1, state |-> state, pump |-> pump]]
  /\ far' = [far EXCEPT ![i] = [fd |-> FarEnd(TRUE), stream |-> FarEnd(pump # {})]]
  /\ last' = [last EXCEPT ![i] = made + 1]
  /\ failed' = failed \ {i}

\* conn_kill closes the descriptor, and a client its session too.
conn_kill(i, f) ==
  /\ g_conns' = [g_conns EXCEPT ![i] = FreeConn]
  /\ far' = [f EXCEPT ![i] = [e \in Side |-> [@[e] EXCEPT !.open = FALSE]]]
  /\ UNCHANGED last

\* accept, and norn_dial_async, which may fail at once; a connection that finds the
\* table full is closed.
Accept(dialled) ==
  /\ running /\ ~server_mode /\ made < MaxConns
  /\ made' = made + 1
  /\ \/ conn_alloc # 0 /\ dialled /\ Occupies(conn_alloc, "dialing", {})
     \/ (conn_alloc = 0 \/ ~dialled) /\ UNCHANGED <<g_conns, far, last, failed>>
  /\ UNCHANGED <<server_mode, running>>

\* on_session ESTABLISHED, and on_stream READY, which norn_stream_open_svc calls before it
\* returns; conn_start_pump.
on_forward_session(i) ==
  /\ running /\ g_conns[i].state = "dialing"
  /\ g_conns' = [g_conns EXCEPT ![i].state = "ready", ![i].pump = {norn_pump_new}]
  /\ far' = [far EXCEPT ![i]["stream"].open = TRUE]
  /\ UNCHANGED <<server_mode, running, made, last, failed>>

\* on_session CLOSED, or a stream that cannot be opened.
DialFails(i) ==
  /\ running /\ g_conns[i].state = "dialing"
  /\ conn_kill(i, far)
  /\ failed' = failed \cup {i}
  /\ UNCHANGED <<server_mode, running, made>>

\* on_inbound_stream: the service may refuse and the table may be full; the stream is
\* reset then.
on_inbound_stream(served) ==
  /\ running /\ server_mode /\ made < MaxConns
  /\ made' = made + 1
  /\ \/ conn_alloc # 0 /\ served /\ Occupies(conn_alloc, "ready", {norn_pump_new})
     \/ (conn_alloc = 0 \/ ~served) /\ UNCHANGED <<g_conns, far, last, failed>>
  /\ UNCHANGED <<server_mode, running>>

-----------------------------------------------------------------------------
(* The loop over the table. *)

Pump(i) == CHOOSE p \in g_conns[i].pump : TRUE

\* The half of slot i that reads side e, driven while its destination takes room bytes.
Driven(f, i, e, room) ==
  half_drive(Pump(i)[e], Bytes(g_conns[i].fd, e, f[i][e].taken, f[i][e].sent), f[i][e].ended, room)

\* What that does to its far ends: bytes are read from one, and the other is handed
\* bytes, and the end once its side is shut.
Takes(end, d) == [end EXCEPT !.taken = @ + d.read]
Gets(end, d) == [end EXCEPT !.got = @ \o d.out, !.eof = @ \/ d.half.dst_shut]
Copied(f, i, e, d) ==
  [f EXCEPT ![i] = [x \in Side |-> IF x = e THEN Takes(@[x], d) ELSE Gets(@[x], d)]]

\* norn_pump_drive of slot i, and what main makes of its result, when no read or write
\* fails.  Shutting a stream we opened calls on_stream with CLOSED, which kills the
\* connection and frees the pump that is being driven; what the pump then reads of
\* itself crashes the process, or fails and is taken for an error.
norn_pump_drive(i, roomB, roomA) ==
  LET ab == Driven(far, i, "fd", roomB)
      after == Copied(far, i, "fd", ab)
      ba == Driven(after, i, "stream", roomA)
      both == Copied(after, i, "stream", ba)
      freed == ~server_mode /\ ab.half.dst_shut
      done == half_done(ab.half) /\ half_done(ba.half)
  IN  /\ running /\ g_conns[i].state = "ready"
      /\ \/ /\ freed
            /\ running' \in BOOLEAN
            /\ conn_kill(i, after)
         \/ /\ ~freed /\ done
            /\ conn_kill(i, both)
            /\ UNCHANGED running
         \/ /\ ~freed /\ ~done
            /\ g_conns' = [g_conns EXCEPT ![i].pump = {[fd |-> ab.half, stream |-> ba.half]}]
            /\ far' = both
            /\ UNCHANGED <<running, last>>
      /\ UNCHANGED <<server_mode, made, failed>>

\* The same when a call of the half that reads side e fails, after some bytes were
\* written; what it holds is lost.  A half that is done makes no calls.
PumpFails(i, e, room) ==
  /\ running /\ g_conns[i].state = "ready" /\ ~Pump(i)[e].dst_shut
  /\ conn_kill(i, Copied(far, i, e, [Driven(far, i, e, room) EXCEPT !.half.dst_shut = FALSE]))
  /\ failed' = failed \cup {i}
  /\ UNCHANGED <<server_mode, running, made>>

\* A signal ends the loop: every connection is killed.
Stop ==
  /\ running
  /\ running' = FALSE
  /\ g_conns' = [i \in ConnSlot |-> FreeConn]
  /\ failed' = failed \cup {i \in ConnSlot : g_conns[i].fd # 0}
  /\ UNCHANGED <<server_mode, made, far, last>>

-----------------------------------------------------------------------------
(* The far ends. *)

FarSends(i, e) ==
  /\ running /\ far[i][e].open /\ ~far[i][e].ended /\ far[i][e].sent < MaxSent
  /\ far' = [far EXCEPT ![i][e].sent = @ + 1]
  /\ UNCHANGED <<server_mode, running, g_conns, made, last, failed>>

FarEnds(i, e) ==
  /\ running /\ far[i][e].open /\ ~far[i][e].ended
  /\ far' = [far EXCEPT ![i][e].ended = TRUE]
  /\ UNCHANGED <<server_mode, running, g_conns, made, last, failed>>

ForwardInit ==
  /\ server_mode \in BOOLEAN /\ running = TRUE /\ made = 0 /\ failed = {}
  /\ g_conns = [i \in ConnSlot |-> FreeConn]
  /\ far = [i \in ConnSlot |-> [e \in Side |-> FarEnd(FALSE)]]
  /\ last = [i \in ConnSlot |-> 0]

ForwardNext ==
  \/ \E ok \in BOOLEAN : Accept(ok) \/ on_inbound_stream(ok)
  \/ \E i \in ConnSlot :
       \/ on_forward_session(i) \/ DialFails(i)
       \/ \E roomB, roomA \in 0..MaxSent : norn_pump_drive(i, roomB, roomA)
       \/ \E e \in Side :
            \/ FarSends(i, e) \/ FarEnds(i, e)
            \/ \E room \in 0..MaxSent : PumpFails(i, e, room)
  \/ Stop

ForwardSpec == ForwardInit /\ [][ForwardNext]_forwardVars

-----------------------------------------------------------------------------
(* Properties. *)

\* Through short writes, full buffers and slots used again, each far end gets the bytes
\* of its own connection's other far end, in order, and the end of them only after all
\* (half_drive).
TunnelFaithful ==
  \A i \in ConnSlot, e \in Side :
    LET to == far[i][e]
        from == far[i][Other(e)]
    IN  /\ to.got = Bytes(last[i], Other(e), 0, Len(to.got))
        /\ to.eof => from.ended /\ Len(to.got) = from.sent

\* norn_pump_drive propagates "EOF and half-close" (norn_forward.h): a connection that
\* met no error is over only when both of its far ends have seen the other's end.
HalfCloseHonoured ==
  \A i \in ConnSlot : (last[i] # 0 /\ g_conns[i].fd = 0 /\ i \notin failed)
                        => \A e \in Side : far[i][e].eof

\* The same of a server, whose streams call nobody when they are closed.
ServedToTheEnd == server_mode => HalfCloseHonoured
=============================================================================
