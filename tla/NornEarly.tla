------------------------------ MODULE NornEarly ------------------------------
(***************************************************************************)
(* Early data of a reconnect (libnorn/channel.c, replaycache.c): the       *)
(* initiator seals its first flight into INIT under the secret cached from *)
(* an earlier session with the peer; the responder opens it at most once.  *)
(*                                                                         *)
(* The network may deliver a flight late, or again, or not at all.  A      *)
(* flight is known by its nonce and the secret it is sealed under; secrets *)
(* are numbered by the session they come from, the responder keeping the   *)
(* last.  The handshake that follows is NornSession's.                     *)
(***************************************************************************)
EXTENDS Integers, Sequences

CONSTANTS
  REPLAY_SLOTS, Window,
  MaxFlights, MaxSecrets, MaxSeconds, MaxOpened  \* bounds

ASSUME EarlyAssumption == REPLAY_SLOTS \in Nat \ {0} /\ Window \in Nat \ {0}

VARIABLES
  flights,    \* flights[n]: the secret that the flight with nonce n is sealed under
  psk,        \* the secret the responder holds; 0 before the first session
  cache,      \* replaycache_t: [slots, next]; a slot is [nonce, t], t = 0 when empty
  time,       \* the responder's clock, in seconds
  delivered   \* history: early data handed to the caller: [nonce, t]

earlyVars == <<flights, psk, cache, time, delivered>>

Slot == 0..(REPLAY_SLOTS - 1)

replaycache_init == [slots |-> [i \in Slot |-> [nonce |-> 0, t |-> 0]], next |-> 0]

\* A nonce recorded within the window.
Remembered(n) ==
  \E i \in Slot : LET s == cache.slots[i]
                  IN  s.t # 0 /\ time - s.t < Window /\ s.nonce = n

\* Mutant of Recorded: the last slot of the ring is never used.
RecordedShort(n) ==
  [slots |-> [cache.slots EXCEPT ![cache.next] = [nonce |-> n, t |-> time]],
   next |-> IF cache.next + 1 >= REPLAY_SLOTS - 1 THEN 0 ELSE cache.next + 1]

\* replaycache_seen of a fresh nonce: over the oldest slot.
Recorded(n) ==
  [slots |-> [cache.slots EXCEPT ![cache.next] = [nonce |-> n, t |-> time]],
   next |-> (cache.next + 1) % REPLAY_SLOTS]

\* channel_resumption_secret, after a full handshake of the two.
channel_resumption_secret ==
  /\ psk < MaxSecrets
  /\ psk' = psk + 1
  /\ UNCHANGED <<flights, cache, time, delivered>>

\* The initiator may still hold a secret the responder has replaced.
channel_hs_build_init_0rtt(k) ==
  /\ Len(flights) < MaxFlights
  /\ flights' = Append(flights, k)
  /\ UNCHANGED <<psk, cache, time, delivered>>

\* room: the caller's buffer takes the early data.
Status(n, room) ==
  CASE psk = 0 -> "NOPSK"
    [] psk # 0 /\ (flights[n] # psk \/ ~room) -> "BADPSK"
    [] psk # 0 /\ flights[n] = psk /\ room /\ Remembered(n) -> "REPLAY"
    [] OTHER -> "OK"

\* Only a flight that opens and is fresh is recorded and delivered.
channel_hs_accept_0rtt(n, room) ==
  /\ Status(n, room) = "OK" /\ Len(delivered) < MaxOpened
  /\ cache' = Recorded(n)
  /\ delivered' = Append(delivered, [nonce |-> n, t |-> time])
  /\ UNCHANGED <<flights, psk, time>>

Second ==
  /\ time < MaxSeconds
  /\ time' = time + 1
  /\ UNCHANGED <<flights, psk, cache, delivered>>

EarlyInit ==
  /\ flights = <<>> /\ psk = 0 /\ cache = replaycache_init
  /\ time = 1 /\ delivered = <<>>

EarlyNext ==
  \/ channel_resumption_secret
  \/ \E k \in 1..psk : channel_hs_build_init_0rtt(k)
  \/ \E n \in DOMAIN flights, room \in BOOLEAN : channel_hs_accept_0rtt(n, room)
  \/ Second

EarlySpec == EarlyInit /\ [][EarlyNext]_earlyVars

-----------------------------------------------------------------------------
(* Properties. *)

\* A flight that comes again is delivered again only when the window has passed, or when
\* REPLAY_SLOTS others were recorded in between (replaycache_seen).
EarlyDataOnce ==
  \A i, j \in DOMAIN delivered :
    i < j /\ delivered[i].nonce = delivered[j].nonce =>
      delivered[j].t - delivered[i].t >= Window \/ j - i > REPLAY_SLOTS
=============================================================================
