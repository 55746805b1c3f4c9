---------------------------- MODULE MCNornServe ----------------------------
(* Instances of NornServe for TLC. *)
EXTENDS NornServe, TLC

\* Call 1 is followed by call 2 of the same daemon to another peer, or joined by call 3
\* of another daemon to the same peer.
Callers == <<"d", "d", "e">>
TwoPeers == <<"p", "q", "p">>
TwoCalls == \E f \in Fetch \ {1} : call[f].pc = "idle"

\* A local key, a prefix that matches nothing at one peer, a blob of several chunks, and
\* what is refused or cannot be sent.
SomeRequests ==
  {[verb |-> "get", arg |-> "k"], [verb |-> "list", arg |-> "e"], [verb |-> "cat", arg |-> "h"],
   [verb |-> "get", arg |-> "x"], [verb |-> "long", arg |-> "x"], NoRequest}
LocalKeys == (<<"p", "k">> :> 3) @@ (<<"q", "k">> :> 3) @@ (<<"p", "e">> :> 0) @@ (<<"q", "e">> :> 1)
Blobs == <<"p", "h">> :> 4
=============================================================================
