----------------------------- MODULE MCNornNode -----------------------------
(***************************************************************************)
(* One run for the parts of a node that touch each other only through      *)
(* calls with a result: the key-value map (NornKV), the daemon's loop and  *)
(* its commands (NornDaemon), the exchange of served values (NornServe),   *)
(* the links of the cluster (NornTransport) and the tunnel (NornForward).  *)
(* The modules share no variable, so a state of one part is reached        *)
(* whatever the others do; a behaviour therefore moves one part, chosen at *)
(* the start, and leaves the others where they began.                      *)
(***************************************************************************)
EXTENDS NornKV, MCNornDaemon, MCNornServe, NornTransport, NornForward

CONSTANTS k1, k2

VARIABLE part

-----------------------------------------------------------------------------
(* Constants. *)

\* One prefix that matches some keys and one that matches them all.
SomePrefixes == {{k1, k2}, Key}

-----------------------------------------------------------------------------

NodeInit ==
  /\ KVInit /\ DaemonInit /\ ServeInit /\ TransportInit /\ ForwardInit
  /\ part \in {"kv", "daemon", "serve", "transport", "forward"}
  /\ part # "daemon" => cli = <<>>
  /\ part # "transport" => op.address
  /\ part # "forward" => server_mode

NodeNext ==
  /\ UNCHANGED part
  /\ \/ part = "kv" /\ KVNext /\ UNCHANGED <<daemonVars, serveVars, transportVars, forwardVars>>
     \/ part = "daemon" /\ DaemonNext /\ UNCHANGED <<kvVars, serveVars, transportVars, forwardVars>>
     \/ part = "serve" /\ ServeNext /\ TwoCalls' /\ UNCHANGED <<kvVars, daemonVars, transportVars, forwardVars>>
     \/ part = "transport" /\ TransportNext /\ UNCHANGED <<kvVars, daemonVars, serveVars, forwardVars>>
     \/ part = "forward" /\ ForwardNext /\ UNCHANGED <<kvVars, daemonVars, serveVars, transportVars>>

NodeSpec == NodeInit /\ [][NodeNext]_<<part, kvVars, daemonVars, serveVars, transportVars, forwardVars>>
=============================================================================
