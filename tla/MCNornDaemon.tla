---------------------------- MODULE MCNornDaemon ----------------------------
(* Instances of NornDaemon for TLC. *)
EXTENDS NornDaemon

\* Two watchers and a short command, a queue and a log that fill up, one name published
\* twice, and each other command beside one it shares a table with.
MixedWorkloads ==
  {<<cluster_watch(None), do_node_public, cluster_watch("k")>>,
   <<do_set("n", "v"), do_put_immutable("v"), do_set("m", "w")>>,
   <<do_node_set("k", "v"), do_node_set("l", "v")>>,
   <<do_keygen, do_keygen>>,
   <<do_set("n", "v"), do_get("self", "n")>>,
   <<do_bep44_del(Immutable("v")), do_get_immutable(Immutable("v"))>>,
   <<Asks("publog-add", Mutable("n"), "v", "any"), do_set("n", "w")>>,
   <<do_set("n", "v"), do_set("n", "w")>>,
   <<do_node_secret, do_node_id>>, <<do_node_status, do_peer_list>>,
   <<do_bep44_list, do_peer_public("other")>>, <<do_get("other", "n"), Garbled>>,
   <<do_peer("other", "get"), cluster_put("k")>>, <<>>}
HeldRecords == {Immutable("v")}
=============================================================================
