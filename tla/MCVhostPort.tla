---------------------------- MODULE MCVhostPort ----------------------------
(* A vhost user client port with two queues and two PMD threads.           *)
EXTENDS VhostPort

Threads2 == {0, 1}
=============================================================================
