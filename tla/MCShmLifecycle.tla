--------------------------- MODULE MCShmLifecycle ---------------------------
(* ShmLifecycle for TLC: two daemons and a client.  Four segments: one to   *)
(* find or to be behind the name, one for each daemon, one for the client.  *)
EXTENDS ShmLifecycle
=============================================================================
