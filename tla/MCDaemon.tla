------------------------------ MODULE MCDaemon ------------------------------
(* Daemon for TLC: two clients and two process slots.                      *)
EXTENDS Daemon
=============================================================================
