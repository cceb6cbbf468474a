---------------------------- MODULE MCSshTransport ----------------------------
(* Instances of SshTransport for TLC. *)
EXTENDS SshTransport
===============================================================================
