---------------------------- MODULE MCDesktopHost ----------------------------
(* Values for the constants of DesktopHost. *)
EXTENDS DesktopHost

CONSTANTS t1, t2, cloud, local
=============================================================================
