------------------------------ MODULE MCWebApp ------------------------------
(***************************************************************************)
(* The web process and a command line, two rows of media files; a window   *)
(* of two ticks, three strikes, a lockout of five.                         *)
(***************************************************************************)
EXTENDS WebApp

CONSTANTS cli, r1, r2, tunnel
=============================================================================
