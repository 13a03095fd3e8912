------------------------------- MODULE MCService -------------------------------
(***************************************************************************)
(* A small instance of Service for TLC.                                    *)
(***************************************************************************)
EXTENDS Service

CONSTANTS ch1, ch2
=============================================================================
