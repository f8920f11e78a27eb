----------------------------- MODULE MCConnection -----------------------------
(***************************************************************************)
(* The instances of Connection are given by their configurations alone.    *)
(***************************************************************************)
EXTENDS Connection
=============================================================================
