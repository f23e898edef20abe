-------------------------- MODULE MCTelegramAdapter --------------------------
(***************************************************************************)
(* Instances of TelegramAdapter for TLC: two people, the first one with a  *)
(* user name, and a registry with one place too few for both.              *)
(***************************************************************************)
EXTENDS TelegramAdapter

CONSTANTS k1, k2, k3

MCSenders == {{k1, k2}, {k3}}
=============================================================================
