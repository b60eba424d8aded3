-------------------------- MODULE MCClientSessions --------------------------
(***************************************************************************)
(* Instances of ClientSessions: two tabs of one browser.                   *)
(***************************************************************************)
EXTENDS ClientSessions, TLC

CONSTANTS ani, budi, citra, dewi

\* Ani and Citra have been logged in before.
MCOpening == <<ani, citra>>
=============================================================================
