---------------------------- MODULE MCConfigForms ----------------------------
(***************************************************************************)
(* Two settings, two users of the requester who may be renamed once each.  *)
(***************************************************************************)
EXTENDS ConfigForms, TLC

CONSTANTS k1, k2, u1, u2, default, chosen

MCKeyOrder == <<k1, k2>>
MCEnv == [k \in Keys |-> default]
MCUserOrder == <<u1, u2>>
MCArounds == {{"settings"}, {"mapping", "rename"}}
==============================================================================
