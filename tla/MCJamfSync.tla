----------------------------- MODULE MCJamfSync -----------------------------
(***************************************************************************)
(* JamfSync for TLC: one sync over all the tables, or two syncs that       *)
(* overlap in one table.                                                   *)
(***************************************************************************)
EXTENDS JamfSync, TLC

CONSTANTS s1, s2

OneSync  == {s1}
TwoSyncs == {s1, s2}
Either   == Permutations(TwoSyncs)

Devices == <<"devices">>
Patches == <<"patches">>
Others  == <<"groups", "policies", "patches">>
=============================================================================
