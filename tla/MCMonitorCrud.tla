---------------------------- MODULE MCMonitorCrud ----------------------------
EXTENDS MonitorCrud, TLC

CONSTANTS a1, a2

MCAddrs == {a1, a2}

\* The flag sets of chifra monitors that reach HandleCrudCommands.
MCCommands == {{"delete"}, {"undelete"}, {"remove"}, {"delete", "remove"}, {"decache"}}

MCSymmetry == Permutations(MCAddrs)
=============================================================================
