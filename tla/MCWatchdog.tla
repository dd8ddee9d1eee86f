------------------------------ MODULE MCWatchdog ------------------------------
EXTENDS Watchdog, TLC

CONSTANTS p1, p2

PollerSymmetry == Permutations(Pollers)
=============================================================================
