---------------------------- MODULE MCElvSwitch ----------------------------
\* Model checking of ElvSwitch: a call, and up to two switches.
EXTENDS ElvSwitch

CONSTANTS c1, i1, i2
=============================================================================
