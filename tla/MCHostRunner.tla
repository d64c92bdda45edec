------------------------------ MODULE MCHostRunner ------------------------------
\* Model-checking instance of HostRunner.  No symmetry: the run checks liveness.
EXTENDS HostRunner, TLC

===============================================================================
