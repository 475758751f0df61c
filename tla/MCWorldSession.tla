---------------------------- MODULE MCWorldSession ----------------------------
EXTENDS WorldSession

CONSTANTS m1, i1

Instanced == [i \in Instances |-> m1]
=============================================================================
