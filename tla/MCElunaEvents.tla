---------------------------- MODULE MCElunaEvents ----------------------------
\* Instances of the timed events; all constants are given in the .cfg files.
EXTENDS ElunaEvents
=============================================================================
