------------------------------ MODULE MCR6040 ------------------------------
EXTENDS R6040
=============================================================================
