------------------------------ MODULE MCDrainer ------------------------------
EXTENDS Drainer
=============================================================================
