------------------------------ MODULE MCMcast ------------------------------
EXTENDS Mcast
=============================================================================
