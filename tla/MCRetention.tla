---------------------------- MODULE MCRetention ----------------------------
EXTENDS Retention, TLC
=============================================================================
