----------------------------- MODULE MCCppDrain -----------------------------
(* The C++ gateway and its drain.                                          *)
EXTENDS CppGateway
CONSTANTS k1, k2, t1
MCAllowed == [t \in {t1} |-> {k1}]
=============================================================================
