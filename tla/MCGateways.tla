----------------------------- MODULE MCGateways -----------------------------
(* The two gateways on small instances. A behaviour is of one of them; the *)
(* other ends before it begins (bound: they share nothing but the bus they *)
(* read). The Python gateway with entitlements takes in one frame less     *)
(* (bound).                                                                *)
EXTENDS CppGateway, TcpGateway

CONSTANTS s1, k1, k2, tok
OneSub  == {s1}
OneKey  == {k1}
TwoKeys == {k1, k2}
OneToken   == {tok}
TokenSees1 == [t \in OneToken |-> {k1}]

OneEnds ==
    /\ up /\ at # "exited"
    /\ \/ ~enabled /\ Stop /\ UNCHANGED cppVars
       \/ /\ at' = "exited"
          /\ UNCHANGED <<vars, g_stop, draining, drainOver, listening, bus, frames_in, last_,
                         subs, toClose, wire, reader, requests, faults, unsent>>

GatewaysNext ==
    \/ OneEnds
    \/ at = "exited" /\ Next /\ (enabled => frames' < MaxFrames) /\ UNCHANGED cppVars
    \/ ~up /\ CppNext /\ UNCHANGED vars

GatewaysInit == Init /\ CppInit

GatewaysSpec ==
    /\ GatewaysInit /\ [][GatewaysNext]_<<vars, cppVars>>
    /\ Fairness /\ \A s \in Fast : WF_vars(Send(s))
=============================================================================
