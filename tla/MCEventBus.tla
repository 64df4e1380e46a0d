---------------------------- MODULE MCEventBus ----------------------------
(* A small instance of EventBus: three events, one of them urgent, two     *)
(* publishers, a typed subscriber that publishes itself and a wildcard one.*)
EXTENDS EventBus

CONSTANTS e1, e2, e3, p1, p2, typed, wild

MCEvents == {e1, e2, e3}
MCHigh == {e1}
MCPublishers == {p1, p2}
MCHandlers == {typed, wild}
MCWildcards == {wild}
MCEmitters == {typed}
MCRaisers == {wild}
MCInterest == [h \in MCHandlers |-> IF h = wild THEN MCEvents ELSE {e2}]
===========================================================================
