-------------------------- MODULE MCNetkitLifecycle --------------------------
(* Processes that all want the one name; they differ in nothing.           *)
EXTENDS NetkitLifecycle, TLC

CONSTANTS p1, p2

TwoProcs == {p1, p2}
=============================================================================
