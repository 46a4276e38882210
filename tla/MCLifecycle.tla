---------------------------- MODULE MCLifecycle ----------------------------
(* Two segments of version N and one of N+1. *)
EXTENDS Lifecycle

CONSTANTS n1, n2, m1
=============================================================================
