------------------------------ MODULE MCServe ------------------------------
(* Small instance of Serve: two replicas, pools of two sessions, and one      *)
(* request on any route.                                                      *)
EXTENDS Serve, TLC

CONSTANTS r1, r2, q1, s1, s2

AllRoutes == {"graphql", "other"}
=============================================================================
