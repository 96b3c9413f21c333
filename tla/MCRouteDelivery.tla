-------------------------- MODULE MCRouteDelivery --------------------------
(* RouteDelivery for TLC: the cfgs give the constants their values. *)
EXTENDS RouteDelivery
=============================================================================
