------------------------------ MODULE MCProducts ------------------------------
(* The parts of the products for TLC: the configuration gives the bounds, far *)
(* smaller than the code's sizes and times but in the same order.             *)
EXTENDS Products
=============================================================================
