---------------------------- MODULE MCDirectInput8 ----------------------------
(* Two devices, and a guid of a third from another configuration.          *)
EXTENDS DirectInput8

MCIndexes == 0..2
===============================================================================
