------------------------------ MODULE MCJpegMemory ------------------------------
EXTENDS JpegMemory, TLC

SomeArrays ==
  {[kind |-> "b", pre_zero |-> TRUE, width |-> 8, rows |-> 3, maxaccess |-> 2],
   [kind |-> "s", pre_zero |-> FALSE, width |-> 6, rows |-> 2, maxaccess |-> 1]}
FirstSlops == (0 :> 16) @@ (1 :> 64)
ExtraSlops == (0 :> 0) @@ (1 :> 20)
=================================================================================
