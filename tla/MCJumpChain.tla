---------------------------- MODULE MCJumpChain ----------------------------
(* Small instances of JumpChain for TLC.  In the first, b is reached       *)
(* through the bastion a, y through both of them; y may have been edited   *)
(* to another chain, or imported with a cyclic one; a is also a host of    *)
(* its own, and a and b are bastions of the RDP host w.  In the second, x  *)
(* and y part behind a.                                                    *)
EXTENDS JumpChain

CONSTANTS a, b, x, y, w

DivergingChains ==
  [h \in Hosts |-> CASE h = x -> {<<a, b>>}
                     [] h = y -> {<<a, w>>}
                     [] OTHER -> {}]

EditedChains ==
  [h \in Hosts |-> CASE h = b -> {<<a>>}
                     [] h = y -> {<<a, b>>, <<b>>, <<y>>}
                     [] h = a -> {<<>>}
                     [] OTHER -> {}]
============================================================================
