-------------------------------- MODULE Dart --------------------------------
(* What the models of the Dart services share.                             *)
CONSTANT None  (* Dart null                                                *)
=============================================================================
