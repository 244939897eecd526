---------------------------- MODULE MCUcieLink ----------------------------
(* UcieLink on a two-frame window with a sequence space of six: seven      *)
(* flits make every counter wrap.                                          *)
EXTENDS UcieLink, TLC

CONSTANTS a, b

FlitSymmetry == Permutations({a, b})
============================================================================
