--------------------------- MODULE MC_ReplayPass ---------------------------
(***************************************************************************)
(* Model-checking instance of ReplayPass: the pass of MC_DigitizationPass *)
(* replayed by the decoder, with one GEM plane of one module (chamber 0 is *)
(* plane 0, module 0).                                                     *)
(***************************************************************************)
EXTENDS ReplayPass, MC_DigitizationPass

MC_NModule       == 0 :> 1
MC_ChamberPlane  == 0 :> 0
MC_ChamberModule == 0 :> 0

=============================================================================
