------------------------- MODULE MC_DecoderMapping -------------------------
(***************************************************************************)
(* Geometries for DecoderMapping: GEM planes with the same number of       *)
(* modules, and planes whose module counts differ (GetNModule is per       *)
(* plane, and DigitizationPass.C creates GetNModule(i_plane) chambers on  *)
(* plane i_plane).                                                         *)
(***************************************************************************)
EXTENDS DecoderMapping, Sequences, TLC

\* Four planes of three modules.
MC_NModuleUniform == <<3, 3, 3, 3>>

\* Three planes of two, one and two modules.
MC_NModuleMixed == <<2, 1, 2>>

\* GetNModule indexes planes from 0.
Planes0(seq) == [p \in 0 .. Len(seq) - 1 |-> seq[p + 1]]

MC_Uniform == Planes0(MC_NModuleUniform)
MC_Mixed   == Planes0(MC_NModuleMixed)

=============================================================================
