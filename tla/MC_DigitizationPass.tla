------------------------ MODULE MC_DigitizationPass ------------------------
(***************************************************************************)
(* Model-checking instance of DigitizationPass: one chamber of two planes *)
(* of two strips with one ADC sample, hits in the chamber, out of range    *)
(* and wide, and AvaModel outcomes that put a hit on different strips of   *)
(* the two planes or on none of one plane.                                 *)
(***************************************************************************)
EXTENDS DigitizationPass, TLC

\* One strip with signal on strip 0 or 1.
OnStrip(i) == <<[idx |-> i, adc |-> (0 :> 1)]>>

MC_AvaResults ==
    { (0 :> OnStrip(0) @@ 1 :> OnStrip(1)),
      (0 :> OnStrip(1) @@ 1 :> <<>>) }

SigPrimary   == [chamber |-> 0, ptype |-> 1, wide |-> FALSE, htime |-> 0]
SigSecondary == [chamber |-> 0, ptype |-> 2, wide |-> FALSE, htime |-> 0]
OutOfRange   == [chamber |-> 1, ptype |-> 1, wide |-> FALSE, htime |-> 0]
WideHit      == [chamber |-> 0, ptype |-> 1, wide |-> TRUE,  htime |-> 0]

MC_SignalData ==
    { <<SigPrimary>>, <<SigSecondary, SigPrimary>>, <<OutOfRange, WideHit>> }

\* A signal event with no GEM hit: GetGEMData drops hits without energy.
MC_SignalDataEmpty == MC_SignalData \cup { <<>> }

MC_BgData == { <<>>, <<SigPrimary>> }

=============================================================================
