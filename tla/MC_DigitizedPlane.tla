------------------------- MODULE MC_DigitizedPlane -------------------------
(***************************************************************************)
(* Model-checking instance of DigitizedPlane: four strips, two samples,    *)
(* cross-talk one strip apart so that both the in-range and the            *)
(* out-of-range induced targets occur, two sample patterns of which one   *)
(* scales to zero under the factor 1/2.                                    *)
(***************************************************************************)
EXTENDS DigitizedPlane, TLC

MC_ADCVectors == { (0 :> 1 @@ 1 :> 0), (0 :> 2 @@ 1 :> 1) }

MC_CrossFactors == { <<1, 2>> }

\* Threshold(Int_t thr) accepts a negative threshold.
MC_NegThresholds == { -1 }

\* Sample vectors for ten samples (the constructor default nsample = 10).
MC_ADCVectors10 == { [k \in 0 .. 9 |-> IF k = 0 THEN 1 ELSE 0] }

=============================================================================
