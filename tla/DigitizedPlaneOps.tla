------------------------- MODULE DigitizedPlaneOps -------------------------
(***************************************************************************)
(* The per-plane charge accumulator TSBSDigitizedPlane of                  *)
(* src/src/TSBSSimGEMDigitization.cxx, written as operators on a record    *)
(* that holds the object's arrays, so that the plane component and the     *)
(* digitization orchestrator apply the same Clear, Cumulate and Threshold. *)
(*                                                                         *)
(* Data abstraction: a strip index is 0..NStrips-1, an ADC sample is a     *)
(* natural number, a time is an integer, the cross-talk factor is a        *)
(* fraction num/den and a cluster weight is kept as the pair               *)
(* <<tempSumADC, GetTotalADC()>> instead of their quotient.  The float     *)
(* strip charge fCharge is left out: no property tells its values apart.   *)
(***************************************************************************)
EXTENDS Integers, Sequences, SequencesExt, FiniteSets

CONSTANTS
    NStrips,          \* fNStrips, strips of the plane
    NSamples,         \* fNSamples, ADC samples per strip
    ClusterADCRows,   \* rows of the array fStripClusterADC[6]
    CrossTalkOn,      \* TSBSSimGEMDigitization::fDoCrossTalk
    NCStripApart,     \* TSBSSimGEMDigitization::fNCStripApart
    ClearTime         \* the time Clear() writes (9999.)

ASSUME NStrips \in Nat \ {0} /\ NSamples \in Nat \ {0}
ASSUME ClusterADCRows \in Nat /\ CrossTalkOn \in BOOLEAN /\ NCStripApart \in Nat

Strips  == 0 .. NStrips - 1
Samples == 0 .. NSamples - 1

\* Bits of fType (TSBSSimAuxi): kPrimaryStrip, kSecondaryStrip, kInducedStrip.
kPrimaryStrip   == 0
kSecondaryStrip == 1
kInducedStrip   == 2

\* The type word AdditiveDigitize passes: 1 for a primary, 2 for a secondary.
TypeBits(itype) == IF itype = 1 THEN {kPrimaryStrip} ELSE {kSecondaryStrip}

MinOf(a, b) == IF a < b THEN a ELSE b

\* A cross-talk draw: side isLeft and factor fCrossFactor+Gaus(); a draw
\* <= 0 is "Suppressed".  A factor is a pair <<num, den>>.
Suppressed == <<0, 1>>

(***************************************************************************)
(* A virtual strip set TSBSGEMHit as AvaModel fills it: the strips with    *)
(* signal in increasing order (entries of [idx, adc]), the hit time and    *)
(* GetTotalADC().                                                          *)
(***************************************************************************)
EntrySum(e) == FoldFunction(+, 0, e.adc)

TotalADC(vv) == FoldLeft(LAMBDA acc, e : acc + EntrySum(e), 0, vv.strips)

\* Mutant: fTime zeroed like the other arrays instead of set to 9999.
Clear_TimeZero(pl) ==
    [pl EXCEPT
        !.fStripADC = [s \in Strips |-> [k \in Samples |-> 0]],
        !.fType     = [s \in Strips |-> {}],
        !.fTotADC   = [s \in Strips |-> 0],
        !.fTime     = [s \in Strips |-> 0],
        !.fStripClusters        = [s \in Strips |-> <<>>],
        !.fStripWeightInCluster = [s \in Strips |-> <<>>],
        !.fStripClusterADC      = [k \in Samples |-> [s \in Strips |-> <<>>]],
        !.fOverThr  = <<>>]

(***************************************************************************)
(* TSBSDigitizedPlane::Clear.  fThreshold is left alone.                   *)
(***************************************************************************)
Clear(pl) ==
    [pl EXCEPT
        !.fStripADC = [s \in Strips |-> [k \in Samples |-> 0]],
        !.fType     = [s \in Strips |-> {}],
        !.fTotADC   = [s \in Strips |-> 0],
        !.fTime     = [s \in Strips |-> ClearTime],
        !.fStripClusters        = [s \in Strips |-> <<>>],
        !.fStripWeightInCluster = [s \in Strips |-> <<>>],
        !.fStripClusterADC      = [k \in Samples |-> [s \in Strips |-> <<>>]],
        !.fOverThr  = <<>>]

(***************************************************************************)
(* The constructor: allocate, size fStripClusterADC[i] for i < nsample     *)
(* (rows past the sixth are written out of bounds), Clear, threshold 0.    *)
(***************************************************************************)
NewPlane ==
    Clear([fThreshold |-> 0,
           fOverrun   |-> NSamples > ClusterADCRows,
           fStripADC |-> {}, fType |-> {}, fTotADC |-> {}, fTime |-> {},
           fStripClusters |-> {}, fStripWeightInCluster |-> {},
           fStripClusterADC |-> {}, fOverThr |-> <<>>])

\* Mutant: fOverThr appended whenever the total is over threshold, without
\* the was_below test.
NoteCrossing_NoWasBelow(pl, idx, wasBelow) ==
    IF pl.fTotADC[idx] > pl.fThreshold
    THEN [pl EXCEPT !.fOverThr = Append(@, idx)]
    ELSE pl

\* Append idx to fOverThr when its total crossed the threshold in this step.
NoteCrossing(pl, idx, wasBelow) ==
    IF wasBelow /\ pl.fTotADC[idx] > pl.fThreshold
    THEN [pl EXCEPT !.fOverThr = Append(@, idx)]
    ELSE pl

\* Add the samples add[k] to strip idx (the zero samples change nothing).
AddSamples(pl, idx, add) ==
    [pl EXCEPT !.fStripADC[idx] = [k \in Samples |-> @[k] + add[k]],
               !.fTotADC[idx]   = @ + FoldFunction(+, 0, add)]

\* Mutant: the push_back placed after the "if( nnn == 0 ) continue;".
PushClusterADC_AfterSkip(pl, idx, adc) ==
    [pl EXCEPT
        !.fStripClusterADC =
            [k \in Samples |-> IF adc[k] = 0 THEN @[k]
                               ELSE [@[k] EXCEPT ![idx] = Append(@, adc[k])]],
        !.fOverrun = @ \/ NSamples > ClusterADCRows]

\* Append each sample of one virtual strip to fStripClusterADC[k][idx];
\* a row k >= ClusterADCRows is past the end of the array: the write is
\* undefined behaviour, recorded in fOverrun.
PushClusterADC(pl, idx, adc) ==
    [pl EXCEPT
        !.fStripClusterADC =
            [k \in Samples |-> [@[k] EXCEPT ![idx] = Append(@, adc[k])]],
        !.fOverrun = @ \/ NSamples > ClusterADCRows]

\* Mutant: fTime[idx] overwritten with the hit time instead of the minimum.
CumulateStrip_LastTime(pl, vv, itype, clusterID, e) ==
    LET idx      == e.idx
        wasBelow == ~(pl.fTotADC[idx] > pl.fThreshold)
        p1 == [pl EXCEPT
                 !.fType[idx] = @ \cup TypeBits(itype),
                 !.fTime[idx] = vv.time]
        p2 == AddSamples(PushClusterADC(p1, idx, e.adc), idx, e.adc)
        p3 == NoteCrossing(p2, idx, wasBelow)
    IN  [p3 EXCEPT
           !.fStripWeightInCluster[idx] = Append(@, <<EntrySum(e), TotalADC(vv)>>),
           !.fStripClusters[idx]        = Append(@, clusterID)]

(***************************************************************************)
(* One iteration of the first loop of Cumulate: the direct signal of the   *)
(* virtual strip e on strip e.idx.                                          *)
(***************************************************************************)
CumulateStrip(pl, vv, itype, clusterID, e) ==
    LET idx      == e.idx
        wasBelow == ~(pl.fTotADC[idx] > pl.fThreshold)
        p1 == [pl EXCEPT
                 !.fType[idx] = @ \cup TypeBits(itype),
                 !.fTime[idx] = MinOf(@, vv.time)]
        p2 == AddSamples(PushClusterADC(p1, idx, e.adc), idx, e.adc)
        p3 == NoteCrossing(p2, idx, wasBelow)
    IN  [p3 EXCEPT
           !.fStripWeightInCluster[idx] = Append(@, <<EntrySum(e), TotalADC(vv)>>),
           !.fStripClusters[idx]        = Append(@, clusterID)]

\* Mutant: the scaled induced samples rounded up instead of truncated.
InduceStrip_RoundUp(pl, vv, dir, factor, e) ==
    LET ii     == e.idx + dir * NCStripApart
        scaled == [k \in Samples |-> (e.adc[k] * factor[1] + factor[2] - 1) \div factor[2]]
    IN  IF ii \notin Strips
        THEN pl
        ELSE LET wasBelow == ~(pl.fTotADC[ii] > pl.fThreshold)
                 p1 == [pl EXCEPT
                          !.fType[ii] = @ \cup {kInducedStrip},
                          !.fTime[ii] = MinOf(pl.fTime[e.idx], vv.time)]
             IN  NoteCrossing(AddSamples(p1, ii, scaled), ii, wasBelow)

(***************************************************************************)
(* One iteration of the cross-talk loop: the strip NCStripApart away on    *)
(* side dir gets the samples scaled by the factor (truncated to Int_t),    *)
(* the induced bit, and the time of the source strip.                      *)
(***************************************************************************)
InduceStrip(pl, vv, dir, factor, e) ==
    LET ii     == e.idx + dir * NCStripApart
        scaled == [k \in Samples |-> (e.adc[k] * factor[1]) \div factor[2]]
    IN  IF ii \notin Strips
        THEN pl
        ELSE LET wasBelow == ~(pl.fTotADC[ii] > pl.fThreshold)
                 p1 == [pl EXCEPT
                          !.fType[ii] = @ \cup {kInducedStrip},
                          !.fTime[ii] = MinOf(pl.fTime[e.idx], vv.time)]
             IN  NoteCrossing(AddSamples(p1, ii, scaled), ii, wasBelow)

(***************************************************************************)
(* TSBSDigitizedPlane::Cumulate(vv, type, clusterID), with the cross-talk  *)
(* draw xt = [dir, factor] that Cumulate makes when cross talk is on.      *)
(***************************************************************************)
Cumulate(pl, vv, itype, clusterID, xt) ==
    LET direct == FoldLeft(LAMBDA p, e : CumulateStrip(p, vv, itype, clusterID, e),
                           pl, vv.strips)
    IN  IF ~CrossTalkOn \/ xt.factor = Suppressed
        THEN direct
        ELSE FoldLeft(LAMBDA p, e : InduceStrip(p, vv, xt.dir, xt.factor, e),
                      direct, vv.strips)

\* Mutant: the strip number j+1 stored instead of j.
Threshold_OffByOne(pl, thr) ==
    [pl EXCEPT
        !.fThreshold = thr,
        !.fOverThr   = SelectSeq([i \in 1 .. NStrips |-> i],
                                 LAMBDA s : s - 1 \in Strips /\ pl.fTotADC[s - 1] > thr)]

(***************************************************************************)
(* TSBSDigitizedPlane::Threshold(thr): rescan the strips in order.         *)
(***************************************************************************)
Threshold(pl, thr) ==
    [pl EXCEPT
        !.fThreshold = thr,
        !.fOverThr   = SelectSeq([i \in 1 .. NStrips |-> i - 1],
                                 LAMBDA s : pl.fTotADC[s] > thr)]

=============================================================================
