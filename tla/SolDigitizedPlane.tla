------------------------- MODULE SolDigitizedPlane -------------------------
(***************************************************************************)
(* The SoLID plane TSolDigitizedPlane of                                   *)
(* src/src/oldSolRelated/TSolSimGEMDigitization.cxx, from which            *)
(* TSBSDigitizedPlane was derived: the constructor, Clear, Cumulate (direct *)
(* and cross-talk loops) and Threshold, driven by every sequence of calls. *)
(* It keeps per strip the ADC samples, the total, the type word, the       *)
(* earliest time and the cluster IDs, but no weight and no per-sample      *)
(* cluster ADC.  fType is the Short_t word itself, or-ed with Bitwise.     *)
(* The float fCharge is left out, as in DigitizedPlaneOps.                *)
(***************************************************************************)
EXTENDS Integers, Sequences, SequencesExt, Bitwise

CONSTANTS
    NStrips, NSamples,   \* fNStrips, fNSamples
    CrossTalkOn,         \* TSolSimGEMDigitization::fDoCrossTalk
    NCStripApart,        \* TSolSimGEMDigitization::fNCStripApart
    ClearTime,           \* the time Clear() writes (9999.)
    VSets,               \* the virtual strip sets Cumulate is given
    ClusterIDs,          \* the cluster IDs Cumulate is given
    Draws,               \* the cross-talk draws [dir, factor]
    Thresholds           \* the arguments of Threshold(thr)

VARIABLE solPlane

SolStrips  == 0 .. NStrips - 1
SolSamples == 0 .. NSamples - 1

\* SETBIT(fType[idx], kInducedStrip), kInducedStrip being bit 2.
InducedWord == 4

\* The constructor with threshold 0 ends with Clear(); fOverThr holds
\* fNOT entries.
SolNewPlane ==
    [fThreshold |-> 0,
     fStripADC  |-> [s \in SolStrips |-> [k \in SolSamples |-> 0]],
     fType      |-> [s \in SolStrips |-> 0],
     fTotADC    |-> [s \in SolStrips |-> 0],
     fTime      |-> [s \in SolStrips |-> ClearTime],
     fStripClusters |-> [s \in SolStrips |-> <<>>],
     fOverThr   |-> <<>>]

\* Clear: everything but fThreshold back to the constructor's values.
SolClear(p) == [SolNewPlane EXCEPT !.fThreshold = p.fThreshold]

\* The sample loop on strip i: "if( nnn == 0 ) continue" adds nothing, so
\* each sample is added; then fOverThr[fNOT++] = i if i crossed fThreshold.
SolAddSignal(p, i, adc) ==
    LET wasBelow == ~(p.fTotADC[i] > p.fThreshold)
        tot      == p.fTotADC[i] + FoldFunction(+, 0, adc)
        q == [p EXCEPT !.fStripADC[i] = [k \in SolSamples |-> @[k] + adc[k]],
                       !.fTotADC[i]   = tot]
    IN  IF wasBelow /\ tot > p.fThreshold
        THEN [q EXCEPT !.fOverThr = Append(@, i)]
        ELSE q

\* The first loop of Cumulate, for virtual strip e: type bits, earliest
\* time, the samples, and the cluster ID.
SolCumulateStrip(p, vv, type, clusterID, e) ==
    LET i == e.idx
        q == [p EXCEPT !.fType[i] = @ | type,
                       !.fTime[i] = IF @ < vv.time THEN @ ELSE vv.time]
        r == SolAddSignal(q, i, e.adc)
    IN  [r EXCEPT !.fStripClusters[i] = Append(@, clusterID)]

\* The cross-talk loop, for virtual strip e: the strip NCStripApart away on
\* side dir, if it is on the plane, gets the induced bit, the source
\* strip's time against vv's, and the samples times the factor (Int_t).
SolInduceStrip(p, vv, dir, factor, e) ==
    LET i == e.idx + dir * NCStripApart
    IN  IF i < 0 \/ i >= NStrips THEN p
        ELSE SolAddSignal(
               [p EXCEPT !.fType[i] = @ | InducedWord,
                         !.fTime[i] = IF p.fTime[e.idx] < vv.time
                                      THEN p.fTime[e.idx] ELSE vv.time],
               i, [k \in SolSamples |-> (e.adc[k] * factor[1]) \div factor[2]])

\* The first loop of Cumulate(vv, type, clusterID).
SolDirect(p, vv, type, clusterID) ==
    FoldLeft(LAMBDA q, e : SolCumulateStrip(q, vv, type, clusterID, e), p, vv.strips)

\* The cross-talk loop after it, for the draw xt; a factor <= 0 is drawn
\* as <<0, 1>> and returns.
SolCrossTalk(p, vv, xt) ==
    IF ~CrossTalkOn \/ xt.factor[1] <= 0 THEN p
    ELSE FoldLeft(LAMBDA q, e : SolInduceStrip(q, vv, xt.dir, xt.factor, e), p, vv.strips)

\* Threshold(thr): fThreshold = thr and the strips over it, in order.
SolThreshold(p, thr) ==
    [p EXCEPT !.fThreshold = thr,
              !.fOverThr = SelectSeq([j \in 1 .. NStrips |-> j - 1],
                                     LAMBDA s : p.fTotADC[s] > thr)]

SolInit == solPlane = SolNewPlane

SolNext ==
    \/ solPlane' = SolClear(solPlane)
    \/ \E thr \in Thresholds : solPlane' = SolThreshold(solPlane, thr)
    \/ \E vv \in VSets, cid \in ClusterIDs :
          \* the cluster lists, which only the first loop writes, come first:
          \* they tell vv's strips and cid apart at little cost
          /\ solPlane'.fStripClusters = SolDirect(solPlane, vv, 1, cid).fStripClusters
          /\ \E type \in {1, 2}, xt \in Draws :
                solPlane' = SolCrossTalk(SolDirect(solPlane, vv, type, cid), vv, xt)

SolSpec == SolInit /\ [][SolNext]_solPlane

=============================================================================
