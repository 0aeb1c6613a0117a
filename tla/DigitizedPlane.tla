--------------------------- MODULE DigitizedPlane ---------------------------
(***************************************************************************)
(* One TSBSDigitizedPlane object driven by every sequence of calls its     *)
(* public interface allows: Clear(), Cumulate(vv, type, clusterID) with    *)
(* any virtual strip set AvaModel can return, and Threshold(thr).          *)
(* The cluster ID of the n-th Cumulate is n, as SetTreeHit numbers the     *)
(* clusters of an event.  arrivals is a history variable: the times of the *)
(* signals written on each strip since the last Clear.                     *)
(***************************************************************************)
EXTENDS DigitizedPlaneOps

CONSTANTS
    Times,         \* hit times (time_zero) of virtual strip sets
    ADCVectors,    \* per-strip sample vectors [Samples -> Nat] with a sample > 0
    MaxVStrips,    \* bound: strips with signal in one virtual strip set
    Thresholds,    \* arguments of Threshold(thr)
    CrossFactors,  \* positive cross-talk factors <<num, den>>
    MaxCumulate    \* bound: Cumulate calls in one behaviour

VARIABLES plane, ncum, arrivals

vars == <<plane, ncum, arrivals>>

\* Strictly increasing strip index sequences, as AvaModel adds iL+j in order.
IndexSeqs ==
    {s \in BoundedSeq(Strips, MaxVStrips) :
        \A i \in 1 .. Len(s) - 1 : s[i] < s[i + 1]}

\* Every virtual strip set AvaModel can hand to Cumulate (possibly empty).
VStripSets ==
    UNION { { [strips |-> [i \in 1 .. Len(ix) |-> [idx |-> ix[i], adc |-> a[i]]],
               time   |-> t]
             : a \in [1 .. Len(ix) -> ADCVectors], t \in Times }
           : ix \in IndexSeqs }

CrossTalkDraws == [dir : {-1, 1}, factor : CrossFactors \cup {Suppressed}]

\* Strips the cross-talk loop writes for this draw.
InducedTargets(vv, xt) ==
    IF ~CrossTalkOn \/ xt.factor = Suppressed THEN {}
    ELSE {vv.strips[j].idx + xt.dir * NCStripApart : j \in 1 .. Len(vv.strips)}
           \cap Strips

PlaneType ==
    [fThreshold : Int, fOverrun : BOOLEAN,
     fStripADC : [Strips -> [Samples -> Nat]],
     fType : [Strips -> SUBSET {kPrimaryStrip, kSecondaryStrip, kInducedStrip}],
     fTotADC : [Strips -> Nat],
     fTime : [Strips -> Times \cup {ClearTime}],
     fStripClusters : [Strips -> Seq(1 .. MaxCumulate)],
     fStripWeightInCluster : [Strips -> Seq(Nat \X Nat)],
     fStripClusterADC : [Samples -> [Strips -> Seq(Nat)]],
     fOverThr : Seq(Strips)]

TypeOK ==
    /\ plane \in PlaneType
    /\ ncum \in 0 .. MaxCumulate
    /\ arrivals \in [Strips -> SUBSET Times]

Init ==
    /\ plane = NewPlane
    /\ ncum = 0
    /\ arrivals = [s \in Strips |-> {}]

DoClear ==
    /\ plane' = Clear(plane)
    /\ arrivals' = [s \in Strips |-> {}]
    /\ UNCHANGED ncum

DoCumulate(vv, itype, xt) ==
    LET written == {vv.strips[j].idx : j \in 1 .. Len(vv.strips)}
                     \cup InducedTargets(vv, xt)
    IN  /\ ncum < MaxCumulate
        /\ plane' = Cumulate(plane, vv, itype, ncum + 1, xt)
        /\ ncum' = ncum + 1
        /\ arrivals' = [s \in Strips |->
                          IF s \in written THEN arrivals[s] \cup {vv.time}
                          ELSE arrivals[s]]

DoThreshold(thr) ==
    /\ plane' = Threshold(plane, thr)
    /\ UNCHANGED <<ncum, arrivals>>

Next ==
    \/ DoClear
    \/ \E vv \in VStripSets, itype \in {1, 2}, xt \in CrossTalkDraws :
          DoCumulate(vv, itype, xt)
    \/ \E thr \in Thresholds : DoThreshold(thr)

Spec == Init /\ [][Next]_vars

(***************************************************************************)
(* TSBSDigitizedPlane was derived from the SoLID TSolDigitizedPlane and    *)
(* adds the per-cluster weights and sample ADCs.  Seen without them, with  *)
(* the type bits read as the Short_t word, it is the SoLID plane.          *)
(***************************************************************************)
TypeWord(bits) == MapThenSumSet(LAMBDA b : 2^b, bits)

Sol == INSTANCE SolDigitizedPlane
           WITH solPlane <- [fThreshold |-> plane.fThreshold,
                             fStripADC  |-> plane.fStripADC,
                             fType      |-> [s \in Strips |-> TypeWord(plane.fType[s])],
                             fTotADC    |-> plane.fTotADC,
                             fTime      |-> plane.fTime,
                             fStripClusters |-> plane.fStripClusters,
                             fOverThr   |-> plane.fOverThr],
                VSets <- VStripSets, ClusterIDs <- 1 .. MaxCumulate,
                Draws <- CrossTalkDraws

(***************************************************************************)
(* Properties                                                              *)
(***************************************************************************)

\* fOverThr[0..fNOT) lists every strip whose total ADC exceeds fThreshold,
\* each once (header: "# strips over threshold"), whatever interleaving of
\* Cumulate (with its was_below test in both loops), Threshold and Clear.
OverThrExact ==
    /\ IsInjective(plane.fOverThr)
    /\ ToSet(plane.fOverThr) = {s \in Strips : plane.fTotADC[s] > plane.fThreshold}

\* Every sequence of Clear, Cumulate (both loops, any cross-talk draw) and
\* Threshold on a TSBSDigitizedPlane changes the samples, totals, type
\* words, times, cluster IDs and over-threshold list as the same calls on
\* the SoLID plane it was derived from: adding the truth records to the
\* loops changed none of the plane's charge bookkeeping.
SolPlaneRefinement == Sol!SolSpec

\* The truth records of a strip stay index-aligned, as the decoder reads
\* fClusterRatio[k][i] and fStripWeightInCluster[i] for the i-th entry of
\* fClusters: one weight and one ADC per sample for every cluster ID, and a
\* strip carries a primary/secondary bit exactly when it has a cluster.
ClusterRecordsAligned ==
    \A s \in Strips :
        /\ Len(plane.fStripWeightInCluster[s]) = Len(plane.fStripClusters[s])
        /\ \A k \in Samples :
              Len(plane.fStripClusterADC[k][s]) = Len(plane.fStripClusters[s])
        /\ (plane.fType[s] \cap {kPrimaryStrip, kSecondaryStrip} # {})
              <=> plane.fStripClusters[s] # <<>>

\* Cumulate keeps for every strip the earliest time of the signals written
\* on it since Clear (spec: "take the earlier of the existing and new
\* arrival time"; an induced signal has "the same time as the main signal").
EarliestArrival ==
    \A s \in Strips :
        plane.fTime[s] = IF arrivals[s] = {} THEN ClearTime
                         ELSE CHOOSE t \in arrivals[s] : \A u \in arrivals[s] : t <= u

\* The constructor and Cumulate only touch rows of fStripClusterADC[6]
\* that exist.
NoClusterADCOverrun == ~plane.fOverrun

=============================================================================
