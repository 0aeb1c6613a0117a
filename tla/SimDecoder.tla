---------------------------- MODULE SimDecoder ----------------------------
(***************************************************************************)
(* The replay side, TSBSSimDecoder (src/src/TSBSSimDecoder.cxx): LoadEvent *)
(* of one tree entry written by the digitizer (the strip loop that builds  *)
(* fStripMap, the cluster loop that fills fMCHits, fMCPoints, the hit and *)
(* failure bit patterns and the back track) and GetSBSMCHitInfo, the MC    *)
(* truth the tracking detectors ask for each hardware channel.            *)
(*                                                                         *)
(* The entry read is the record FillTree leaves in `tree`.  Positions,     *)
(* momenta, charges, the calorimeter emulation and the float averages of  *)
(* GetSBSMCHitInfo are left out; a bit pattern is the set of its planes.  *)
(* The MC tracks copied from the entry are not modelled (the digitizer    *)
(* model has no tracks), so assert(GetNMCTracks() > 0) is not either.     *)
(***************************************************************************)
EXTENDS GEMDigitization, DecoderOps

CONSTANTS
    ChamberPlane,   \* manager->GetPlaneID(ich)
    ChamberModule   \* manager->GetModuleID(ich)

VARIABLES
    fStripMap,    \* ROC key -> index in fGEMStrips
    fMCHits,      \* fMCHits: the indices of the clusters copied
    fMCPoints,    \* fMCPoints: one point per projection of a signal primary
    fBackTracks,  \* fBackTracks: at most one back track
    buffer,       \* the event buffer (the entry) GetSBSMCHitInfo reads
    ret,          \* the return code of the last LoadEvent
    decoded       \* number of entries read so far

decVars == <<fStripMap, fMCHits, fMCPoints, fBackTracks, buffer, ret, decoded>>

HED_OK    == "HED_OK"
HED_FATAL == "HED_FATAL"

(***************************************************************************)
(* fGEMStrips as SetTreeStrips pushes it: chamber by chamber, projection   *)
(* by projection, strip by strip, each with fPlane, fModule (from the      *)
(* manager), fProj, fChan and fNsamp = min(MC_MAXSAMP, samples).          *)
(***************************************************************************)
StripSeq(e) ==
    IF e.strips = NoStrips THEN <<>>
    ELSE [i \in 1 .. NChambers * 2 * NStrips |->
            LET j  == i - 1
                ic == j \div (2 * NStrips)
                ip == (j \div NStrips) % 2
                s  == j % NStrips
            IN  [rec |-> e.strips[ic][ip][s], plane |-> ChamberPlane[ic],
                 module |-> ChamberModule[ic], proj |-> ip, chan |-> s,
                 nsamp |-> MinOf(10, NSamples)]]

(***************************************************************************)
(* The strip loop of DoLoadEvent: fStripMap.insert(MakeROCKey(...), i).   *)
(* An insert of a key already present leaves the map as it is (the        *)
(* assert(ins.second) is compiled out with NDEBUG).                       *)
(***************************************************************************)
LoadStrips(strips) ==
    FoldLeft(LAMBDA m, i :
                LET k == StripKey(strips[i])
                IN  IF k \in DOMAIN m THEN m ELSE m @@ (k :> i - 1),
             [k \in {} |-> 0], [i \in 1 .. Len(strips) |-> i])

NoBest == -1

ClusterLoopInit ==
    [hits |-> <<>>, points |-> {}, hitbits |-> {}, ufail |-> {}, vfail |-> {},
     best |-> NoBest, bestPlane |-> Cardinality(GEMPlanes), fatal |-> FALSE]

(***************************************************************************)
(* One iteration of the cluster loop (cluster c at index i): an illegal   *)
(* plane ends LoadEvent with HED_FATAL; the cluster is copied to fMCHits;  *)
(* a signal primary adds its two points, its plane bit, the best primary  *)
(* (the first on the lowest plane) and the u/v failure bits from fSize.   *)
(***************************************************************************)
ClusterStep(cs, c, i) ==
    LET p == ChamberPlane[c.chamber]
    IN  IF cs.fatal THEN cs
        ELSE IF p \notin GEMPlanes THEN [cs EXCEPT !.fatal = TRUE]
        ELSE LET cs1 == [cs EXCEPT !.hits = Append(@, i)]
             IN  IF ~(c.ptype = 1 /\ c.source = 0) THEN cs1
                 ELSE [cs1 EXCEPT
                         !.points  = @ \cup {[plane |-> p, proj |-> j,
                                              digitized |-> c.size[j] # 0] : j \in Planes},
                         !.hitbits = @ \cup {p},
                         !.best      = IF p < cs.bestPlane THEN i ELSE @,
                         !.bestPlane = MinOf(@, p),
                         !.ufail = IF c.size[0] = 0 THEN @ \cup {p} ELSE @,
                         !.vfail = IF c.size[1] = 0 THEN @ \cup {p} ELSE @]

ClusterLoop(e) ==
    FoldLeft(LAMBDA cs, i : ClusterStep(cs, e.clust[i + 1], i),
             ClusterLoopInit, [k \in 1 .. Len(e.clust) |-> k - 1])

(***************************************************************************)
(* The back track: only when a best primary was found, one track built    *)
(* from that cluster, its plane bit set, then the hit and failure bits of  *)
(* all signal primaries.                                                    *)
(***************************************************************************)
BackTracks(cs) ==
    IF cs.best = NoBest THEN <<>>
    ELSE <<[cluster |-> cs.best, hitbits |-> cs.hitbits,
            ufail |-> cs.ufail, vfail |-> cs.vfail]>>

(***************************************************************************)
(* DoLoadEvent(evbuffer) on the next entry: Clear, the strip loop, the    *)
(* cluster loop, then (unless it returned HED_FATAL) the back track from  *)
(* the best primary with the hit and failure bits.                         *)
(***************************************************************************)
LoadEvent ==
    /\ decoded < evno
    /\ LET cs == ClusterLoop(tree)
       IN  /\ buffer' = tree
           /\ fStripMap' = LoadStrips(StripSeq(tree))
           /\ fMCHits' = cs.hits
           /\ fMCPoints' = cs.points
           /\ fBackTracks' = IF cs.fatal THEN <<>> ELSE BackTracks(cs)
           /\ ret' = IF cs.fatal THEN HED_FATAL ELSE HED_OK
           /\ decoded' = evno

DecInit ==
    /\ fStripMap = [k \in {} |-> 0]
    /\ fMCHits = <<>>
    /\ fMCPoints = {}
    /\ fBackTracks = <<>>
    /\ buffer = NoTree
    /\ ret = HED_OK
    /\ decoded = 0

\* Mutant: the cluster ID used as the array index without the shift by one.
ClusterIndex_NoShift(id) == id

\* "Int_t iclust = strip.fClusters[i] - 1; // array index = clusterID - 1"
ClusterIndex(id) == id - 1

\* StripFromROC: the index fStripMap holds for the key, or -1.
StripFromROC(k) == IF k \in DOMAIN fStripMap THEN fStripMap[k] ELSE -1

(***************************************************************************)
(* GetSBSMCHitInfo(crate, slot, chan) for the channel with key k: the     *)
(* strip StripFromROC finds; an induced-only strip returns at once;       *)
(* otherwise each cluster ID on the strip is looked up (fClusters[i]-1)    *)
(* and the six rows fClusterRatio[0..5][i] are read.  The asserts of the  *)
(* loop are collected in `asserts`; `rowsExist` says whether every row    *)
(* read exists.  Which track the strip is given (fMCTrack, decided by     *)
(* c.fType == 1, c.fPID against fSignalInfo and c.fSource) is left out:   *)
(* the cluster records of this model carry no particle ID.                *)
(***************************************************************************)
MCHitInfo(k) ==
    LET st  == StripSeq(buffer)[StripFromROC(k) + 1]
        cl  == st.rec.clusters
        iclust(i) == ClusterIndex(cl[i][1])
        inRange(i) == iclust(i) \in 0 .. Len(buffer.clust) - 1
        clust(i)   == buffer.clust[iclust(i) + 1]
        inducedOnly == kInducedStrip \in st.rec.sigType
                       /\ st.rec.sigType \cap {kPrimaryStrip, kSecondaryStrip} = {}
    IN  IF inducedOnly
        THEN [asserts |-> TRUE, rowsExist |-> TRUE]
        ELSE [asserts |-> \A i \in 1 .. Len(cl) :
                             /\ inRange(i)
                             /\ clust(i).id = iclust(i) + 1
                             /\ ChamberPlane[clust(i).chamber] = st.plane,
              rowsExist |-> \A i \in 1 .. Len(cl), its \in 0 .. 5 :
                               its < st.nsamp /\ i <= Len(st.rec.ratio[its])]

=============================================================================
