-------------------------- MODULE GEMDigitization --------------------------
(***************************************************************************)
(* The digitizer TSBSSimGEMDigitization (src/src/TSBSSimGEMDigitization.  *)
(* cxx): the planes fDP[chamber][0..1], the output event fEvent (its GEM   *)
(* clusters fGEMClust, its strips fGEMStrips, fNSignal), the flag          *)
(* fFilledStrips and the ion-model member fRTime0 that one hit leaves for  *)
(* the next.  Its public operations are the actions; the order in which a  *)
(* caller uses them is the business of the driver (DigitizationPass).      *)
(*                                                                         *)
(* A hit of TSBSGEMSimHitData is abstracted to its chamber (possibly out   *)
(* of range), its particle type, whether entrance and exit are more than   *)
(* 50 mm apart, and its hit time.  IonModel is abstracted to its effect on *)
(* fRNIon > 0 and fRTime0 (the minimum drift time of the ions); AvaModel   *)
(* to its outcome: no strip sets, or one virtual strip set per plane with  *)
(* the signal strips.  Cross talk is left to the plane model.  Times are   *)
(* integers in ns; the trigger offset and jitter are left out (they shift *)
(* every time of a call alike).                                            *)
(***************************************************************************)
EXTENDS DigitizedPlaneOps

CONSTANTS
    NChambers,   \* fNChambers
    HitTimes,    \* GetHitTime of signal hits
    BgTimes,     \* event times drawn for background hits
    Drifts,      \* minimum ion drift times fRTime0*1e9 IonModel can produce
    AvaResults,  \* the strip lists per plane AvaModel can return (besides NULL)
    NoIons,      \* marks a hit for which the Poisson draw gave no ion
    NULL         \* the null TSBSGEMHit** AvaModel may return

Chambers == 0 .. NChambers - 1
Planes   == 0 .. 1           \* AdditiveDigitize cumulates j = 0, 1

\* The hits of a data set: chamber, particle type, 'wide' when entrance and
\* exit are more than 50 mm apart in x or y.
Hit == [chamber : 0 .. NChambers, ptype : {1, 2}, wide : BOOLEAN, htime : HitTimes]

\* AvaModel's results: NULL (the avalanche misses the chamber or a plane),
\* or a strip list for each plane.
AvaOutcomes == {NULL} \cup AvaResults

\* The draws one hit consumes: the Poisson ion count (0 or positive), the
\* minimum drift time, the background event time, the AvaModel outcome.
Draw == [nion : {0, 1}, drift : Drifts, bgtime : BgTimes, ava : AvaOutcomes]

VARIABLES
    fDP,           \* fDP[ic][ip], the digitized planes
    fGEMClust,     \* fEvent->fGEMClust
    fGEMStrips,    \* fEvent->fGEMStrips, as a snapshot of the planes or empty
    fNSignal,      \* fEvent->fNSignal
    fFilledStrips, \* fFilledStrips
    fRTime0,       \* fRTime0 in ns, left by the last IonModel with ions
    fdh,           \* fdh, the strip sets of the last AvaModel, or NULL
    evno,          \* number of tree entries filled so far (history)
    tree           \* the last tree entry filled (history)

digiVars == <<fDP, fGEMClust, fGEMStrips, fNSignal, fFilledStrips, fRTime0, fdh, evno, tree>>

NoStrips == <<>>
\* tree before the first FillTree; evno > 0 once there is one.
NoTree   == "none"

(***************************************************************************)
(* The part of a plane that SetTreeStrips copies into a DigiGEMStrip for   *)
(* every strip (pedestal noise and saturation, drawn afresh at each copy,  *)
(* left out).                                                              *)
(***************************************************************************)
StripRecord(pl, s) ==
    [adc      |-> pl.fStripADC[s],
     sigType  |-> pl.fType[s],
     time1    |-> pl.fTime[s],
     clusters |-> pl.fStripClusters[s],
     weights  |-> pl.fStripWeightInCluster[s],
     ratio    |-> [k \in Samples |-> pl.fStripClusterADC[k][s]]]

Snapshot(dp) == [ic \in Chambers |-> [ip \in Planes |->
                    [s \in Strips |-> StripRecord(dp[ic][ip], s)]]]

(***************************************************************************)
(* IonModel(vv1, vv2, elost): with no ion it returns at once, leaving      *)
(* fRTime0 as it was; otherwise fRTime0 is the minimum drift time.         *)
(***************************************************************************)
IonModel(rtime0, d) == IF d.nion > 0 THEN d.drift ELSE rtime0

\* A virtual strip set as AvaModel builds it, with SetTime(t0).
VStrip(strips, t0) == [strips |-> strips, time |-> t0]

\* Mutant: fID taken as fGEMClust.size() before the push_back.
SetTreeHit_IDBeforePush(st, h, source, t0, dh, evtime, owndrift) ==
    LET clust == [chamber |-> h.chamber, source |-> source, ptype |-> h.ptype,
                  time |-> t0, id |-> Len(st.clust),
                  size |-> [j \in Planes |-> IF dh = NULL THEN 0 ELSE Len(dh[j])],
                  ev |-> evno, evtime |-> evtime, drift |-> owndrift]
    IN  [st EXCEPT !.clust   = Append(@, clust),
                   !.nsignal = IF h.ptype = 1 /\ source = 0 THEN @ + 1 ELSE @]

\* Mutant: fNSignal counts every primary, signal or background.
SetTreeHit_AnyPrimary(st, h, source, t0, dh, evtime, owndrift) ==
    LET clust == [chamber |-> h.chamber, source |-> source, ptype |-> h.ptype,
                  time |-> t0, id |-> Len(st.clust) + 1,
                  size |-> [j \in Planes |-> IF dh = NULL THEN 0 ELSE Len(dh[j])],
                  ev |-> evno, evtime |-> evtime, drift |-> owndrift]
    IN  [st EXCEPT !.clust   = Append(@, clust),
                   !.nsignal = IF h.ptype = 1 THEN @ + 1 ELSE @]

(***************************************************************************)
(* SetTreeHit: the cluster record pushed on fGEMClust.  fID is the new     *)
(* size; fSize[j] is the size of fdh[j] (0 when fdh is NULL).  The record  *)
(* also carries, as history, the tree entry it belongs to, its event time  *)
(* and the drift time of its own ions.                                     *)
(***************************************************************************)
SetTreeHit(st, h, source, t0, dh, evtime, owndrift) ==
    LET clust == [chamber |-> h.chamber, source |-> source, ptype |-> h.ptype,
                  time |-> t0, id |-> Len(st.clust) + 1,
                  size |-> [j \in Planes |-> IF dh = NULL THEN 0 ELSE Len(dh[j])],
                  ev |-> evno, evtime |-> evtime, drift |-> owndrift]
    IN  [st EXCEPT !.clust   = Append(@, clust),
                   !.nsignal = IF h.ptype = 1 /\ source = 0 THEN @ + 1 ELSE @]

(***************************************************************************)
(* One iteration of the hit loop of AdditiveDigitize: skip a hit with an   *)
(* out-of-range chamber or a wide hit; IonModel; the event time; fdh =     *)
(* AvaModel(...) only when there are ions (otherwise the member fdh keeps *)
(* what it holds); SetTreeHit; when fdh is set, Cumulate on both planes,   *)
(* delete the strip sets and fdh = NULL.  st holds the state the loop      *)
(* changes.                                                                *)
(***************************************************************************)
NoCrossTalk == [dir |-> 1, factor |-> Suppressed]

\* Cumulate of the strip sets dh on both planes of the hit's chamber.
CumulateHit(st, h, dh, t0, id) ==
    LET itype == IF h.ptype = 1 THEN 1 ELSE 2
    IN  [st EXCEPT !.dp[h.chamber] =
            [j \in Planes |-> Cumulate(@[j], VStrip(dh[j], t0), itype, id, NoCrossTalk)]]

\* Mutant: SetTreeHit called after fdh has been released and set to NULL.
HitStep_TreeHitAfterRelease(st, h, source, d) ==
    IF h.chamber >= NChambers \/ h.wide THEN st
    ELSE LET rtime0   == IonModel(st.rtime0, d)
             evtime   == IF source # 0 THEN d.bgtime ELSE h.htime
             t0       == evtime + rtime0
             dh       == IF d.nion > 0 THEN d.ava ELSE st.fdh
             owndrift == IF d.nion > 0 THEN d.drift ELSE NoIons
             st1 == IF dh = NULL THEN st
                    ELSE CumulateHit(st, h, dh, t0, <<Len(st.clust) + 1, evno>>)
         IN  SetTreeHit([st1 EXCEPT !.rtime0 = rtime0, !.fdh = NULL],
                        h, source, t0, NULL, evtime, owndrift)

\* Mutant: fdh never reset after Cumulate (as in the SoLID AdditiveDigitize).
HitStep_KeepFdh(st, h, source, d) ==
    IF h.chamber >= NChambers \/ h.wide THEN st
    ELSE LET rtime0   == IonModel(st.rtime0, d)
             evtime   == IF source # 0 THEN d.bgtime ELSE h.htime
             t0       == evtime + rtime0
             dh       == IF d.nion > 0 THEN d.ava ELSE st.fdh
             owndrift == IF d.nion > 0 THEN d.drift ELSE NoIons
             st1 == SetTreeHit([st EXCEPT !.rtime0 = rtime0, !.fdh = dh],
                               h, source, t0, dh, evtime, owndrift)
         IN  IF dh = NULL THEN st1
             ELSE CumulateHit(st1, h, dh, t0, <<st1.clust[Len(st1.clust)].id, evno>>)

HitStep(st, h, source, d) ==
    IF h.chamber >= NChambers \/ h.wide THEN st
    ELSE LET rtime0   == IonModel(st.rtime0, d)
             evtime   == IF source # 0 THEN d.bgtime ELSE h.htime
             t0       == evtime + rtime0
             dh       == IF d.nion > 0 THEN d.ava ELSE st.fdh
             owndrift == IF d.nion > 0 THEN d.drift ELSE NoIons
             st1 == SetTreeHit([st EXCEPT !.rtime0 = rtime0, !.fdh = dh],
                               h, source, t0, dh, evtime, owndrift)
         IN  IF dh = NULL THEN st1
             ELSE [CumulateHit(st1, h, dh, t0, <<st1.clust[Len(st1.clust)].id, evno>>)
                      EXCEPT !.fdh = NULL]

\* The digitizer state as one record, so that Digitize can be written as
\* its clearing followed by AdditiveDigitize.
DigiState == [dp |-> fDP, clust |-> fGEMClust, strips |-> fGEMStrips,
              nsignal |-> fNSignal, filled |-> fFilledStrips, rtime0 |-> fRTime0,
              fdh |-> fdh]

SetState(st) ==
    /\ fDP' = st.dp
    /\ fGEMClust' = st.clust
    /\ fGEMStrips' = st.strips
    /\ fNSignal' = st.nsignal
    /\ fFilledStrips' = st.filled
    /\ fRTime0' = st.rtime0
    /\ fdh' = st.fdh

\* The hit loop over the hits of a data set with the draws d[1..Len(hits)].
HitLoop(st0, hits, source, d) ==
    FoldLeft(LAMBDA st, i : HitStep(st, hits[i], source, d[i]),
             st0, [i \in 1 .. Len(hits) |-> i])

(***************************************************************************)
(* AdditiveDigitize(gdata): an empty data set returns at once; otherwise   *)
(* the hit loop, then fFilledStrips = false.                               *)
(***************************************************************************)
AdditiveDigitizeOp(st, hits, source, d) ==
    IF hits = <<>> THEN st
    ELSE [HitLoop(st, hits, source, d) EXCEPT !.filled = FALSE]

\* TSBSSimEvent::Clear(opt): fNSignal, fGEMClust and fGEMStrips (the other
\* detectors' records, cleared with "all", are left out).
EventClear(st) == [st EXCEPT !.clust = <<>>, !.strips = NoStrips, !.nsignal = 0]

\* Mutant: Digitize without the loop that clears the planes.
DigitizeOp_NoPlaneClear(st, hits, source, d) ==
    AdditiveDigitizeOp([EventClear(st) EXCEPT !.filled = TRUE], hits, source, d)

(***************************************************************************)
(* Digitize(gdata): clear the event and every plane, set fFilledStrips,    *)
(* then AdditiveDigitize.                                                  *)
(***************************************************************************)
DigitizeOp(st, hits, source, d) ==
    AdditiveDigitizeOp(
        [EventClear(st) EXCEPT
            !.dp = [ic \in Chambers |-> [ip \in Planes |-> Clear(@[ic][ip])]],
            !.filled = TRUE],
        hits, source, d)

\* SetTreeStrips: one DigiGEMStrip per strip of every plane; fFilledStrips.
SetTreeStripsOp(st) == [st EXCEPT !.strips = Snapshot(st.dp), !.filled = TRUE]

(***************************************************************************)
(* NoDigitize(gdata): clear the event, SetTreeHit (with t0 = 0 and fdh as *)
(* it is) for each hit in a chamber in range, then SetTreeStrips.          *)
(***************************************************************************)
NoDigitizeOp(st, hits, source) ==
    LET inRange == SelectSeq(hits, LAMBDA h : h.chamber < NChambers)
        tagged  == FoldLeft(LAMBDA s, h : SetTreeHit(s, h, source, 0, s.fdh, 0, NoIons),
                            EventClear(st), inRange)
    IN  SetTreeStripsOp(tagged)

\* Draw functions for a data set.
Draws(hits) == [1 .. Len(hits) -> Draw]

(***************************************************************************)
(* The operations as actions.  SetTreeEvent(gdata, f, evnum) clears the    *)
(* whole event ("all"); FillTree calls SetTreeStrips unless fFilledStrips *)
(* and writes the event to the tree.                                       *)
(***************************************************************************)
Digitize(hits, source) ==
    /\ \E d \in Draws(hits) : SetState(DigitizeOp(DigiState, hits, source, d))
    /\ UNCHANGED <<evno, tree>>

AdditiveDigitize(hits, source) ==
    /\ \E d \in Draws(hits) : SetState(AdditiveDigitizeOp(DigiState, hits, source, d))
    /\ UNCHANGED <<evno, tree>>

NoDigitize(hits, source) ==
    /\ SetState(NoDigitizeOp(DigiState, hits, source))
    /\ UNCHANGED <<evno, tree>>

SetTreeEvent ==
    /\ SetState(EventClear(DigiState))
    /\ UNCHANGED <<evno, tree>>

FillTree ==
    LET st == IF fFilledStrips THEN DigiState ELSE SetTreeStripsOp(DigiState)
    IN  /\ SetState(st)
        /\ tree' = [clust |-> st.clust, strips |-> st.strips, nsignal |-> st.nsignal,
                    ev |-> evno, planes |-> Snapshot(st.dp)]
        /\ evno' = evno + 1

DigiInit ==
    /\ fDP = [ic \in Chambers |-> [ip \in Planes |-> NewPlane]]
    /\ fGEMClust = <<>>
    /\ fGEMStrips = NoStrips
    /\ fNSignal = 0
    /\ fFilledStrips = TRUE
    /\ fRTime0 \in Drifts \cup {0}   \* never initialized before the first IonModel
    /\ fdh = NULL                     \* Initialize: fdh = NULL
    /\ evno = 0
    /\ tree = NoTree


(***************************************************************************)
(* Properties of the tree entries the digitizer writes                     *)
(***************************************************************************)

\* A cluster ID as Cumulate stores it, tagged with the tree entry (history).
ClusterTag == Nat \X Nat

StripType ==
    [adc : [Samples -> Nat], sigType : SUBSET {kPrimaryStrip, kSecondaryStrip, kInducedStrip},
     time1 : Int, clusters : Seq(ClusterTag), weights : Seq(Nat \X Nat),
     ratio : [Samples -> Seq(Nat)]]

ClusterType ==
    [chamber : Chambers, source : {0, 1}, ptype : {1, 2}, time : Int,
     id : Nat \ {0}, size : [Planes -> Nat], ev : Nat, evtime : Int,
     drift : Drifts \cup {NoIons}]

DigiTypeOK ==
    /\ \A ic \in Chambers, ip \in Planes :
          /\ fDP[ic][ip].fTotADC \in [Strips -> Nat]
          /\ fDP[ic][ip].fStripClusters \in [Strips -> Seq(ClusterTag)]
          /\ fDP[ic][ip].fTime \in [Strips -> Int]
    /\ fGEMClust \in Seq(ClusterType)
    /\ \A i \in 1 .. Len(fGEMClust) : fGEMClust[i].id = i
    /\ fGEMStrips = NoStrips \/ fGEMStrips \in [Chambers -> [Planes -> [Strips -> StripType]]]
    /\ fNSignal \in 0 .. Len(fGEMClust)
    /\ fFilledStrips \in BOOLEAN
    /\ fRTime0 \in Drifts \cup {0}
    /\ fdh \in AvaOutcomes
    /\ evno \in Nat

\* Every cluster ID that a written strip carries (fClusters of a
\* DigiGEMStrip) names a cluster record (fID) of the same tree entry, and
\* one of the chamber the strip belongs to: the decoder looks the cluster
\* up by this ID.  A stale plane or a cleared cluster list breaks it.
StripClusterRefsResolve ==
    evno > 0 /\ tree.strips # NoStrips =>
        \A ic \in Chambers, ip \in Planes, s \in Strips :
            \A c \in ToSet(tree.strips[ic][ip][s].clusters) :
                /\ c[2] = tree.ev
                /\ c[1] \in 1 .. Len(tree.clust)
                /\ tree.clust[c[1]].chamber = ic

\* fNSignal counts the signal primaries and "the first fNSignal elements in
\* the array of clusters are from the signal" (TSBSSimEvent.h), whatever
\* background AdditiveDigitize layered on after the signal.
SignalClustersFirst ==
    evno > 0 =>
        /\ tree.nsignal = Cardinality({i \in 1 .. Len(tree.clust) :
                                          tree.clust[i].source = 0 /\ tree.clust[i].ptype = 1})
        /\ \A i \in 1 .. tree.nsignal : tree.clust[i].source = 0

\* The size fSize[j] SetTreeHit records for a cluster is the number of
\* strips of plane j that Cumulate tagged with the cluster's ID.
ClusterSizeMatchesStrips ==
    evno > 0 /\ tree.strips # NoStrips =>
        \A i \in 1 .. Len(tree.clust), ip \in Planes :
            LET ic == tree.clust[i].chamber
            IN  tree.clust[i].size[ip] =
                    Cardinality({s \in Strips :
                        <<i, tree.ev>> \in ToSet(tree.strips[ic][ip][s].clusters)})

\* The time fTime1 of a written strip is the earliest time of the clusters
\* it carries (Cumulate keeps the minimum over the hits of the entry), and
\* the cleared 9999 for a strip no hit reached: the strip's time can be
\* trusted as the time of its first cluster.
StripTimeIsEarliestCluster ==
    evno > 0 /\ tree.strips # NoStrips =>
        \A ic \in Chambers, ip \in Planes, s \in Strips :
            LET st    == tree.strips[ic][ip][s]
                times == {tree.clust[c[1]].time :
                            c \in {x \in ToSet(st.clusters) : x[1] \in 1 .. Len(tree.clust)}}
            IN  st.time1 = IF st.clusters = <<>> THEN ClearTime
                           ELSE CHOOSE t \in times : \A u \in times : t <= u

\* The time SetTreeHit records for a cluster is its event time plus the
\* drift time of its own hit's ions (none when the hit made no ion), not a
\* drift time IonModel left from an earlier hit.
ClusterTimeFromOwnHit ==
    evno > 0 =>
        \A i \in 1 .. Len(tree.clust) :
            tree.clust[i].time = tree.clust[i].evtime
                                 + (IF tree.clust[i].drift = NoIons THEN 0
                                    ELSE tree.clust[i].drift)

\* A cluster whose hit made no ion (the Poisson draw of IonModel was 0, so
\* AvaModel was not called) records no strips, fSize 0 on both planes, and
\* no written strip carries its ID: the strip sets an earlier hit's
\* avalanche left in the member fdh were released and fdh set to NULL
\* after that hit's Cumulate, so they are not cumulated again.
NoIonClusterHasNoStrips ==
    evno > 0 =>
        \A i \in 1 .. Len(tree.clust) :
            tree.clust[i].drift = NoIons =>
                /\ \A j \in Planes : tree.clust[i].size[j] = 0
                /\ tree.strips # NoStrips =>
                      \A ic \in Chambers, ip \in Planes, s \in Strips :
                          <<i, tree.ev>> \notin ToSet(tree.strips[ic][ip][s].clusters)

\* The strips FillTree writes are those of the planes at that moment:
\* fFilledStrips is "True if no data changed since last SetTreeStrips".
TreeStripsShowPlanes ==
    evno > 0 => tree.strips = tree.planes

=============================================================================
