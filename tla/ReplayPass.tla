---------------------------- MODULE ReplayPass ----------------------------
(***************************************************************************)
(* The digitization pass composed with its replay: every tree entry that  *)
(* FillTree writes is read by TSBSSimDecoder::LoadEvent before the pass   *)
(* writes the next one (the replay reads the file entry by entry, in      *)
(* order), and the tracking detectors may then ask GetSBSMCHitInfo about  *)
(* any channel of fStripMap.                                               *)
(***************************************************************************)
EXTENDS DigitizationPass, SimDecoder

allVars == <<vars, decVars>>

ReplayInit == Init /\ DecInit

ReplayNext ==
    \/ /\ decoded = evno
       /\ Next
       /\ UNCHANGED decVars
    \/ /\ LoadEvent
       /\ UNCHANGED vars

ReplaySpec == ReplayInit /\ [][ReplayNext]_allVars

(***************************************************************************)
(* Properties of a decoded entry                                           *)
(***************************************************************************)

\* The asserts of GetSBSMCHitInfo hold for every channel of the entry: each
\* cluster ID a strip carries indexes fGEMClust (iclust in range), names a
\* cluster with fID == iclust+1 and of the strip's plane.  They tie the
\* numbering of SetTreeHit to the tags Cumulate writes in the same event.
MCInfoAssertsHold ==
    decoded > 0 => \A k \in DOMAIN fStripMap : MCHitInfo(k).asserts

\* Every row fClusterRatio[its][i], its < 6, that GetSBSMCHitInfo reads for
\* a cluster of a strip exists: the strip was written with at least six
\* samples' worth of cluster ADC.
ClusterRatioRowsExist ==
    decoded > 0 => \A k \in DOMAIN fStripMap : MCHitInfo(k).rowsExist

=============================================================================
