------------------------------ MODULE G4File ------------------------------
(***************************************************************************)
(* The g4sbs input reader TSBSGeant4File (src/src/TSBSGeant4File.cxx):    *)
(* Open, ReadNextEvent (three hit loops, for the forward tracker and the  *)
(* two FPPs, each storing the hit and its generated track unless it is    *)
(* already stored), Close, and GetGEMData, the hit list it hands to the   *)
(* digitizer.                                                              *)
(*                                                                         *)
(* A raw hit of the tree is its PDG code, mother ID, plane, whether its    *)
(* energy deposit is positive, and its vertex; momenta, positions, times   *)
(* and the low-energy electron range correction are left out.  The event *)
(* weight, compared with the vertex in the track test, is the same for    *)
(* every hit of an entry and is left out too.                              *)
(***************************************************************************)
EXTENDS Integers, Sequences, SequencesExt

CONSTANTS
    Files,     \* the files SetFilename may name: each the entries of its tree T,
               \* an entry being [ft, fpp1, fpp2] hit lists
    Source,    \* fSource, set by SetSource before Open
    NULLFILE, OPEN, NOTOPEN   \* fFile: null, an open TFile, one that failed

VARIABLES
    fFile,         \* the TFile object
    fTree,         \* the entries of the tree of the file opened last
    fEvNum,        \* unsigned fEvNum, kept as its signed value (-1 after Open)
    fg4sbsHitData, \* the hit records of the event
    fg4sbsGenData, \* the generated tracks of the event
    readRet,       \* the value the last ReadNextEvent returned
    read           \* history: the entries read since Open

g4Vars == <<fFile, fTree, fEvNum, fg4sbsHitData, fg4sbsGenData, readRet, read>>

\* The hit record SetData fills from hit_data_temp: plane (0), edep (1),
\* type = mid+1 (13), pid (18), vertex (14-16).
HitRecord(det, h) ==
    [det |-> det, plane |-> h.plane, edep |-> h.edep, type |-> h.mid + 1,
     pid |-> h.pid, vtx |-> h.vtx]

\* gen_data_temp: pid (0), vertex (4-6).
GenRecord(h) == [pid |-> h.pid, vtx |-> h.vtx]

\* Mutant: a track counted as stored when its pid matches any stored one.
StoreTrack_PidOnly(gen, t) ==
    IF \E z \in 1 .. Len(gen) : gen[z].pid = t.pid THEN gen ELSE Append(gen, t)

(***************************************************************************)
(* The "only store new MC tracks" loop: for z from n_gen-1 down, dupli if *)
(* the pid of track z and the vertex of track n_gen-1 (the last one, not  *)
(* z) equal the new track's; the new track is appended unless some z was  *)
(* dupli.                                                                  *)
(***************************************************************************)
StoreTrack(gen, t) ==
    IF \E z \in 1 .. Len(gen) : gen[z].pid = t.pid /\ gen[Len(gen)].vtx = t.vtx
    THEN gen
    ELSE Append(gen, t)

\* Clear: delete and drop every hit and generated track.
G4Clear == [hits |-> <<>>, gen |-> <<>>]

\* One iteration of a hit loop: push the hit record, then its track.
AddHit(ev, det, h) ==
    [hits |-> Append(ev.hits, HitRecord(det, h)),
     gen  |-> StoreTrack(ev.gen, GenRecord(h))]

\* A hit loop of ReadNextEvent over the hits of one detector.
HitLoop(ev, det, hits) == FoldLeft(LAMBDA e, h : AddHit(e, det, h), ev, hits)

\* Mutant: the FPP2 loop tagging its hits with det_id 2.
ReadHits_FPP2Det2(entry) ==
    LET ft   == HitLoop(G4Clear, 0, entry.ft)
        fpp1 == HitLoop(ft, 1, entry.fpp1)
    IN  HitLoop(fpp1, 2, entry.fpp2)

\* The three loops: forward tracker (det_id 0), FPP1 and FPP2 (det_id 1).
ReadHits(entry) ==
    LET ft   == HitLoop(G4Clear, 0, entry.ft)
        fpp1 == HitLoop(ft, 1, entry.fpp1)
    IN  HitLoop(fpp1, 1, entry.fpp2)

\* Mutant: fEvNum set to 0 instead of -1 by Open.
OpenFile_EvNumZero(t, ok) ==
    /\ fFile' = IF ok THEN OPEN ELSE NOTOPEN
    /\ fTree' = IF ok THEN t ELSE fTree
    /\ fEvNum' = IF ok THEN 0 ELSE fEvNum
    /\ read' = IF ok THEN <<>> ELSE read
    /\ UNCHANGED <<fg4sbsHitData, fg4sbsGenData, readRet>>

\* Open of the file holding tree t: delete fFile, a new TFile, which is
\* open (ok) or not; fEvNum = -1 when it opened.
OpenFile(t, ok) ==
    /\ fFile' = IF ok THEN OPEN ELSE NOTOPEN
    /\ fTree' = IF ok THEN t ELSE fTree
    /\ fEvNum' = IF ok THEN -1 ELSE fEvNum
    /\ read' = IF ok THEN <<>> ELSE read
    /\ UNCHANGED <<fg4sbsHitData, fg4sbsGenData, readRet>>

Open == \E ok \in BOOLEAN, t \in Files : OpenFile(t, ok)

(***************************************************************************)
(* ReadNextEvent: 0 when the file is not open; otherwise Clear, fEvNum++,  *)
(* 0 when GetEntry(fEvNum) finds no entry, else the three hit loops and 1. *)
(* The caller stops at the first 0, so at most one read passes the end.  *)
(***************************************************************************)
ReadNextEvent ==
    /\ fFile # NULLFILE
    /\ fEvNum < Len(fTree)
    /\ IF fFile # OPEN
       THEN /\ readRet' = 0
            /\ UNCHANGED <<fFile, fTree, fEvNum, fg4sbsHitData, fg4sbsGenData, read>>
       ELSE LET n == fEvNum + 1
            IN  /\ fEvNum' = n
                /\ IF n >= Len(fTree)
                   THEN /\ fg4sbsHitData' = G4Clear.hits
                        /\ fg4sbsGenData' = G4Clear.gen
                        /\ readRet' = 0
                        /\ UNCHANGED read
                   ELSE LET ev == ReadHits(fTree[n + 1])
                        IN  /\ fg4sbsHitData' = ev.hits
                            /\ fg4sbsGenData' = ev.gen
                            /\ readRet' = 1
                            /\ read' = Append(read, n)
                /\ UNCHANGED <<fFile, fTree>>

\* Close: 0 if the file is not open, else close and delete it.
Close ==
    /\ fFile # NULLFILE
    /\ fFile' = IF fFile = OPEN THEN NULLFILE ELSE fFile
    /\ UNCHANGED <<fTree, fEvNum, fg4sbsHitData, fg4sbsGenData, readRet, read>>

(***************************************************************************)
(* GetGEMData: the hits with a positive energy deposit, in order, with     *)
(* chamber det_id*10 + plane - 1, SetParticleID from the type (13) and     *)
(* SetParticleType from the pid (18), the source and the event number.    *)
(***************************************************************************)
GetGEMData ==
    LET kept == SelectSeq(fg4sbsHitData, LAMBDA h : h.edep > 0)
    IN  [hits |-> [i \in 1 .. Len(kept) |->
                     [chamber |-> kept[i].det * 10 + kept[i].plane - 1,
                      particleID |-> kept[i].type, particleType |-> kept[i].pid]],
         source |-> Source, event |-> fEvNum]

G4Init ==
    /\ fFile = NULLFILE
    /\ fTree = <<>>
    /\ fEvNum \in {-1, 0}   \* not in the constructors' initializer lists
    /\ fg4sbsHitData = <<>>
    /\ fg4sbsGenData = <<>>
    /\ readRet = 0
    /\ read = <<>>

G4Next == Open \/ ReadNextEvent \/ Close

G4Spec == G4Init /\ [][G4Next]_g4Vars

G4TypeOK ==
    /\ fFile \in {NULLFILE, OPEN, NOTOPEN}
    /\ fEvNum \in -1 .. Len(fTree)
    /\ \A i \in 1 .. Len(fg4sbsHitData) : fg4sbsHitData[i].det \in {0, 1}
    /\ readRet \in {0, 1}

(***************************************************************************)
(* Properties                                                              *)
(***************************************************************************)

\* After Open, the successful ReadNextEvent calls read the entries 0, 1,
\* 2, ... of the tree, each once and none skipped (fEvNum starts at the
\* unsigned -1 and wraps to 0), and the event number GetGEMData hands to
\* the digitizer is the entry whose hits it carries (reopening the file
\* starts again from entry 0).
EntriesReadInOrder ==
    /\ read = [i \in 1 .. Len(read) |-> i - 1]
    /\ read # <<>> /\ readRet = 1 =>
                      /\ GetGEMData.event = read[Len(read)]
                      /\ Len(fg4sbsHitData) = Len(fTree[fEvNum + 1].ft)
                                             + Len(fTree[fEvNum + 1].fpp1)
                                             + Len(fTree[fEvNum + 1].fpp2)

\* fg4sbsGenData holds the generated track of every hit of the event, each
\* track once ("only store new MC tracks"): a track is its pid and vertex.
GenDataIsTrackSet ==
    readRet = 1 =>
        /\ IsInjective(fg4sbsGenData)
        /\ ToSet(fg4sbsGenData) = {[pid |-> h.pid, vtx |-> h.vtx] : h \in ToSet(fg4sbsHitData)}

=============================================================================
