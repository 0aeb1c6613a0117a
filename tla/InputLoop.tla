----------------------------- MODULE InputLoop -----------------------------
(***************************************************************************)
(* The file handling of the event loop in src/example/DigitizationPass.C: *)
(* the loop over the signal files (a new TSBSGeant4File each, Open, the    *)
(* ReadNextEvent loop up to Nmax events, Close), the skips of events with  *)
(* no hits or no generated track, and per event the loop that adds        *)
(* background files beam_bkgd_<Nfile>.root, N_bg_file_g on, wrapping the  *)
(* file number at 1000.  The signal file is the reader of G4File.  What   *)
(* is done with the data (SetTreeEvent, Digitize, AdditiveDigitize of     *)
(* every entry of a background file, FillTree) is DigitizationPass's and  *)
(* is recorded here only as the tree entry written: its event number and   *)
(* the background files added to it.                                        *)
(***************************************************************************)
EXTENDS G4File, FiniteSets

CONSTANTS
    SigFiles,     \* the signal files in i_sig order: [tree, opens]
    BgNumbers,    \* the background file numbers that may exist
    BackToAdd,    \* the values of the argument nbacktoadd
    BgWrap,       \* the file number at which N_bg_file_g wraps (1000)
    Nmax          \* Nmax

ASSUME BgNumbers \subseteq 0 .. BgWrap - 1 /\ BackToAdd \subseteq Nat /\ Nmax \in Nat

VARIABLES
    BgFiles,     \* the numbers Nfile of the files beam_bkgd_<Nfile>.root that open
    NBackToAdd,  \* nbacktoadd
    isig,     \* i_sig
    nevent,   \* nevent
    ngood,    \* Ngood
    pc,       \* where the loop is
    Nbg,      \* N_bg_file_g
    Nfile,    \* Nfile, the background file loop's counter
    post,     \* N_bg_file_g_post, its bound
    bgUsed,   \* the background files added to the current event
    written   \* history: the tree entries FillTree wrote

loopVars == <<BgFiles, NBackToAdd, isig, nevent, ngood, pc, Nbg, Nfile, post, bgUsed, written>>
allVars  == <<g4Vars, loopVars>>

LoopInit ==
    /\ G4Init
    /\ BgFiles \in SUBSET BgNumbers /\ NBackToAdd \in BackToAdd
    /\ isig = 0 /\ nevent = 0 /\ ngood = 0 /\ pc = "file"
    /\ Nbg = 0 /\ Nfile = 0 /\ post = 0 /\ bgUsed = <<>> /\ written = <<>>

\* f = new TSBSGeant4File(...); f->Open(); a file that does not open is
\* skipped (continue), without Close.
OpenSig ==
    /\ pc = "file" /\ isig < Len(SigFiles)
    /\ OpenFile(SigFiles[isig + 1].tree, SigFiles[isig + 1].opens)
    /\ IF SigFiles[isig + 1].opens
       THEN pc' = "read" /\ isig' = isig
       ELSE pc' = "file" /\ isig' = isig + 1
    /\ UNCHANGED <<BgFiles, NBackToAdd, nevent, ngood, Nbg, Nfile, post, bgUsed, written>>

\* The loop test f->ReadNextEvent() && hadback && nevent<Nmax: the read
\* happens first, even when nevent has reached Nmax.  hadback is the last
\* background ReadNextEvent, which reads only entries below GetEntries()
\* and so is always 1.
ReadSig ==
    /\ pc = "read"
    /\ ReadNextEvent
    /\ pc' = IF readRet' = 1 /\ nevent < Nmax THEN "body" ELSE "closefile"
    /\ UNCHANGED <<BgFiles, NBackToAdd, isig, nevent, ngood, Nbg, Nfile, post, bgUsed, written>>

\* Mutant: a skipped event is not counted.
SkipEvent_NoCount ==
    /\ pc = "body"
    /\ Len(fg4sbsHitData) = 0 \/ Len(fg4sbsGenData) = 0
    /\ pc' = "read"
    /\ UNCHANGED <<g4Vars, BgFiles, NBackToAdd, isig, nevent, ngood, Nbg, Nfile, post, bgUsed, written>>

\* GetNData()==0, or GetNGen()==0 after GetGEMData: nevent++; continue.
SkipEvent ==
    /\ pc = "body"
    /\ Len(fg4sbsHitData) = 0 \/ Len(fg4sbsGenData) = 0
    /\ nevent' = nevent + 1 /\ pc' = "read"
    /\ UNCHANGED <<g4Vars, BgFiles, NBackToAdd, isig, ngood, Nbg, Nfile, post, bgUsed, written>>

\* Ngood++, SetTreeEvent, Digitize, then the background file loop from
\* N_bg_file_g to N_bg_file_g + nbacktoadd (with nbacktoadd = 0 it is
\* empty and N_bg_file_g is left as it is).
StartEvent ==
    /\ pc = "body"
    /\ Len(fg4sbsHitData) > 0 /\ Len(fg4sbsGenData) > 0
    /\ ngood' = ngood + 1
    /\ Nfile' = Nbg /\ post' = Nbg + NBackToAdd /\ bgUsed' = <<>>
    /\ pc' = "bgloop"
    /\ UNCHANGED <<g4Vars, BgFiles, NBackToAdd, isig, nevent, Nbg, written>>

\* A background file that opens: all its entries are AdditiveDigitized.
BgOpen ==
    /\ pc = "bgloop" /\ Nfile < post /\ Nfile \in BgFiles
    /\ bgUsed' = Append(bgUsed, Nfile) /\ Nfile' = Nfile + 1
    /\ UNCHANGED <<g4Vars, BgFiles, NBackToAdd, isig, nevent, ngood, pc, Nbg, post, written>>

\* A background file that does not open: the window moves on by one.
BgMissing ==
    /\ pc = "bgloop" /\ Nfile < post /\ Nfile \notin BgFiles
    /\ Nbg + 1 < BgWrap
    /\ post' = post + 1 /\ Nbg' = Nbg + 1 /\ Nfile' = Nfile + 1
    /\ UNCHANGED <<g4Vars, BgFiles, NBackToAdd, isig, nevent, ngood, pc, bgUsed, written>>

\* ... and when N_bg_file_g reaches 1000: Nfile = N_bg_file_g_post-Nfile,
\* N_bg_file_g_post = nbacktoadd, N_bg_file_g = 0, continue (Nfile++).
BgMissingWrap ==
    /\ pc = "bgloop" /\ Nfile < post /\ Nfile \notin BgFiles
    /\ Nbg + 1 >= BgWrap
    /\ Nfile' = (post + 1) - Nfile + 1 /\ post' = NBackToAdd /\ Nbg' = 0
    /\ UNCHANGED <<g4Vars, BgFiles, NBackToAdd, isig, nevent, ngood, pc, bgUsed, written>>

\* Mutant: N_bg_file_g is not reset to 0 at 1000 after the loop.
FillEvent_NoReset ==
    /\ pc = "bgloop" /\ Nfile >= post
    /\ Nbg' = post
    /\ written' = Append(written, [event |-> nevent, bg |-> bgUsed])
    /\ nevent' = nevent + 1 /\ pc' = "read"
    /\ UNCHANGED <<g4Vars, BgFiles, NBackToAdd, isig, ngood, Nfile, post, bgUsed>>

\* End of the background loop: N_bg_file_g = N_bg_file_g_post, reset to 0
\* at 1000; FillTree, nevent++.
FillEvent ==
    /\ pc = "bgloop" /\ Nfile >= post
    /\ Nbg' = IF post >= BgWrap THEN 0 ELSE post
    /\ written' = Append(written, [event |-> nevent, bg |-> bgUsed])
    /\ nevent' = nevent + 1 /\ pc' = "read"
    /\ UNCHANGED <<g4Vars, BgFiles, NBackToAdd, isig, ngood, Nfile, post, bgUsed>>

\* f->Close() and the next signal file.
CloseSig ==
    /\ pc = "closefile"
    /\ Close
    /\ isig' = isig + 1 /\ pc' = "file"
    /\ UNCHANGED <<BgFiles, NBackToAdd, nevent, ngood, Nbg, Nfile, post, bgUsed, written>>

\* After the last signal file: WriteTree, CloseTree, the end.
Finish ==
    /\ pc = "file" /\ isig = Len(SigFiles)
    /\ pc' = "done"
    /\ UNCHANGED <<g4Vars, BgFiles, NBackToAdd, isig, nevent, ngood, Nbg, Nfile, post, bgUsed, written>>

LoopNext ==
    \/ OpenSig \/ ReadSig \/ SkipEvent \/ StartEvent
    \/ BgOpen \/ BgMissing \/ BgMissingWrap \/ FillEvent
    \/ CloseSig \/ Finish

\* The macro is one sequential program: it keeps running while it can.
LoopSpec == LoopInit /\ [][LoopNext]_allVars /\ WF_allVars(LoopNext)

LoopTypeOK ==
    /\ G4TypeOK
    /\ pc \in {"file", "read", "body", "bgloop", "closefile", "done"}
    /\ Nbg \in 0 .. BgWrap - 1
    /\ \A i \in 1 .. Len(written) : ToSet(written[i].bg) \subseteq BgFiles

(***************************************************************************)
(* The loop implements EventStream: its events are the entries of the     *)
(* signal files that open, one after the other; an entry is good when    *)
(* ReadNextEvent finds hits and a generated track in it; the next event's *)
(* number is nevent, the events written are FillTree's, and the stream    *)
(* has stopped when the loop is done.                                     *)
(***************************************************************************)
SigEntries == FlattenSeq([i \in 1 .. Len(SigFiles) |->
                  IF SigFiles[i].opens THEN SigFiles[i].tree ELSE <<>>])

GoodEntry(e) == Len(ReadHits(e).hits) > 0 /\ Len(ReadHits(e).gen) > 0

Stream == INSTANCE EventStream
              WITH Entries <- SigEntries, Good <- GoodEntry,
                   next <- nevent, out <- [i \in 1 .. Len(written) |-> written[i].event],
                   fin <- (pc = "done")

(***************************************************************************)
(* Properties                                                              *)
(***************************************************************************)

\* The loop numbers, digitizes and writes the input events as EventStream
\* does: nevent counts every entry read, skipped or not, across the signal
\* files; a file that does not open adds none; each good entry is written
\* once under its number, none after Nmax; and the loop stops, although
\* each background file that does not open extends the file loop by one.
StreamRefinement == Stream!StreamSpec

\* Every event written gets nbacktoadd background files whenever that many
\* exist ("Add some number of background files"; the commented-out warning
\* "Not enough background events to be added" when backidx != nbacktoadd).
BgFilesPerEvent ==
    Cardinality(BgFiles) >= NBackToAdd =>
        \A i \in 1 .. Len(written) : Len(written[i].bg) = NBackToAdd

=============================================================================
