----------------------------- MODULE MC_G4File -----------------------------
(***************************************************************************)
(* Model-checking instance of G4File: two files.  The first has three     *)
(* entries: the second of them has an electron and a proton from two      *)
(* vertices and then the electron again on an FPP (its track is stored);  *)
(* the third has a zero-deposit hit only, which GetGEMData drops.  The    *)
(* second file has one entry whose third hit is a new track; the third   *)
(* file has an empty tree.                                                 *)
(***************************************************************************)
EXTENDS G4File, TLC

CONSTANTS E, P, V1, V2   \* PDG codes and vertices as model values

Raw(pid, mid, plane, edep, vtx) ==
    [pid |-> pid, mid |-> mid, plane |-> plane, edep |-> edep, vtx |-> vtx]

MC_Entries ==
    << [ft |-> <<Raw(E, 0, 1, 1, V1)>>, fpp1 |-> <<>>, fpp2 |-> <<>>],
       [ft |-> <<Raw(E, 0, 1, 1, V1), Raw(P, 1, 1, 1, V2)>>,
        fpp1 |-> <<Raw(E, 0, 2, 1, V1)>>, fpp2 |-> <<>>],
       [ft |-> <<>>, fpp1 |-> <<>>, fpp2 |-> <<Raw(P, 1, 2, 0, V2)>>] >>

\* A new track: an electron from the proton's vertex, after both tracks.
MC_EntriesNewTrack ==
    << [ft |-> <<Raw(E, 0, 1, 1, V1), Raw(P, 1, 1, 1, V2)>>,
        fpp1 |-> <<Raw(E, 1, 2, 1, V2)>>, fpp2 |-> <<>>] >>

MC_Files == {MC_Entries, MC_EntriesNewTrack, <<>>}

=============================================================================
