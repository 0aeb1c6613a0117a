---------------------------- MODULE MC_InputLoop ----------------------------
(***************************************************************************)
(* Model-checking instance of InputLoop: five signal files.  The first    *)
(* is MC_G4File's three-entry file, the second does not open, the third   *)
(* has an entry with no hits (skipped) and then an entry with a track,    *)
(* the fourth opens with an empty tree, the fifth is the first again, of  *)
(* which Nmax leaves entries unread.  Background file numbers, nbacktoadd *)
(* and the wrap bound are set per configuration.                           *)
(***************************************************************************)
EXTENDS InputLoop, MC_G4File

MC_EntriesSkip ==
    << [ft |-> <<>>, fpp1 |-> <<>>, fpp2 |-> <<>>],
       [ft |-> <<Raw(E, 0, 1, 1, V1)>>, fpp1 |-> <<>>, fpp2 |-> <<>>] >>

MC_SigFiles ==
    << [tree |-> MC_Entries, opens |-> TRUE],
       [tree |-> MC_EntriesNewTrack, opens |-> FALSE],
       [tree |-> MC_EntriesSkip, opens |-> TRUE],
       [tree |-> <<>>, opens |-> TRUE],
       [tree |-> MC_Entries, opens |-> TRUE] >>

=============================================================================
