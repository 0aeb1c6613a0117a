--------------------------- MODULE DecoderMapping ---------------------------
(***************************************************************************)
(* The decoder's strip addressing checked over a whole geometry: input    *)
(* ranges over every strip the digitizer writes; the state never changes. *)
(***************************************************************************)
EXTENDS DecoderOps, FiniteSets

CONSTANTS
    StripsPerModule   \* strips of one readout plane of a module

\* Every strip SetTreeStrips writes: chamber (plane, module) in the order
\* DigitizationPass.C creates them, readout fProj 0/1, channel fChan.
AllStrips ==
    UNION { [plane : {p}, module : 0 .. NModule[p] - 1, proj : 0 .. 1,
             chan : 0 .. StripsPerModule - 1] : p \in GEMPlanes }

VARIABLE input

Init == input \in AllStrips

Next == UNCHANGED input

Spec == Init /\ [][Next]_input

\* fStripMap.insert(MakeROCKey(StripToROCD(...)), i) never meets a key that
\* is already there (the assert(ins.second) of DoLoadEvent): no two strips
\* of the geometry share a hardware address.
RocKeyInjective ==
    \A t \in AllStrips : t # input => StripKey(t) # StripKey(input)

=============================================================================
