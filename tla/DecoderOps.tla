---------------------------- MODULE DecoderOps ----------------------------
(***************************************************************************)
(* Pure helpers of TSBSSimDecoder (src/src/TSBSSimDecoder.cxx): the        *)
(* mapping of a digitized strip to a hardware address and to the key of    *)
(* fStripMap (StripToROCD, MakeROCKey).                                   *)
(*                                                                         *)
(* The geometry comes from the database manager: NModule[p] modules on    *)
(* GEM plane p, ChanPerSlot channels per slot; SimMaxSlot is              *)
(* min(Decoder::MAXSLOT, 30).                                              *)
(***************************************************************************)
EXTENDS Integers

CONSTANTS
    NModule,      \* fManager->GetNModule(plane), a function on the planes
    ChanPerSlot,  \* fManager->GetChanPerSlot()
    SimMaxSlot    \* SIM_MAXSLOT

ASSUME ChanPerSlot \in Nat \ {0} /\ SimMaxSlot \in Nat \ {0}

GEMPlanes == DOMAIN NModule

\* GetNModule(s_plane-1) for s_plane = 0 reads before the first plane; the
\* product with s_plane = 0 makes the value irrelevant.
NModuleBefore(p) == IF p - 1 \in GEMPlanes THEN NModule[p - 1] ELSE 0

\* Mutant: the total slot number without the factor 2 for the two readouts.
StripToROCD_NoReadoutStride(plane, module, proj, chan) ==
    LET ix == proj + (module + NModuleBefore(plane) * plane)
    IN  [crate |-> ix \div SimMaxSlot, slot |-> ix % SimMaxSlot,
         chan  |-> chan % ChanPerSlot]

(***************************************************************************)
(* StripToROCD(s_plane, s_module, s_proj, s_chan): the channel is s_chan   *)
(* modulo ChanPerSlot (the quotient is dropped), the total slot number ix *)
(* is s_proj + 2*(s_module + GetNModule(s_plane-1)*s_plane), split into    *)
(* crate and slot by SIM_MAXSLOT.  C's div on non-negative operands.       *)
(***************************************************************************)
StripToROCD(plane, module, proj, chan) ==
    LET ix == proj + 2 * (module + NModuleBefore(plane) * plane)
    IN  [crate |-> ix \div SimMaxSlot, slot |-> ix % SimMaxSlot,
         chan  |-> chan % ChanPerSlot]

MakeROCKey(roc) == roc.chan + ChanPerSlot * (roc.slot + SimMaxSlot * roc.crate)

\* The fStripMap key of a strip record with fPlane, fModule, fProj, fChan.
StripKey(s) == MakeROCKey(StripToROCD(s.plane, s.module, s.proj, s.chan))

=============================================================================
