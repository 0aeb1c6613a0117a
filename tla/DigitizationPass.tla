------------------------- MODULE DigitizationPass -------------------------
(***************************************************************************)
(* The event loop of src/example/DigitizationPass.C driving one            *)
(* TSBSSimGEMDigitization: for each signal event SetTreeEvent, Digitize    *)
(* the signal, AdditiveDigitize a number of background data sets, and     *)
(* FillTree, until Nmax events.  Two further orders of calls that the      *)
(* class offers are switched on by constants: the header's "Call           *)
(* SetTreeEvent in main loop (before or after Digitize)" and NoDigitize in *)
(* place of Digitize for truth-only output.                                *)
(***************************************************************************)
EXTENDS GEMDigitization

CONSTANTS
    SignalData,              \* hit lists of signal events (source 0)
    BgData,                  \* hit lists of background events (source 1)
    MaxEvents,               \* Nmax
    MaxBg,                   \* bound: background data sets added per event
    TreeEventAfterDigitize,  \* SetTreeEvent may follow Digitize
    TruthOnly                \* NoDigitize may replace Digitize

VARIABLES
    pc,    \* where the loop body is
    nbg    \* background data sets added to this event

vars == <<digiVars, pc, nbg>>

Init ==
    /\ DigiInit
    /\ pc = "next"
    /\ nbg = 0

\* Top of the loop: SetTreeEvent((*gd), (*f), nevent).
StartEvent ==
    /\ pc = "next" /\ evno < MaxEvents
    /\ SetTreeEvent
    /\ pc' = "signal"
    /\ UNCHANGED nbg

\* dSimDigi->Digitize(*gd, *dSpectro).
DigitizeSignal ==
    /\ pc = "signal"
    /\ \E hits \in SignalData : Digitize(hits, 0)
    /\ pc' = "background"
    /\ nbg' = 0

\* The truth-only variant: NoDigitize(*gd, *dSpectro).
NoDigitizeSignal ==
    /\ TruthOnly /\ pc = "signal"
    /\ \E hits \in SignalData : NoDigitize(hits, 0)
    /\ pc' = "background"
    /\ nbg' = 0

\* The other order of the header: Digitize first, then SetTreeEvent.
DigitizeFirst ==
    /\ TreeEventAfterDigitize /\ pc = "next" /\ evno < MaxEvents
    /\ \E hits \in SignalData : Digitize(hits, 0)
    /\ pc' = "treeEvent"
    /\ nbg' = 0

TreeEventSecond ==
    /\ pc = "treeEvent"
    /\ SetTreeEvent
    /\ pc' = "background"
    /\ UNCHANGED nbg

\* dSimDigi->AdditiveDigitize(*gb, *dSpectro) for a background event.
AddBackground ==
    /\ pc = "background" /\ nbg < MaxBg
    /\ \E hits \in BgData : AdditiveDigitize(hits, 1)
    /\ nbg' = nbg + 1
    /\ UNCHANGED pc

\* dSimDigi->FillTree(); nevent++.
FillEvent ==
    /\ pc = "background"
    /\ FillTree
    /\ pc' = "next"
    /\ UNCHANGED nbg

Next ==
    \/ StartEvent
    \/ DigitizeSignal
    \/ NoDigitizeSignal
    \/ DigitizeFirst
    \/ TreeEventSecond
    \/ AddBackground
    \/ FillEvent

Spec == Init /\ [][Next]_vars

TypeOK ==
    /\ DigiTypeOK
    /\ pc \in {"next", "signal", "treeEvent", "background"}
    /\ nbg \in 0 .. MaxBg

=============================================================================
