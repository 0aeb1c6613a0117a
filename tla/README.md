# TLA+ models of libsolgem's GEM digitization

This directory models the GEM digitizer of libsolgem, and the decoder that replays its output, and checks them with TLC. The digitizer is
`TSBSSimGEMDigitization` together with its per-plane accumulator `TSBSDigitizedPlane` (both in
`src/src/TSBSSimGEMDigitization.cxx`), the output event `TSBSSimEvent`, and the event loop of
`src/example/DigitizationPass.C`.

## The system and how its parts interact

| Part | Source | What it does | State |
|---|---|---|---|
| Event loop | `DigitizationPass.C` | Opens the signal files one after the other and reads each to its end or to `Nmax` events, skipping events with no hits or no generated track. For each other event: `SetTreeEvent`, `Digitize(signal)`, `AdditiveDigitize(background)` for some background events, then `FillTree`. The background comes from `nbacktoadd` files `beam_bkgd_<N>.root` per event, taken from `N_bg_file_g` on; a file that does not open moves the window on by one, and the file number wraps at 1000. | `i_sig`, `nevent`, `N_bg_file_g`, `Nfile`, `N_bg_file_g_post` |
| Digitizer | `TSBSSimGEMDigitization` | Runs each hit through `IonModel` (ionization: ion count, drift time `fRTime0`) and `AvaModel` (avalanche: one virtual strip set `TSBSGEMHit` per plane, or NULL). It records the hit with `SetTreeHit` and feeds the strip sets to the planes with `Cumulate`. `SetTreeStrips` copies the planes into the output event; `FillTree` writes it. | `fDP[chamber][plane]`, `fEvent`, `fFilledStrips`, `fRTime0`, `fRNIon` |
| Plane | `TSBSDigitizedPlane` | Accumulates ADC samples per strip, and per strip the truth lists: cluster IDs, weights, per-sample cluster ADC. Keeps the earliest time, the type bits and the list of strips over threshold (`fOverThr`, `fNOT`). Optionally adds cross talk NCStripApart strips away. | `fStripADC`, `fTotADC`, `fType`, `fTime`, `fStripClusters`, `fStripWeightInCluster`, `fStripClusterADC[6]`, `fOverThr`, `fNOT`, `fThreshold` |
| Output event | `TSBSSimEvent` | Holds the GEM clusters `fGEMClust` (fID = position + 1) and the strips `fGEMStrips`, each strip with the IDs of its clusters. `fNSignal` counts the clusters of signal primaries. | `fGEMClust`, `fGEMStrips`, `fNSignal` |
| Input reader | `TSBSGeant4File` | `Open` a g4sbs ROOT file, `ReadNextEvent` one tree entry: three hit loops (forward tracker, FPP1, FPP2) store each hit and, unless it is already stored, its generated track. `GetGEMData` hands the hits with a positive deposit to the digitizer. | `fFile`, `fEvNum` (unsigned, -1 after `Open`), `fg4sbsHitData`, `fg4sbsGenData` |
| Decoder | `TSBSSimDecoder` | `DoLoadEvent` reads one tree entry. It maps each strip to a hardware address (`StripToROCD`, `MakeROCKey`) in `fStripMap`, copies the clusters, and builds the back track of the signal primary with its hit and u/v failure bits. `GetSBSMCHitInfo` gives a tracking detector the MC truth of a channel by looking up the clusters named on its strip. | `fStripMap`, `fMCHits`, `fMCPoints`, `fBackTracks`, `buffer` |

The clusters and the strips are coupled by IDs: `SetTreeHit` returns `fID`, `Cumulate` stores it on every
strip the hit touched, and the decoder resolves it against `fGEMClust`. Most of the properties below are
about this coupling surviving every order of calls.

## Modules

* `DigitizedPlaneOps.tla` holds operators on a record holding one plane's arrays:
  * `NewPlane` (constructor), `Clear`, `Cumulate` and `Threshold`;
  * `Cumulate` is built from `CumulateStrip` (one iteration of the first loop) and `InduceStrip` (one
    iteration of the cross-talk loop), folded over the virtual strips in order with `FoldLeft`.

  Integer truncation of the scaled cross-talk samples is kept (`(adc*num) \div den`). The out-of-bounds
  row of `fStripClusterADC[6]` is undefined behaviour. It is recorded in the flag `fOverrun`.
* `DigitizedPlane.tla` is one plane driven by every sequence of `Clear`, `Cumulate(vv, type, id, cross-talk
  draw)` and `Threshold(thr)`. The history variable `arrivals` holds the times written on each strip
  since `Clear`.
* `SolDigitizedPlane.tla` is the legacy SoLID plane `TSolDigitizedPlane` of
  `oldSolRelated/TSolSimGEMDigitization.cxx`, from which the SBS plane was derived: the constructor,
  `Clear`, `Cumulate` (both loops) and `Threshold` on one variable `solPlane`, with the type bits kept
  as the `Short_t` word (or-ed with `Bitwise`). It has no weights and no per-sample cluster ADCs. It
  serves as the abstract specification of `DigitizedPlane` (see Refinement).
* `GEMDigitization.tla` models the digitizer and its operations:
  * variables `fDP`, `fGEMClust`, `fGEMStrips`, `fNSignal`, `fFilledStrips`, `fRTime0`, `fdh` (the strip
    sets of the last `AvaModel`, or NULL), plus two history
    variables: `evno` (tree entries written) and `tree` (the last entry written);
  * `HitStep` is the whole body of the `AdditiveDigitize` hit loop: `fdh` is assigned only when the hit made
    ions, and released and set to NULL after `CumulateHit`;
  * `DigitizeOp` is the event and plane clear followed by `AdditiveDigitizeOp`;
  * `NoDigitizeOp`, `SetTreeEvent`, `SetTreeHit`, `SetTreeStripsOp` and `FillTree` model the remaining
    operations.

  Each hit consumes a `Draw`: ions or none, the drift time, the background event time, and the AvaModel
  outcome. All of a call's draws are chosen together with `\E`.
* `DigitizationPass.tla` is the event loop as a program counter. The constants `TreeEventAfterDigitize`
  and `TruthOnly` add the two other call orders the class offers. Both are in the header:
  "Call SetTreeEvent in main loop (before or after Digitize)", and `NoDigitize`.
* `DecoderOps.tla` holds the decoder's pure addressing helpers `StripToROCD` and `MakeROCKey`.
  `DecoderMapping.tla` checks them over a whole geometry: its one variable ranges over every strip.
* `SimDecoder.tla` models the decoder:
  * `StripSeq` is the strip vector in `SetTreeStrips`' push order;
  * `LoadStrips` is the strip loop that fills `fStripMap`;
  * `ClusterStep` is one iteration of the cluster loop, folded by `ClusterLoop`;
  * `LoadEvent` is the whole `DoLoadEvent` on the entry in `tree`;
  * `MCHitInfo(key)` is `GetSBSMCHitInfo`, with its asserts collected in a field; the choice of
    `fMCTrack` is left out.
* `ReplayPass.tla` composes `DigitizationPass` with `SimDecoder`. The decoder reads each entry before the
  pass writes the next, as a replay reads the file entry by entry.
* `G4File.tla` models the reader: `Open` (of any of the files `Files`), `ReadNextEvent`, `Close`, with
  `ReadHits` (the three loops, `HitLoop` folding `AddHit`), `StoreTrack` (the "only store new MC tracks"
  test) and `GetGEMData`. A hit is its PDG code, mother, plane, deposit sign and vertex. The `.cxx`
  does not match `TSBSGeant4File.h` (`ReadNextEvent(int)`, `GetGEMData(TSBSGEMSimHitData*)`); the model
  follows the `.cxx`.
* `InputLoop.tla` extends `G4File` with the file handling of `DigitizationPass.C`:
  * `OpenSig` (a new reader, `OpenFile`, skip the file if it does not open), `ReadSig` (the `while`
    test, whose `ReadNextEvent` runs before `nevent<Nmax`), `SkipEvent` (no hits or no track),
    `StartEvent` (up to the start of the background loop), `CloseSig` and `Finish`;
  * the background loop: `BgOpen` (a file that opens is added whole), `BgMissing` (the window moves
    on), `BgMissingWrap` (the branch at `N_bg_file_g >= 1000`), and `FillEvent` (`N_bg_file_g =
    N_bg_file_g_post`, its reset at 1000, `FillTree`, `nevent++`);
  * which background files exist (`BgFiles`) and `nbacktoadd` are chosen in the initial state; they do
    not change during the pass;
  * `written`, a history variable, records each tree entry's event number and background files.

  What is done with the data is `DigitizationPass.tla`'s and is not repeated here.
* `EventStream.tla` is the loop's promise without files: take the input events one by one, number
  them, write the good ones, stop after the last or at `Nmax`. `InputLoop` instantiates it with the
  refinement mapping `next <- nevent`, `out <-` the event numbers written, `fin <- pc = "done"`. The
  events are the entries of the signal files that open, concatenated (`SigEntries`).
* `MC_DigitizedPlane.tla`, `MC_DigitizationPass.tla`, `MC_DecoderMapping.tla`, `MC_ReplayPass.tla`, `MC_G4File.tla` and `MC_InputLoop.tla` supply the values that cfg files cannot write:
  sample vectors, thresholds, hit lists and AvaModel results.

## Abstractions

* A hit is its chamber (one value is out of range), its particle type, whether it is "wide" (entrance and
  exit more than 50 mm apart), and its hit time.
* `IonModel` keeps only its control effect:
  * a Poisson draw of 0 returns early and leaves `fRTime0` untouched;
  * otherwise `fRTime0` becomes the minimum drift time.
* `AvaModel` is reduced to its three results:
  * NULL, when the avalanche misses the chamber or a plane's strips (lines 686-693, 731-745);
  * otherwise one list of signal strips per plane, in increasing order.

  The Gaussian and numerical integration is out of reach and is not modelled.
* Times are integers in ns. The trigger offset `fTriggerOffset[iplane]` (one per chamber) and the
  jitter drawn once per call are folded into the hit time (line 428): each hit's time in the model is
  its `time_zero` before `fRTime0` is added.
* Float charges (`fCharge`) are left out, and so are the pedestal noise and saturation of `SetTreeStrips`.
* A strip weight is kept as the pair `<<tempSumADC, GetTotalADC()>>`. `TSBSGEMHit.cxx` holds only
  the constructor, destructor and `Print`; `GetTotalADC` is defined nowhere in the repository, so it is
  modelled from its use at line 126 (spec_modelled).
* Cross talk is checked in the plane model and switched off in the digitizer model, to keep the state
  space small.

## Runs

| Run | Cfg | Expect | What it shows |
|---|---|---|---|
| plane_xt | `MC_DigitizedPlane.cfg` | pass | `OverThrExact`: `fOverThr` lists every strip over threshold exactly once, under every interleaving of `Cumulate` (both loops), `Threshold` and `Clear`. `ClusterRecordsAligned`: per strip, the cluster IDs, weights and per-sample cluster ADCs stay index-aligned, and the primary/secondary bit is set iff the strip has a cluster. `SolPlaneRefinement`: the SBS plane implements the SoLID plane. |
| plane_time_xt | `MC_DigitizedPlane_XTTime.cfg` | violation | With cross talk, an induced strip's earlier time is overwritten (finding). |
| plane_ten_samples | `MC_DigitizedPlane_Samples10.cfg` | violation | Ten samples (the default) write past `fStripClusterADC[6]` (finding). |
| pass_all_orders | `MC_DigitizationPass_AllOrders.cfg` | pass | `SignalClustersFirst` also holds with `SetTreeEvent` after `Digitize`, and with `NoDigitize`. |
| pass_tree_event_after | `..._TreeEventAfter.cfg` | violation | `SetTreeEvent` after `Digitize` empties the clusters the strips name (finding). |
| pass_zero_ion_time | `..._ZeroIon.cfg` | violation | A hit with no ions is timed with another hit's drift, or an uninitialized one (finding). |
| pass_empty_signal | `..._EmptySignal.cfg` | violation | `Digitize` of an event without GEM hits writes no strips (finding). |
| decoder_roc_mixed | `MC_DecoderMapping_Mixed.cfg` | violation | With module counts (2, 1, 2), plane 1 module 0 and plane 2 module 0 get one address (finding). |
| replay_protocol | `MC_ReplayPass.cfg` | pass | The pass in the loop's own order, each entry replayed. `StripClusterRefsResolve`: every cluster ID on a written strip names a cluster of the same entry and chamber. `ClusterSizeMatchesStrips`: each cluster's `fSize[j]` equals the number of strips of plane j carrying its ID. `StripTimeIsEarliestCluster`: a strip's `fTime1` is the earliest time of the clusters it carries (9999 if none). `MCInfoAssertsHold`: `GetSBSMCHitInfo`'s asserts hold on every channel. `NoIonClusterHasNoStrips`: a cluster whose hit made no ion has size 0 on both planes and no written strip carries its ID; it holds only because `fdh` is reset after every hit. |
| input_loop | `MC_InputLoop.cfg` | pass | For every set of existing background files and `nbacktoadd` in 0..3. `LoopTypeOK`: `N_bg_file_g` stays below the wrap bound. `EntriesReadInOrder`: the entries read from each signal file since its `Open` are 0, 1, 2, ... with none skipped, and `GetGEMData` carries the number and hits of the entry read. `StreamRefinement`: the loop implements `EventStream` (liveness included). `nevent` numbers every entry read, skipped or not, across files; a file that does not open adds none; each good entry is written once under its number, none at or after `Nmax`; and the loop ends, although every missing background file extends its file loop. |
| g4_new_track | `MC_G4File_NewTrack.cfg` | violation | `GenDataIsTrackSet`: an electron from the proton's vertex, read after an electron and a proton, is taken for a duplicate and not stored (finding). |
| input_bg_cycle | `MC_InputLoop_BgCycle.cfg` | violation | `BgFilesPerEvent`: with two background files and `nbacktoadd` 2, the second event runs past the last file to the wrap, which ends its loop instead of restarting at file 0, and it gets no background at all (finding). |

Each property of a passing run has a mutant in `PROJECT.json`, defined in the module next to the
operator it mutates. The mutants are:

* `was_below` dropped;
* the `push_back` moved after the zero-sample skip;
* `fClusters[i]` used as the index without the shift by one;
* the time overwritten instead of taking the minimum;
* `fTime` zeroed by `Clear`;
* `fID` taken before the `push_back`;
* every primary counted in `fNSignal`;
* `SetTreeHit` called after `fdh` is released;
* `fdh` never reset after `Cumulate`, as in the SoLID digitizer;
* `Digitize` without clearing the planes;
* `fEvNum` set to 0 instead of -1 by `Open`;
* `N_bg_file_g` not reset at 1000 after the background loop;
* a skipped event not counted in `nevent`;
* the induced cross-talk samples rounded up instead of truncated.

TLC finds each mutant's property violated under the run's own cfg.

## Bounds and why they suffice

* **Plane runs:** 3 strips, 2 samples, cross talk 1 strip apart, and at most 2 `Cumulate` calls.
  * Three strips give the edge strips (induced target out of range) and a middle strip.
  * Two virtual strips per set are enough for one set to write a strip twice: direct on one strip,
    induced on the neighbour.
  * Two sample patterns: one scales to zero under factor 1/2 and one does not.
  * Thresholds 0 and 2 put strips on both sides of the threshold.
* **Digitizer runs:** one chamber of two planes of two strips and one sample. Each event has at most one
  background set, and each run has two events (`MaxEvents`).
  * Two events are the fewest in which stale planes or IDs from the previous entry can show.
  * The signal sets contain a primary, a secondary followed by a primary, and an out-of-range chamber
    with a wide hit. Together these fire every skip of the hit loop.
  * The background sets contain an empty set, which fires the `nh == 0` return, and a primary.

* **Decoder mapping run:** 3 planes of 2, 1 and 2 modules, 5 strips per module, `ChanPerSlot` 5 and
  `SIM_MAXSLOT` 30. This is the smallest geometry in which the previous plane's module count differs
  from an earlier plane's.
* **Replay runs:** the digitizer bounds above, with one plane of one module. Every entry is decoded. The
  `AvaModel` results give plane 1 no strip in one case, so both `vfail` and a digitized v point occur.

* **Reader runs:** three files: one of three entries (a repeated track, a new one, a zero-deposit hit),
  one of one entry whose third hit is a new track with an earlier pid and the last vertex, and an empty
  tree. Three hits are the fewest that tell "the last track's vertex" from "track z's vertex".
* **Input loop runs:** five signal files: the reader's three-entry file, a file that does not open, a
  file whose first entry has no hits, a file that opens with an empty tree, and the three-entry file
  again, whose last entry `Nmax = 7` leaves unread. Background file numbers 0..4, any subset of them
  existing, the wrap at 5 in place of 1000, and `nbacktoadd` 0 to 3. With seven events and five numbers
  the window reaches the wrap bound both ways, more than once in a run: filled by existing files (the
  reset after the loop) and running into missing files (the branch inside it). The violation run
  (`MC_InputLoop_BgCycle.cfg`: three files, `nbacktoadd` 2, wrap at 5) needs only two events.

## Fairness and termination

The library is single-threaded and event-driven by its caller, so the library's specifications carry no
fairness. `DigitizationPass.C` is one sequential program: once started it keeps taking its next step, so
`InputLoop`'s specification has weak fairness on its whole next-state relation, and `EventStream` has
the same. Under it `StreamRefinement` includes that the pass ends: the background loop, whose bound grows
with every missing file, ends through the wrap. The passes end after `Nmax` events or the last file, so
the digitizer and input loop runs set `CHECK_DEADLOCK FALSE`. The plane runs check for deadlock; `Clear` and `Threshold` are always enabled.

## Refinement

Two refinements are checked, each with `INSTANCE ... WITH` and the abstract specification as a
`PROPERTY`:

* `InputLoop` implements `EventStream` (`StreamRefinement`, run `input_loop`).
* `DigitizedPlane` implements `SolDigitizedPlane` (`SolPlaneRefinement`, run `plane_xt`). The mapping
  keeps the arrays the two classes share and turns the set of type bits into the `Short_t` word
  (`TypeWord`, a sum of powers of two). The SBS-only records (`fStripWeightInCluster`,
  `fStripClusterADC`, `fOverrun`) are hidden. So every step of the SBS `Cumulate`, `Clear` and
  `Threshold` changes the samples, totals, type words, earliest times, cluster IDs and over-threshold
  list as the legacy code does, with the same integer truncation of induced samples. The abstract
  `Cumulate` first fixes the cluster lists, which tell the strip set and cluster ID apart, before it
  tries the type and cross-talk draw; this keeps the run at about 40 s.

## Not modelled

* `ReadDatabase`, `Initialize` re-entry, `DeleteObjects` and the tree file functions. These are ROOT I/O
  and configuration.
* The unit conversions and range correction of `TSBSGeant4File`, its calorimeter getters, and
  `TSBSGEMSimHitData`. The reader is composed with the file loop (`InputLoop`) but not with the
  digitizer, whose hits stay abstract lists.
* Memory: the leaked `gb`, `fback`, `gd` and `f` of the driver change no value the model reads.
* `ClusterRatioRowsExist` (in `ReplayPass`) states that `GetSBSMCHitInfo` reads only the
  `fClusterRatio` rows `SetTreeStrips` set; with fewer than six samples it does not hold (hazard at
  `TSBSSimDecoder.cxx:404`), but no run checks it at present.
* Which track `GetSBSMCHitInfo` gives a strip (`fMCTrack`): it requires the cluster's `fPID` to be a
  signal PID of `fSignalInfo` (decoder line 416), and the model's cluster records carry no particle ID.
  The back track's hit bits have no PID test, so the two can disagree (hazard at
  `TSBSSimDecoder.cxx:640`).
* `NoDigitize` after an earlier `Digitize` (the `TruthOnly` path) writes the strips the planes still
  hold, whose cluster IDs name the previous entry's clusters: with `TruthOnly = TRUE`, TLC finds
  `StripClusterRefsResolve` violated in the replay model within seconds. No run records this; the runs
  that check `StripClusterRefsResolve` keep `NoDigitize` off (hazard at
  `TSBSSimGEMDigitization.cxx:498`).
* `TSBSBox` and `TSBSSpec`. These are floating-point geometry with no control state.
* `oldSolRelated` apart from its plane: the legacy digitizer and event map chambers to sectors and keep
  one event time per sector, so they are not a specification the SBS digitizer refines. Their hit loop
  also never resets `fdh`: that loop is the mutant `HitStep_KeepFdh`, which `NoIonClusterHasNoStrips`
  catches (hazard at `oldSolRelated/TSolSimGEMDigitization.cxx:453`).
* `NumberOfSetBits` (decoder line 462). Its only result is `fNHits` of the copied MC track, which no
  property reads, and its multiplications overflow TLC's 32-bit integers unless the word is below 2^8.
* The order of the generated tracks: the decoder takes `fMCTracks[0]` as the primary, which holds only
  if g4sbs writes the primary's hit first (hazard at `TSBSSimDecoder.cxx:603`).
* Parts of `TSBSSimDecoder`: the analyzer crate map (`init_cmap`, `init_slotdata`, `loadData`), the MC
  track copies, the float point differences and the calorimeter emulation.

### What remains of the source, and why

The lines the map does not name are the following. None of them is a state change that a property could
tell apart.

* Debug printing: the `#if DEBUG` blocks of `ReadNextEvent`, `Print`, `PrintHit`, `PrintCharges` and
  `PrintSamples`.
* Getters and setters in the headers, and the analyzer's variable definitions (`DefineVariables`).
* Floating-point kinematics: `FindGasRange`, the track projections, the plane-to-plane differences of
  the MC points, `TSBSSimBackTrack::Update`, and the calorimeter emulation of `DoLoadEvent`.
* Geometry (`TSBSBox`, `TSBSSpec`).
* The legacy digitizer and event (see above).

## Plan for the next steps

1. Compose `InputLoop` with `DigitizationPass`: `GetGEMData` passing the PDG code as the particle type
   the digitizer tests for 1 (line 768), once the accessors' meaning is settled.
2. Replay the runs with the alternative call orders (`TruthOnly`, `TreeEventAfterDigitize`) and show
   which decoder asserts the stale entries break, and which they pass silently.
3. Add re-initialization: `Initialize` deletes `fEvent`.
4. Add a bounded-width `fID` (`Short_t`) with a run that reaches the wrap.
5. Cross talk in the digitizer runs, if the state space allows it.
