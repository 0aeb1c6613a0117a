---------------------------- MODULE EventStream ----------------------------
(***************************************************************************)
(* What the event loop of DigitizationPass promises, without files: it    *)
(* walks the input events (the entries of the signal files that open, in  *)
(* order), numbering each, up to Nmax of them; it digitizes and writes    *)
(* the good ones, each once, under its number, and then stops.           *)
(***************************************************************************)
EXTENDS Integers, Sequences

CONSTANTS
    Entries,   \* the input events, in reading order
    Good(_),   \* whether an event is digitized (it has hits and a track)
    Nmax       \* the number of events to digitize

VARIABLES
    next,   \* the number of the next event
    out,    \* the numbers of the events written
    fin     \* whether the loop has stopped

streamVars == <<next, out, fin>>

StreamInit == next = 0 /\ out = <<>> /\ fin = FALSE

\* Take event number next, writing it when it is good.
Take ==
    /\ ~fin /\ next < Len(Entries) /\ next < Nmax
    /\ next' = next + 1
    /\ out' = IF Good(Entries[next + 1]) THEN Append(out, next) ELSE out
    /\ UNCHANGED fin

\* Stop once every event is taken or Nmax is reached.
Stop ==
    /\ ~fin /\ (next >= Len(Entries) \/ next >= Nmax)
    /\ fin' = TRUE
    /\ UNCHANGED <<next, out>>

StreamNext == Take \/ Stop

StreamSpec == StreamInit /\ [][StreamNext]_streamVars /\ WF_streamVars(StreamNext)

=============================================================================
