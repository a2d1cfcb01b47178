------------------------------ MODULE Prefetch ------------------------------
(***************************************************************************)
(* The prefetching of slices in VC's main window (apps/VC/CWindow.cpp): a  *)
(* worker thread that reads the slices around the one being segmented into *)
(* the volume's cache, and the GUI thread that starts, redirects and ends  *)
(* it through two atomics and a condition variable.                        *)
(*                                                                         *)
(* The worker holds cv_m except while it waits; the GUI thread never takes *)
(* it. So the GUI's store and notify may fall between the worker's test of *)
(* the wait predicate and its going to sleep (steps Test and FallAsleep),  *)
(* where the notification is lost. A batch of reads is one step: what its  *)
(* threads do to the cache is the subject of SliceCache. Every volume the  *)
(* user opens has NumSlices slices.                                        *)
(***************************************************************************)
EXTENDS Integers, FiniteSets

CONSTANTS NumSlices,    \* numSlices() of the volume
          Size,         \* prefetchSize
          Steps,        \* values of fSegParams.step_size, at least 1
          Fetchers,     \* n, which sets the width of a batch (5)
          MaxInputs     \* bound: inputs of the user

ASSUME NumSlicesAssumption == NumSlices \in Nat \ {0}
ASSUME SizeAssumption == Size \in Nat
ASSUME StepsAssumption == Steps \subseteq Nat \ {0}
ASSUME FetchersAssumption == Fetchers \in Nat \ {0}
ASSUME MaxInputsAssumption == MaxInputs \in Nat

Slices == 0..(NumSlices - 1)
Nothing == -1           \* prefetchSliceIndex when there is nothing to prefetch

VARIABLES wpc,          \* where the worker is in prefetchSlices
          gui,          \* "open" window, "joining" in the destructor, "gone"
          index,        \* prefetchSliceIndex
          stop,         \* stopPrefetching
          volume,       \* currentVolume is set
          tool,         \* fSegTool is checked
          cur,          \* currentSliceIndex of the worker's round
          step,         \* stepSize of the round
          offset,       \* offset of the next batch of the round
          fetched,      \* slices the round has read
          wanted,       \* auxiliary: the index of the GUI's last command
          begun,        \* auxiliary: a round for that index is under way or over
          closedBusy,   \* auxiliary: the volume was closed under a round or a request
          cleared,      \* auxiliary: the index was cleared between the wait and Load
          missed,       \* auxiliary: the destructor notified a worker falling asleep
          inputs        \* inputs made so far

round == <<cur, step, offset, fetched>>
history == <<wanted, begun>>
watch == <<closedBusy, cleared, missed>>
vars == <<wpc, gui, index, stop, volume, tool, round, history, watch, inputs>>

\* The program has ended, or is in a state C++ says nothing about.
Over == wpc \in {"crashed", "terminated", "undefined"}

InRound == wpc \in {"begin", "load", "batch", "after"}

Init ==
    /\ wpc = "off"
    /\ gui = "open"
    /\ index = Nothing
    /\ stop = FALSE
    /\ volume = TRUE
    /\ tool = FALSE
    /\ cur = Nothing
    /\ step = 1
    /\ offset = 0
    /\ fetched = {}
    /\ wanted = Nothing
    /\ begun = FALSE
    /\ closedBusy = FALSE
    /\ cleared = FALSE
    /\ missed = FALSE
    /\ inputs = 0

Goto(l) == wpc' = l

\* cv.notify_one: the worker, if it sleeps, tests its predicate again.
Notify == wpc' = IF wpc = "asleep" THEN "test" ELSE wpc

-----------------------------------------------------------------------------
(***************************************************************************)
(* The GUI thread.                                                         *)
(***************************************************************************)
Input ==
    /\ gui = "open"
    /\ ~Over
    /\ inputs < MaxInputs
    /\ inputs' = inputs + 1

\* ToggleSegmentationTool when it was off: starts the thread the first time, which
\* may be past its test before startPrefetching stores the index.
ToggleOn(i) ==
    /\ Input
    /\ volume /\ ~tool
    /\ tool' = TRUE
    /\ index' = i
    /\ IF wpc = "off" THEN wpc' \in {"test", "falling"} ELSE Notify
    /\ wanted' = i
    /\ begun' = (wpc \in {"batch", "after"} /\ cur = i)
    /\ UNCHANGED <<gui, stop, volume, round, watch>>

\* OpenSlice with a volume package open.
StopPrefetching ==
    /\ index' = Nothing
    /\ Notify
    /\ wanted' = Nothing
    /\ cleared' = (cleared \/ wpc \in {"begin", "load"})
    /\ UNCHANGED <<begun, closedBusy, missed>>

\* ToggleSegmentationTool when it was on ends in OpenSlice.
ToggleOff ==
    /\ Input
    /\ volume /\ tool
    /\ tool' = FALSE
    /\ StopPrefetching
    /\ UNCHANGED <<gui, stop, volume, round>>

\* OpenSlice for any other reason: another slice is shown.
OpenSlice ==
    /\ Input
    /\ volume
    /\ StopPrefetching
    /\ UNCHANGED <<gui, stop, volume, tool, round>>

\* CloseVolume at the beginning of Open. Its OpenSlice finds no volume package and
\* leaves the worker alone.
CloseVolume ==
    /\ Input
    /\ volume
    /\ volume' = FALSE
    /\ tool' = FALSE
    /\ closedBusy' = (InRound \/ index # Nothing)
    /\ UNCHANGED <<wpc, gui, index, stop, round, history, cleared, missed>>

\* OpenVolume and OpenSlice, the rest of Open, after the user has chosen a package.
OpenVolume ==
    /\ gui = "open"
    /\ ~Over
    /\ ~volume
    /\ volume' = TRUE
    /\ StopPrefetching
    /\ UNCHANGED <<gui, stop, tool, round, inputs>>

\* Mutant of Exit: the destructor stores stopPrefetching and notifies nobody.
ExitSilently ==
    /\ gui = "open"
    /\ ~Over
    /\ gui' = "joining"
    /\ stop' = TRUE
    /\ missed' = (wpc = "falling")
    /\ UNCHANGED <<wpc, index, volume, tool, round, history, closedBusy, cleared, inputs>>

\* ~CWindow up to join().
Exit ==
    /\ gui = "open"
    /\ ~Over
    /\ gui' = "joining"
    /\ stop' = TRUE
    /\ Notify
    /\ missed' = (wpc = "falling")
    /\ UNCHANGED <<index, volume, tool, round, history, closedBusy, cleared, inputs>>

\* join() returns once the thread has ended, or was never started.
Join ==
    /\ gui = "joining"
    /\ wpc \in {"off", "ended"}
    /\ gui' = "gone"
    /\ UNCHANGED <<wpc, index, stop, volume, tool, round, history, watch, inputs>>

-----------------------------------------------------------------------------
(***************************************************************************)
(* prefetchSlices.                                                         *)
(***************************************************************************)
\* Mutant of Test: wait without a predicate.
TestNothing ==
    /\ wpc = "test"
    /\ Goto("begin")
    /\ cleared' = FALSE
    /\ UNCHANGED <<gui, index, stop, volume, tool, round, history, closedBusy, missed, inputs>>

\* The predicate of cv.wait.
Test ==
    /\ wpc = "test"
    /\ Goto(IF index # Nothing \/ stop THEN "begin" ELSE "falling")
    /\ cleared' = FALSE
    /\ UNCHANGED <<gui, index, stop, volume, tool, round, history, closedBusy, missed, inputs>>

FallAsleep ==
    /\ wpc = "falling"
    /\ Goto("asleep")
    /\ UNCHANGED <<gui, index, stop, volume, tool, round, history, watch, inputs>>

\* A condition variable may wake without being notified.
SpuriousWake ==
    /\ wpc = "asleep"
    /\ Goto("test")
    /\ UNCHANGED <<gui, index, stop, volume, tool, round, history, watch, inputs>>

\* The test of stopPrefetching after the wait.
Begin ==
    /\ wpc = "begin"
    /\ Goto(IF stop THEN "ended" ELSE "load")
    /\ UNCHANGED <<gui, index, stop, volume, tool, round, history, watch, inputs>>

\* The round's parameters: the index is read again. Asking a closed volume for its
\* number of slices goes through a null pointer.
Load ==
    /\ wpc = "load"
    /\ cur' = index
    /\ step' \in Steps
    /\ offset' = 0
    /\ fetched' = {}
    /\ begun' = (begun \/ index = wanted)
    /\ Goto(IF volume THEN "batch" ELSE "crashed")
    /\ UNCHANGED <<gui, index, stop, volume, tool, wanted, watch, inputs>>

LargerOf(a, b) == IF a > b THEN a ELSE b
SmallerOf(a, b) == IF a < b THEN a ELSE b

First == LargerOf(0, cur - Size * step)
Last == SmallerOf(NumSlices - 1, cur + Size * step)

\* The slices at the distances of the batch that lie between First and Last. With
\* the index cleared since the wait they include cur itself, slice -1.
BatchAt(o) ==
    LET distances == {o + i * step : i \in 0..Fetchers}
    IN  {cur + d : d \in {e \in distances : cur + e <= Last}}
        \cup {cur - d : d \in {e \in distances : cur - e >= First}}

\* Mutant of BatchAt: the batch covers one distance less than it advances.
BatchAtNarrow(o) ==
    LET distances == {o + i * step : i \in 0..(Fetchers - 2)}
    IN  {cur + d : d \in {e \in distances : cur + e <= Last}}
        \cup {cur - d : d \in {e \in distances : cur - e >= First}}

\* Mutant of Batch: a batch of the narrow kind.
BatchNarrow ==
    /\ wpc = "batch"
    /\ fetched' = fetched \cup BatchAtNarrow(offset)
    /\ Goto(IF volume THEN "after" ELSE "crashed")
    /\ UNCHANGED <<gui, index, stop, volume, tool, cur, step, offset, history, watch, inputs>>

\* The threads of one batch, joined. Their volume is the one open now. A read that
\* throws ends the program with its std::thread, and a read of slice -1 takes a
\* mutex from before the first of slice_mutexes_, which may do anything.
Batch ==
    /\ wpc = "batch"
    /\ fetched' = fetched \cup BatchAt(offset)
    /\ \/ volume /\ Goto("after")
       \/ volume /\ Goto("terminated")
       \/ volume /\ Nothing \in BatchAt(offset) /\ Goto("undefined")
       \/ ~volume /\ Goto("crashed")
    /\ UNCHANGED <<gui, index, stop, volume, tool, cur, step, offset, history, watch, inputs>>

\* The test between batches, and the loop's own.
After ==
    /\ wpc = "after"
    /\ \/ /\ stop \/ index # cur
          /\ Goto("reset")
          /\ UNCHANGED offset
       \/ /\ ~stop /\ index = cur
          /\ offset' = offset + Fetchers * step
          /\ Goto(IF offset' <= Size * step THEN "batch" ELSE "reset")
    /\ UNCHANGED <<gui, index, stop, volume, tool, cur, step, fetched, history, watch, inputs>>

\* The end of a round, finished or broken off.
Reset ==
    /\ wpc = "reset"
    /\ index' = Nothing
    /\ Goto("test")
    /\ UNCHANGED <<gui, stop, volume, tool, round, history, watch, inputs>>

Worker == Test \/ FallAsleep \/ Begin \/ Load \/ Batch \/ After \/ Reset

\* The window or the program is gone, or a destructor waits for a sleeper.
Rest ==
    /\ \/ gui = "gone"
       \/ Over
       \/ gui = "joining" /\ wpc = "asleep"
    /\ UNCHANGED vars

Next ==
    \/ \E i \in Slices : ToggleOn(i)
    \/ ToggleOff
    \/ OpenSlice
    \/ CloseVolume
    \/ OpenVolume
    \/ Exit
    \/ Join
    \/ Worker
    \/ SpuriousWake
    \/ Rest

Spec == Init /\ [][Next]_vars

\* The scheduler runs the worker, and join() returns when it may. Nothing wakes a
\* sleeping worker but a notification: spurious wake-ups are possible, not owed.
FairSpec == Spec /\ WF_vars(Worker) /\ WF_vars(Join)

-----------------------------------------------------------------------------
(***************************************************************************)
(* Properties.                                                             *)
(***************************************************************************)
\* Type invariant.
TypeOK ==
    /\ wpc \in {"off", "test", "falling", "asleep", "begin", "load", "batch", "after",
                "reset", "ended", "crashed", "terminated", "undefined"}
    /\ gui \in {"open", "joining", "gone"}
    /\ index \in Slices \cup {Nothing}
    /\ stop \in BOOLEAN
    /\ stop <=> gui # "open"
    /\ volume \in BOOLEAN
    /\ tool \in BOOLEAN
    /\ cur \in Slices \cup {Nothing}
    /\ step \in Nat \ {0}
    /\ offset \in Nat
    /\ fetched \subseteq Slices \cup {Nothing}
    /\ wanted \in Slices \cup {Nothing}
    /\ begun \in BOOLEAN
    /\ closedBusy \in BOOLEAN
    /\ cleared \in BOOLEAN
    /\ missed \in BOOLEAN
    /\ inputs \in 0..MaxInputs

\* "fetching from index outwards" (CWindow.cpp:1584): between two batches a round
\* has read exactly the slices of the volume within some distance of its index,
\* none left out, and a round that runs to its end has read all that First and Last
\* admit. A round that read anything else read slice -1, and only because the GUI
\* cleared the index between the worker's wait and its reading the index again.
Around(d) == {i \in Slices : /\ First <= i /\ i <= Last
                             /\ \E k \in 0..d : i \in {cur + k * step, cur - k * step}}
Strays == {cur} \ Slices

OutwardsFromIndex ==
    /\ wpc = "after" => \E d \in 0..(Size + Fetchers) : fetched = Around(d) \cup Strays
    /\ wpc = "reset" /\ offset > Size * step => fetched = Around(Size) \cup Strays
    /\ wpc \in {"after", "reset"} /\ ~(fetched \subseteq Slices) => cleared

\* Closing the volume package crashes the program only under a round or a request:
\* an idle worker never touches the missing volume, however often it is woken.
CrashMeansClosedBusy == wpc = "crashed" => closedBusy

\* The destructor returns, unless its notification fell between the worker's test of
\* the predicate and its sleep, where nobody will wake it, or the program has ended.
ExitReturnsOrSleeps ==
    gui = "joining" ~> (gui = "gone" \/ (missed /\ wpc = "asleep") \/ Over)

\* "Start prefetching around the current slice" (CWindow.cpp:2561): a request that
\* is no longer pending has been taken up.
StartsAreServed == (wanted # Nothing /\ index # wanted) => begun
=============================================================================
