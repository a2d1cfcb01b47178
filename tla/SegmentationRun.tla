-------------------------- MODULE SegmentationRun --------------------------
(***************************************************************************)
(* One segment from tool to tool: the user starts the segmentation tool,   *)
(* edits the curve of the slice it was started on, sets anchors, and       *)
(* either leaves the tool or starts the runs; a worker thread computes one *)
(* run after the other and the window merges each answer into the segment  *)
(* (src/apps/VC/CWindow.cpp).  While runs are computed a modal dialog      *)
(* keeps the user away from the window.                                    *)
(***************************************************************************)
EXTENDS Annotations, Sequences

CONSTANTS
    Segments,      \* what the files of the segment hold when it is opened
    Ends,          \* the slices the user may ask a run to go to
    MaxStarts,     \* bound on the times the user starts runs
    MaxTouches     \* bound on edits and changes of anchors

(* A segment on file: the slices it reaches, those its annotations cover,
   and those whose curve the user drew. *)
SegmentFiles == [reach : SUBSET Slices, noted : SUBSET Slices, drawn : SUBSET Slices]

ASSUME FilesAssumption ==
    /\ Segments \subseteq SegmentFiles
    /\ \A f \in Segments :
          /\ f.noted # {} /\ f.noted = Span(Min(f.noted), Max(f.noted))
          /\ f.reach = Span(Min(f.reach), Max(f.reach))
          /\ f.drawn \subseteq f.noted /\ f.noted \subseteq f.reach
ASSUME BoundsAssumption ==
    Ends \subseteq Slices /\ MaxStarts \in Nat /\ MaxTouches \in Nat

VARIABLES
    cloud,       \* slice |-> who made its curve
    notes,       \* slice |-> flags of its points
    decoded,     \* the annotations as the window last decoded them
    mode,        \* "idle", "tool", "running", or "undefined"
    toolStart,   \* the slice the tool was started on
    ready,       \* has the tool a starting path?
    edits,       \* a changed curve of that slice, and the points moved by hand
    queue,       \* runs to come
    working,     \* the run the worker computes
    answers,     \* answers received so far
    outcome,     \* auxiliary: how the last run ended
    starts, touches  \* counters for the bounds

segment == <<cloud, notes, decoded>>
tool    == <<toolStart, ready, edits>>
runs    == <<queue, working, answers, outcome>>
bounds  == <<starts, touches>>
vars    == <<segment, mode, tool, runs, bounds>>

\* Curves are told apart by who made them: the user, the file, or the run whose
\* answer had that number.
ByHand   == -1
FromFile == 0
Makers   == -1 .. 2 * MaxStarts

NoEdits == [changed |-> FALSE, points |-> {}]

\* A run goes from the slice after "from" to "target"; it blends when it also
\* starts a second chain at the anchor beyond the target.
Runs  == [algo : {"OFS", "LRPS"}, from : Slices, target : Slices, blends : BOOLEAN]
NoRun == [algo |-> "none", from |-> NoSlice, target |-> NoSlice, blends |-> FALSE]

StartIndex(run) == IF run.target > run.from THEN run.from + 1 ELSE run.from - 1
Reach(run)      == Span(StartIndex(run), run.target)

----------------------------------------------------------------------------
(* Opening a segment.                                                      *)

Init ==
    /\ \E f \in Segments :
          /\ cloud = [s \in f.reach |-> IF s \in f.drawn THEN ByHand ELSE FromFile]
          /\ LET saved == [s \in f.noted |-> [p \in Points |->
                             IF s \in f.drawn THEN {"anchor", "manual"} ELSE {}]]
             IN  notes = Aligned(cloud, saved)
    /\ decoded = Decode(notes)
    /\ mode = "idle"
    /\ toolStart = NoSlice /\ ready = FALSE /\ edits = NoEdits
    /\ queue = <<>> /\ working = NoRun /\ answers = 0 /\ outcome = "none"
    /\ starts = 0 /\ touches = 0

----------------------------------------------------------------------------
(* The user.                                                               *)

\* Outside the slices of the segment there is no starting path.
StartTool(s) ==
    /\ mode = "idle"
    /\ mode' = "tool" /\ toolStart' = s /\ ready' = (s \in DOMAIN cloud)
    /\ UNCHANGED <<segment, edits, runs, bounds>>

\* Dragging moves points; spacing the points evenly changes the curve only.
Edit(points) ==
    /\ mode = "tool" /\ ready
    /\ touches < MaxTouches /\ touches' = touches + 1
    /\ edits' = [changed |-> TRUE, points |-> edits.points \cup points]
    /\ UNCHANGED <<segment, mode, toolStart, ready, runs, starts>>

ToggleAnchor(s) ==
    /\ mode = "tool"
    /\ touches < MaxTouches /\ touches' = touches + 1
    /\ LET on == "anchor" \notin decoded[s]
       IN  /\ notes' = WithFlag(notes, s, "anchor", on)
           /\ decoded' = DecodedFlag(decoded, notes, s, "anchor", on)
    /\ UNCHANGED <<cloud, mode, tool, runs, starts>>

\* Merging the changed curve of the starting slice, if there is one.
MergeEdits(c, n) ==
    IF ~edits.changed THEN [cloud |-> c, notes |-> n]
    ELSE MergedInto(c, n, [s \in {toolStart} |->
                              IF edits.points = {} THEN c[s] ELSE ByHand])

\* Where every end of work with the tool leads: changed curves are forgotten and
\* the annotations decoded afresh.
CleanupSegmentation ==
    /\ mode' = "idle" /\ edits' = NoEdits /\ decoded' = Decode(notes')

LeaveTool ==
    /\ mode = "tool" /\ CleanupSegmentation /\ toolStart' = NoSlice
    /\ UNCHANGED <<ready, runs, bounds>>

\* The changed curve was reset, or there was none.
LeaveWithout == UNCHANGED <<cloud, notes>> /\ LeaveTool

LeaveKeeping ==
    /\ edits # NoEdits
    /\ LET anchored == WithFlag(notes, toolStart, "anchor", TRUE)
           marked   == WithManual(anchored, toolStart, edits.points)
           unused   == WithFlag(marked, toolStart, "used", FALSE)
           kept     == MergeEdits(cloud, unused)
       IN  cloud' = kept.cloud /\ notes' = kept.notes
    /\ LeaveTool

----------------------------------------------------------------------------
(* Preparing the runs.  In each direction the user asks for no run, for a  *)
(* run to the next anchor, or for one to a slice.                          *)

Nothing  == -1
ToAnchor == -2

Goals(from, forward) ==
    {Nothing, ToAnchor} \cup {s \in Ends : IF forward THEN s >= from ELSE s <= from}

\* Mutant: only targets beyond the anchor are moved.
TargetOnAnchor(goal, forward, anchor, from) ==
    LET before == IF forward THEN anchor - 1 ELSE anchor + 1
        beyond == IF forward THEN goal > anchor ELSE goal < anchor
    IN  IF goal = ToAnchor THEN IF anchor = NoSlice THEN from ELSE before
        ELSE IF anchor # NoSlice /\ beyond THEN before ELSE goal

\* A target at or beyond the next anchor is moved in front of it.
TargetOf(goal, forward, anchor, from) ==
    LET before == IF forward THEN anchor - 1 ELSE anchor + 1
        beyond == IF forward THEN goal >= anchor ELSE goal <= anchor
    IN  IF goal = ToAnchor THEN IF anchor = NoSlice THEN from ELSE before
        ELSE IF anchor # NoSlice /\ beyond THEN before ELSE goal

\* The runs one direction adds to the queue: one, or none if the target is the
\* slice it would start from.
Prepared(goal, forward, algo, smooth, now) ==
    LET anchor == IF forward THEN NearestHigher(now.decoded, toolStart)
                             ELSE NearestLower(now.decoded, First(now.cloud), toolStart)
        target == TargetOf(goal, forward, anchor, toolStart)
        run    == [algo |-> algo, from |-> toolStart, target |-> target, blends |-> FALSE]
        length == Cardinality(Reach(run)) - 1
        blends == /\ algo = "OFS" /\ smooth /\ goal = ToAnchor
                  /\ length > 1 /\ anchor \in DOMAIN now.cloud
    IN  IF goal = Nothing \/ target = toolStart THEN <<>>
        ELSE <<[run EXCEPT !.blends = blends]>>

\* The next run goes to the worker; when none is left the tool is put away.
ExecuteNext(waiting, shown) ==
    /\ edits' = NoEdits
    /\ IF waiting # <<>>
       THEN /\ working' = Head(waiting) /\ queue' = Tail(waiting)
            /\ mode' = "running" /\ decoded' = shown
       ELSE /\ working' = NoRun /\ queue' = <<>> /\ CleanupSegmentation

\* The segment takes part if its box for computing is ticked and the tool has a
\* starting path.
DoSegmentation(computed, algo, back, forth, smooth) ==
    /\ mode = "tool"
    /\ starts < MaxStarts /\ starts' = starts + 1
    /\ back # Nothing \/ forth # Nothing
    /\ algo = "LRPS" => back = Nothing
    /\ IF computed /\ ready
       THEN LET merged   == MergeEdits(cloud, notes)
                anchored == WithFlag(merged.notes, toolStart, "anchor", TRUE)
                flagged  == DecodedFlag(decoded, notes, toolStart, "anchor", TRUE)
                shown    == IF edits.points = {} THEN flagged
                            ELSE DecodedFlag(flagged, notes, toolStart, "manual", TRUE)
                now      == [cloud |-> merged.cloud, decoded |-> shown]
            IN  /\ cloud' = merged.cloud
                /\ notes' = WithManual(anchored, toolStart, edits.points)
                /\ ExecuteNext(Prepared(back, FALSE, algo, smooth, now)
                               \o Prepared(forth, TRUE, algo, smooth, now), shown)
       ELSE UNCHANGED <<cloud, notes>> /\ ExecuteNext(<<>>, decoded)
    /\ UNCHANGED <<toolStart, ready, answers, outcome, touches>>

----------------------------------------------------------------------------
(* The worker's answers.                                                   *)

\* What is done of a run that has to stop at one of its slices.
Prefixes(run) == {Span(StartIndex(run), s) \ {s} : s \in Reach(run)}

\* The slices of an answer.  Local reslicing hands back its starting curve too, with
\* what it has when a curve leaves the volume.  Optical flow then hands back the
\* starting curve alone, unless it is on the first of two chains it blends.
Complete(run) ==
    IF run.algo = "LRPS" THEN {run.from} \cup Reach(run) ELSE Reach(run)

Early(run) ==
    IF run.algo = "LRPS" THEN {{run.from} \cup done : done \in Prefixes(run)}
    ELSE {{run.from}} \cup (IF run.blends THEN Prefixes(run) ELSE {})

RowsOf(slices) ==
    [s \in slices |-> IF s = working.from THEN cloud[s] ELSE answers + 1]

\* The slice that gave the run its starting curve, found from the target.
UsedSlice(run) == StartIndex(run) + (IF run.target > toolStart THEN -1 ELSE 1)

\* The answer is merged, the starting slice marked as used, the positions noted, and the
\* annotations from the first slice to the target cleared; all but the merge take the
\* rows to be there, and what a write beside them does is undefined.
OnSegmentationFinished(slices, how) ==
    LET rows    == RowsOf(slices)
        merged  == MergedInto(cloud, notes, rows)
        used    == WithFlag(merged.notes, UsedSlice(working), "used", TRUE)
        shown   == DecodedFlag(decoded, used, UsedSlice(working), "used", TRUE)
        first   == StartIndex(working)
        resets  == first # working.target
    IN  /\ cloud' = merged.cloud
        /\ notes' = IF resets THEN Reset(used, first, working.target) ELSE used
        /\ answers' = answers + 1 /\ outcome' = how
        /\ IF slices \subseteq DOMAIN used /\ (resets => ResetFits(used, first, working.target))
           THEN ExecuteNext(queue, shown)
           ELSE mode' = "undefined" /\ UNCHANGED <<decoded, edits, queue, working>>
        /\ UNCHANGED <<toolStart, ready, bounds>>

RunCompletes ==
    mode = "running" /\ OnSegmentationFinished(Complete(working), "complete")

RunStopsEarly ==
    mode = "running" /\ \E slices \in Early(working) : OnSegmentationFinished(slices, "early")

\* An exception of the algorithm reaches the window as a failure.
RunFails ==
    /\ mode = "running"
    /\ answers' = answers + 1 /\ outcome' = "failed"
    /\ UNCHANGED <<cloud, notes, toolStart, ready, bounds>>
    /\ ExecuteNext(queue, decoded)

Answer == RunCompletes \/ RunStopsEarly \/ RunFails

Next ==
    \/ \E s \in Slices : StartTool(s) \/ ToggleAnchor(s)
    \/ \E points \in SUBSET Points : Edit(points)
    \/ LeaveWithout
    \/ LeaveKeeping
    \/ \E computed, smooth \in BOOLEAN, algo \in {"OFS", "LRPS"} :
          \E back \in Goals(toolStart, FALSE), forth \in Goals(toolStart, TRUE) :
             DoSegmentation(computed, algo, back, forth, smooth)
    \/ Answer

Spec == Init /\ [][Next]_vars
----------------------------------------------------------------------------
(* Properties.                                                             *)

TypeOK ==
    /\ DOMAIN cloud \subseteq Slices /\ \A s \in DOMAIN cloud : cloud[s] \in Makers
    /\ DOMAIN notes \subseteq Slices
    /\ \A s \in DOMAIN notes : notes[s] \in [Points -> SUBSET Flags]
    /\ decoded \in [Slices -> SUBSET Flags]
    /\ mode \in {"idle", "tool", "running", "undefined"}
    /\ toolStart \in Slices \cup {NoSlice} /\ ready \in BOOLEAN
    /\ edits \in [changed : BOOLEAN, points : SUBSET Points]
    /\ queue \in Seq(Runs) /\ working \in Runs \cup {NoRun}
    /\ answers \in 0 .. 2 * MaxStarts
    /\ outcome \in {"none", "complete", "early", "failed"}
    /\ starts \in 0 .. MaxStarts /\ touches \in 0 .. MaxTouches

\* Point cloud and annotation cloud never come apart: they cover the same slices,
\* without a gap, whatever grew or replaced rows of the one (the two errors
\* "Height mismatch" of MergePointSetIntoPointCloud never show).
CloudsAgree == Contiguous(cloud) /\ DOMAIN notes = DOMAIN cloud

\* Outside a run the decoded annotations are those of the annotation cloud, so that
\* anchors are looked for where they are.
DecodedIsCurrent == mode \in {"idle", "tool"} => decoded = Decode(notes)

\* Every run, waiting or computed, starts on an anchor and passes none, up to the
\* moment its answer arrives, whatever the run before it changed.
Anchored(s) == "anchor" \in Marks(notes, s)
RunsKeepBetweenAnchors ==
    mode = "running" =>
        \A run \in {working} \cup {queue[i] : i \in DOMAIN queue} :
            Anchored(run.from) /\ \A s \in Reach(run) : ~Anchored(s)

\* No answer overwrites the curve of an anchor or takes its flag: "to protect them
\* against overwrites" (README.md).
AnchorsAreProtected ==
    [][mode = "running" =>
         \A s \in DOMAIN cloud : Anchored(s) =>
             s \in DOMAIN cloud' /\ cloud'[s] = cloud[s] /\ Anchored(s)']_vars

\* A curve made by hand says so in its annotations; only a run that stops early makes it
\* stop saying so.
HandIsMarked == \A s \in DOMAIN cloud : cloud[s] = ByHand => "manual" \in Marks(notes, s)
OnlyEarlyRunsUnmark ==
    [][HandIsMarked /\ ~HandIsMarked' => mode = "running" /\ outcome' = "early"]_vars

\* Only a run that stops early writes beside the annotation cloud.
OnlyEarlyRunsOverrun ==
    [][mode' = "undefined" => outcome' = "early"]_vars

=============================================================================
