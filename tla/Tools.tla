------------------------------- MODULE Tools -------------------------------
(***************************************************************************)
(* The editing tools of VC's window over several segments                  *)
(* (apps/VC/CWindow.cpp, SegmentationStruct.hpp, UndoCommands.cpp,         *)
(* CVolumeViewerWithCurve.cpp): the pen draws the first curve of a new     *)
(* segment; the segmentation tool, started on a slice, lets the user drag  *)
(* and even out the curves there and run the segmentation from them.       *)
(* Edits are buffered until a run or "Keep" merges them into the point     *)
(* cloud, which a save writes to disk.  Every edit is on an undo stack,    *)
(* whose commands point at segments.                                       *)
(*                                                                         *)
(* A point's position is the stamp of the operation that put it there.     *)
(***************************************************************************)
EXTENDS Integers, Sequences, FiniteSets, SequencesExt, Functions

CONSTANTS
    Segments, SegmentList,   \* the window's list, in its order
    Slices, Points,          \* point indices of a curve
    OnDisk,                  \* slices that have a row, for each segment
    MaxStamp                 \* bounds the operations that move points

\* What a command's pointer leads to when its segment is erased.
Gone == "gone"

ASSUME ListAssumption  == SegmentList \in Seq(Segments) /\ ToSet(SegmentList) = Segments
ASSUME SegmentAssumption == Gone \notin Segments
ASSUME DiskAssumption  == OnDisk \in [Segments -> SUBSET Slices]
ASSUME PointAssumption == Points \subseteq Nat /\ IsFiniteSet(Points) /\ MaxStamp \in Nat

VARIABLES
    disk,      \* rows in each segment's file
    loaded,    \* segments in fSegStructMap
    cloud,     \* rows of each segment's point cloud
    active,    \* fSegmentationId, the segment activated last
    ghost,     \* the segment highlighted, where it is not loaded
    changed,   \* buffered curves, all of slice start
    chain,     \* fStartingPath
    manual,    \* fBufferedChangedPoints
    stack, at, \* the undo stack: the first at commands are done
    mode,      \* fWindowState
    pen, seg,  \* are the tools' buttons down?
    running,   \* segments a segmentation run is under way for
    shown,     \* the slice shown
    start,     \* the slice the tool was started on
    flag,      \* fVpkgChanged
    now,       \* the stamp given last
    fate       \* of the program: running, crashed, or its data are spoilt
\* Auxiliary variables
VARIABLES
    base,      \* commands below it are older than the tool's last start
    astray,    \* has a command changed something else than its edit did?
    moved,     \* segments changed by something that leaves the chain alone
    unasked,   \* were changes left unsaved without the flag?
    swept      \* did "Display all" activate the active segment?

edits   == <<changed, chain, manual, moved>>
undo    == <<stack, at, base, astray>>
tools   == <<mode, pen, seg, running, start>>
package == <<loaded, active, ghost, swept>>
saved   == <<disk, flag, unasked>>
vars == <<edits, undo, tools, package, saved, cloud, shown, now, fate>>

None    == 0           \* no slice
NoCurve == <<>>
NoRows  == <<>>
Even(t) == [p \in Points |-> t]

Idle == fate = "running" /\ running = {}

\* The curve a segment shows on a slice, and the one the cloud has there.
Row(s, sl) == IF sl \in DOMAIN cloud[s] THEN cloud[s][sl] ELSE NoCurve
Curve(s) ==
    IF shown = start /\ s \in DOMAIN changed /\ Row(s, shown) # NoCurve
    THEN changed[s] ELSE Row(s, shown)

HasChangedCurves == DOMAIN changed # {} \/ \E s \in loaded : manual[s] # {}

Blank == {s \in loaded : cloud[s] = NoRows}

\* A new stamp, for operations that move points.
NewStamp == now < MaxStamp /\ now' = now + 1

Forget ==
    /\ changed' = <<>>
    /\ manual' = [s \in Segments |-> {}]

\* A spline fitted through no points, a point of an empty curve and a segment
\* that is gone have no defined effect: it may go unnoticed or not.
Risky(hazard) ==
    \/ UNCHANGED fate
    \/ hazard /\ fate' = "crashed"

Init ==
    /\ disk = [s \in Segments |-> [sl \in OnDisk[s] |-> Even(0)]]
    /\ loaded = {} /\ active = "" /\ ghost = "" /\ swept = FALSE
    /\ cloud = [s \in Segments |-> NoRows]
    /\ changed = <<>> /\ manual = [s \in Segments |-> {}] /\ moved = {}
    /\ chain = [s \in Segments |-> NoCurve]
    /\ stack = <<>> /\ at = 0 /\ base = 0 /\ astray = FALSE
    /\ mode = "idle" /\ pen = FALSE /\ seg = FALSE /\ running = {}
    /\ shown = Min(Slices) /\ start = None
    /\ flag = FALSE /\ unasked = FALSE
    /\ now = 0 /\ fate = "running"

----------------------------------------------------------------------------
(* Saving.                                                                  *)

Unsaved(rows, file) == \E s \in loaded : rows[s] # NoRows /\ rows[s] # file[s]

\* Each segment's files are written, or not, on their own.
SavePointCloud(rows) ==
    \E failed \in SUBSET {s \in loaded : rows[s] # NoRows} :
        /\ disk' = [s \in Segments |-> IF s \in loaded \ failed /\ rows[s] # NoRows
                                       THEN rows[s] ELSE disk[s]]
        /\ flag' = FALSE

\* SaveDialog's "Save" and "Discard"; "Cancel" is left to the callers.  rows are
\* what would be saved.
AskToSave(rows, raised) ==
    \/ ~raised /\ UNCHANGED <<disk, flag>>
    \/ raised /\ SavePointCloud(rows)
    \/ raised /\ flag' = FALSE /\ UNCHANGED disk

Answered(rows) == unasked' = Unsaved(rows, disk')

Save ==
    /\ Idle /\ SavePointCloud(cloud) /\ Answered(cloud)
    /\ UNCHANGED <<edits, undo, tools, package, cloud, shown, now, fate>>

----------------------------------------------------------------------------
(* The list of segments, which the tools disable.                           *)

\* Commands keep their pointers to segments that are erased.
Dangle(S) == stack' = [i \in DOMAIN stack |->
                          IF stack[i].seg \in S THEN [stack[i] EXCEPT !.seg = Gone] ELSE stack[i]]

\* Mutant of OthersBlank: what is blank stays.
NoneErased(s, rows) == {}

\* Activating a segment erases the others that have no rows yet.
OthersBlank(s, rows) == {t \in loaded \ {s} : rows[t] = NoRows}

Load(S) == [s \in Segments |-> IF s \in S /\ cloud[s] = NoRows THEN disk[s] ELSE cloud[s]]

Erased(rows, S) == [s \in Segments |-> IF s \in S THEN NoRows ELSE rows[s]]

\* "Cancel" keeps changes unsaved but displays the segment all the same, and so
\* does the box "compute", which does not ask.
Show(s) ==
    /\ Idle /\ mode = "idle" /\ s \notin loaded
    /\ LET rows == Load({s})
       IN  /\ loaded' = (loaded \ OthersBlank(s, rows)) \cup {s}
           /\ cloud' = Erased(rows, OthersBlank(s, rows))
           /\ Dangle(OthersBlank(s, rows))
    /\ active' = s /\ ghost' = "" /\ swept' = FALSE
    /\ \/ flag /\ AskToSave(cloud, flag) /\ Answered(cloud)
       \/ UNCHANGED saved
    /\ UNCHANGED <<edits, at, base, astray, tools, shown, now, fate>>

\* "Display all" activates every segment not displayed, in the list's order, and
\* erases blank ones as if the last of the list had been clicked.
ShowAll ==
    /\ Idle /\ mode = "idle"
    /\ LET new  == SelectSeq(SegmentList, LAMBDA s : s \notin loaded)
           rows == Load(Segments)
           out  == {t \in Segments \ {Last(SegmentList)} : rows[t] = NoRows}
       IN  /\ new # <<>>
           /\ loaded' = Segments \ out
           /\ cloud' = rows
           /\ Dangle(out)
           /\ active' = Last(new) /\ swept' = TRUE
           /\ ghost' \in (out \cap loaded) \cup ({ghost} \ loaded')
    /\ UNCHANGED <<edits, at, base, astray, tools, saved, shown, now, fate>>

\* What is not displayed is erased, saved or not.  The click highlights it first.
Hide(s) ==
    /\ Idle /\ mode = "idle" /\ s \in loaded
    /\ loaded' = loaded \ {s} /\ cloud' = Erased(cloud, {s})
    /\ Dangle({s})
    /\ ghost' = s
    /\ changed' = Restrict(changed, DOMAIN changed \ {s})
    /\ manual' = [manual EXCEPT ![s] = {}] /\ chain' = [chain EXCEPT ![s] = NoCurve]
    /\ unasked' = (unasked /\ \E t \in loaded' : cloud[t] # NoRows /\ cloud[t] # disk[t])
    /\ UNCHANGED <<moved, at, base, astray, tools, disk, flag, active, swept, shown, now, fate>>

\* A click on a name or a shortcut.
Highlight ==
    /\ Idle /\ ghost # ""
    /\ ghost' = ""
    /\ UNCHANGED <<edits, undo, tools, saved, loaded, active, swept, cloud, shown, now, fate>>

ChangeSlice(sl) ==
    /\ Idle /\ sl # shown
    /\ shown' = sl
    /\ UNCHANGED <<edits, undo, tools, package, saved, cloud, now, fate>>

----------------------------------------------------------------------------
(* The pen.                                                                 *)

PenEnabled == Blank # {}

PenDown ==
    /\ Idle /\ ~pen /\ PenEnabled
    /\ pen' = TRUE /\ seg' = FALSE
    /\ mode' = "draw" /\ start' = shown
    /\ UNCHANGED <<edits, undo, package, saved, running, cloud, shown, now, fate>>

Lifts == pen' = FALSE /\ mode' = "idle" /\ start' = None /\ UNCHANGED <<seg, running>>

PenUpNothingDrawn ==
    /\ Idle /\ pen
    /\ Lifts
    /\ UNCHANGED <<edits, undo, package, saved, cloud, shown, now, fate>>

\* The curve drawn is too small to have points.
PenUpTooSmall ==
    /\ Idle /\ pen
    /\ Lifts
    /\ SavePointCloud(cloud) /\ Answered(cloud)
    /\ ghost' = (IF active \in loaded THEN "" ELSE active)
    /\ UNCHANGED <<edits, undo, loaded, active, swept, cloud, shown, now, fate>>

\* The curve goes to the segment activated last.  Where that has rows, their
\* number of columns changes under them: what becomes of them is not modelled.
PenUp ==
    /\ Idle /\ pen /\ NewStamp
    /\ Lifts
    /\ IF active \in loaded /\ cloud[active] = NoRows
       THEN /\ cloud' = [cloud EXCEPT ![active] = [sl \in {shown} |-> Even(now')]]
            /\ SavePointCloud(cloud') /\ Answered(cloud')
            /\ UNCHANGED fate
       ELSE /\ fate' = "spoilt"
            /\ UNCHANGED <<cloud, saved>>
    /\ ghost' = ""
    /\ UNCHANGED <<edits, undo, loaded, active, swept, shown>>

----------------------------------------------------------------------------
(* The segmentation tool.                                                   *)

SegEnabled == Blank = {} /\ \E s \in loaded : Curve(s) # NoCurve

\* Mutant of SplitCloud: the starting path is the one left behind.
SplitNothing == UNCHANGED chain

SplitCloud == chain' = [s \in Segments |-> IF s \in loaded THEN Row(s, shown) ELSE NoCurve]

\* The panel is set up for the highlighted segment, which may not be there.
SegDown ==
    /\ Idle /\ ~seg /\ SegEnabled
    /\ seg' = TRUE /\ pen' = FALSE
    /\ mode' = "segment" /\ start' = shown
    /\ SplitCloud /\ moved' = {}
    /\ base' = Len(stack)
    /\ IF ghost = "" THEN UNCHANGED fate ELSE fate' = "crashed"
    /\ UNCHANGED <<changed, manual, stack, at, astray, running, package, saved, cloud, shown, now>>

\* Merging evens the curve out.
Merged(S, t) ==
    [s \in Segments |-> IF s \in S \cap DOMAIN changed /\ changed[s] # NoCurve
                        THEN [cloud[s] EXCEPT ![start] = Even(t)] ELSE cloud[s]]

FitsNothing(S) == \E s \in S \cap DOMAIN changed : changed[s] = NoCurve

\* Mutant of CleanupSegmentation: edits are remembered.
CleanupRemembers ==
    /\ seg' = FALSE /\ mode' = "idle"
    /\ UNCHANGED <<changed, manual>>

CleanupSegmentation ==
    /\ seg' = FALSE /\ mode' = "idle"
    /\ Forget

\* The second click on the tool's button: "Reset", or nothing to ask about, and
\* "Keep".  "Cancel" changes nothing.
SegUp ==
    /\ Idle /\ seg
    /\ CleanupSegmentation
    /\ start' = None
    /\ stack' = <<>> /\ at' = 0 /\ base' = 0 /\ astray' = FALSE
    /\ \/ UNCHANGED <<cloud, now, unasked, fate>>
       \/ /\ HasChangedCurves /\ NewStamp
          /\ cloud' = Merged(loaded, now')
          /\ unasked' = (unasked \/ (~flag /\ Unsaved(cloud', disk)))
          /\ Risky(FitsNothing(loaded))
    /\ UNCHANGED <<chain, moved, pen, running, package, disk, flag, shown>>

----------------------------------------------------------------------------
(* Edits, each of which is a command on the undo stack.                     *)

Push(commands) ==
    /\ stack' = SubSeq(stack, 1, at) \o commands
    /\ at' = at + Len(commands)
    /\ base' = IF base <= at THEN base ELSE at
    /\ UNCHANGED astray

\* Mutant of Before: the state is taken when the mouse is released.
AtRelease(s, P) == [p \in P |-> now + 1]

\* Positions before a drag, each taken before its point moves.
Before(s, P) == Restrict(Curve(s), P)

\* The points a command will take for marked by its edit.  The states before
\* are in the order in which points came under the drag, those after in the
\* order of the points, and the two lists are compared entry by entry.
InOrder(P) == SetToSortSeq(P, LAMBDA p, q : p < q)

Fresh(s, P, first) ==
    LET before == InOrder(first) \o InOrder(P \ first)
        after  == InOrder(P)
    IN  {after[i] : i \in {j \in DOMAIN after : before[j] \notin manual[s]}}

\* The points of P are dragged, of which those of first came under the drag at
\* once: the impact range may grow during it.  The curves of all segments enter
\* the buffer.
Drag(s, P, first) ==
    /\ Idle /\ mode = "segment" /\ shown = start
    /\ s \in loaded /\ Curve(s) # NoCurve
    /\ NewStamp
    /\ changed' = [t \in loaded |->
          IF t = s THEN [p \in Points |-> IF p \in P THEN now' ELSE Curve(s)[p]] ELSE Curve(t)]
    /\ chain' = [t \in Segments |-> IF t \in loaded THEN changed'[t] ELSE NoCurve]
    /\ manual' = [manual EXCEPT ![s] = @ \cup P]
    /\ moved' = {}
    /\ Push(<<[seg |-> s, before |-> Before(s, P), after |-> [p \in P |-> now'],
              fresh |-> Fresh(s, P, first), dragged |-> P,
              amiss |-> Fresh(s, P, first) # P \ manual[s]]>>)
    /\ UNCHANGED <<tools, package, saved, cloud, shown, fate>>

\* The segments of S in the order of the list.
Position(s) == CHOOSE i \in DOMAIN SegmentList : SegmentList[i] = s
InListOrder(S) ==
    {order \in Bijection(1..Cardinality(S), S) :
        \A i, j \in DOMAIN order : i < j => Position(order[i]) < Position(order[j])}

\* For the segments whose box "compute" is ticked.
EvenlySpacePoints(S) ==
    /\ Idle /\ seg /\ shown = start /\ NewStamp
    /\ LET even == [s \in S |-> IF Curve(s) = NoCurve THEN NoCurve ELSE Even(now')]
           command(s) == [seg |-> s, before |-> Curve(s), after |-> even[s],
                          fresh |-> {}, dragged |-> {}, amiss |-> FALSE]
       IN  /\ changed' = [s \in S \cup DOMAIN changed |-> IF s \in S THEN even[s] ELSE changed[s]]
           /\ \E order \in InListOrder(S) : Push([i \in DOMAIN order |-> command(order[i])])
           /\ Risky(\E s \in S : Curve(s) = NoCurve)
    /\ moved' = moved \cup S
    /\ UNCHANGED <<chain, manual, tools, package, saved, cloud, shown>>

Reach(c) == IF c.seg = Gone THEN loaded \cup {Gone} ELSE {c.seg}

\* A curve with the points of positions put there.
Over(positions, curve) ==
    [p \in DOMAIN curve |-> IF p \in DOMAIN positions THEN positions[p] ELSE curve[p]]

\* A command changes the buffered curve of the slice shown, if there is one.
Sets(t, positions) ==
    IF t \in DOMAIN changed /\ shown = start
    THEN /\ changed' = [changed EXCEPT ![t] = Over(positions, @)]
         /\ moved' = moved \cup {t}
    ELSE UNCHANGED <<changed, moved>>

\* Beside what it says, a command of a segment that is gone changes whatever has
\* its memory now.
Does(c, positions, marks(_)) ==
    \E t \in Reach(c) :
        /\ Sets(t, positions)
        /\ manual' = IF t = Gone THEN manual ELSE [manual EXCEPT ![t] = marks(@)]
        /\ Risky(c.seg = Gone \/ (t \in DOMAIN changed /\ changed[t] = NoCurve))

Undo ==
    /\ Idle /\ at > 0
    /\ at' = at - 1
    /\ LET c == stack[at]
       IN  /\ Does(c, c.before, LAMBDA marks : marks \ c.fresh)
           /\ astray' = (astray \/ c.amiss \/ at <= base \/ ~seg \/ shown # start)
    /\ UNCHANGED <<stack, base, chain, tools, package, saved, cloud, shown, now>>

Redo ==
    /\ Idle /\ at < Len(stack)
    /\ at' = at + 1
    /\ LET c == stack[at']
       IN  /\ Does(c, c.after, LAMBDA marks : marks \cup c.fresh)
           /\ astray' = (astray \/ c.amiss \/ at < base \/ ~seg \/ shown # start)
    /\ UNCHANGED <<stack, base, chain, tools, package, saved, cloud, shown, now>>

----------------------------------------------------------------------------
(* Segmentation runs, during which the window takes no commands.            *)

\* For the segments whose box "compute" is ticked and that have a curve to start
\* from.  Where none has one, the tool is left at once.
DoSegmentation(S) ==
    /\ Idle /\ mode = "segment" /\ NewStamp
    /\ LET R == {s \in S : chain[s] # NoCurve}
       IN  IF R = {}
           THEN /\ CleanupSegmentation
                /\ base' = Len(stack) /\ astray' = FALSE
                /\ UNCHANGED <<cloud, running>>
           ELSE /\ running' = R
                /\ cloud' = Merged(R, now')
                /\ changed' = Restrict(changed, DOMAIN changed \ R)
                /\ manual' = [s \in Segments |-> IF s \in R THEN {} ELSE manual[s]]
                /\ UNCHANGED <<seg, mode, base, astray>>
    /\ UNCHANGED <<chain, moved, stack, at, pen, start, package, saved, shown, fate>>

\* Mutant of Flagged: only edits count.
NotFlagged(done) == flag' = flag

Flagged(done) == flag' = (flag \/ done # {})

\* The runs of done succeeded and computed rows for the slices in reached; some
\* algorithms hand back the starting path too.
RunsEnd(done, reached, withStart) ==
    /\ fate = "running" /\ running # {}
    /\ running' = {}
    /\ cloud' = [s \in Segments |->
          IF s \notin done THEN cloud[s]
          ELSE [sl \in DOMAIN cloud[s] \cup reached |->
                  IF sl \in reached THEN Even(now)
                  ELSE IF sl = start /\ withStart THEN chain[s] ELSE cloud[s][sl]]]
    /\ Flagged(done)
    /\ unasked' = (unasked \/ (done = {} /\ ~flag /\ Unsaved(cloud', disk)))
    /\ CleanupSegmentation
    /\ base' = Len(stack) /\ astray' = FALSE
    /\ shown' \in Slices
    /\ UNCHANGED <<chain, moved, stack, at, pen, start, package, disk, now, fate>>

----------------------------------------------------------------------------
(* Opening a package, the same one here, in place of the one open.          *)

CloseVolume ==
    /\ loaded' = {} /\ active' = "" /\ swept' = FALSE
    /\ cloud' = [s \in Segments |-> NoRows]
    /\ chain' = [s \in Segments |-> NoCurve] /\ moved' = {}
    /\ Forget /\ Dangle(loaded)
    /\ mode' = "idle" /\ pen' = FALSE /\ seg' = FALSE
    /\ ghost' \in loaded \cup {ghost}
    /\ UNCHANGED <<at, base, running, start>>

\* The tool asks first: "Reset" drops its edits, "Keep" merges them.
Open ==
    /\ Idle /\ loaded # {}
    /\ \/ /\ AskToSave(cloud, flag)
          /\ UNCHANGED <<now, fate>>
       \/ /\ seg /\ HasChangedCurves /\ NewStamp
          /\ AskToSave(Merged(loaded, now'), TRUE)
          /\ Risky(FitsNothing(loaded))
    /\ CloseVolume
    /\ unasked' = FALSE /\ astray' = FALSE
    /\ shown' = Min(Slices)

\* "Keep", and then "Cancel" when asked whether to save.
KeepAndCancel ==
    /\ Idle /\ seg /\ HasChangedCurves /\ NewStamp
    /\ cloud' = Merged(loaded, now')
    /\ flag' = TRUE /\ astray' = TRUE
    /\ Risky(FitsNothing(loaded))
    /\ UNCHANGED <<edits, stack, at, base, tools, package, disk, unasked, shown>>

Next ==
    \/ Save \/ ShowAll \/ \E s \in Segments : Show(s) \/ Hide(s)
    \/ Highlight
    \/ \E sl \in Slices : ChangeSlice(sl)
    \/ PenDown \/ PenUpNothingDrawn \/ PenUpTooSmall \/ PenUp
    \/ SegDown \/ SegUp
    \/ \E s \in Segments, P \in SUBSET Points \ {{}} :
          \E first \in SUBSET P \ {{}} : Drag(s, P, first)
    \/ \E S \in SUBSET loaded \ {{}} : EvenlySpacePoints(S)
    \/ Undo \/ Redo
    \/ \E S \in SUBSET loaded : DoSegmentation(S)
    \/ \E done \in SUBSET running, reached \in SUBSET (Slices \ {start}), w \in BOOLEAN :
          RunsEnd(done, reached, w)
    \/ Open \/ KeepAndCancel

Spec == Init /\ [][Next]_vars

----------------------------------------------------------------------------
(* Properties                                                               *)

\* Tool, window state and edits go together, although the two buttons, the
\* window's state and the buffers are changed by each other's handlers (the
\* comment in UpdateView calls their exclusion buggy): at most one tool is in
\* use, the window is in its state, and outside the segmentation tool no edit is
\* buffered, unless a command left over from an earlier use was replayed.
EditsBelongToTheTool ==
    /\ mode = CASE pen -> "draw" [] seg -> "segment" [] OTHER -> "idle"
    /\ ~(pen /\ seg)
    /\ DOMAIN changed # {} => seg
    /\ HasChangedCurves => seg \/ astray

\* The commands of this use of the tool, for a segment, up to the n-th.
Of(s, n) == {i \in (base + 1)..n : stack[i].seg = s}

\* What they make of the segment's row: each point is where the last of them that
\* moved it put it.
Made(s, n) ==
    [p \in DOMAIN Row(s, start) |->
        LET movers == {i \in Of(s, n) : p \in DOMAIN stack[i].after}
        IN  IF movers = {} THEN Row(s, start)[p] ELSE stack[Max(movers)].after[p]]

\* The curve in the buffer is what the commands on the stack make of the row in
\* the cloud, and the points marked are those they marked, so that undoing them
\* all gives back curve and marks; as long as no command of an earlier use was
\* replayed, none on another slice, and none whose drag grew while it lasted.
UndoRestores ==
    seg /\ ~astray /\ Idle =>
        \A s \in loaded :
            /\ s \in DOMAIN changed =>
                 /\ changed[s] = Made(s, at)
                 /\ \A i \in Of(s, at) :
                      stack[i].before = Restrict(Made(s, i - 1), DOMAIN stack[i].before)
            /\ s \notin DOMAIN changed => Of(s, at) = {}
            /\ manual[s] = UNION {stack[i].dragged : i \in Of(s, at)}

\* A run starts from the curve the user sees on the tool's slice, unless it was
\* evened out or a command replayed since the last drag: those leave the starting
\* path behind.
RunsStartFromTheCurve ==
    seg /\ ~astray /\ Idle /\ shown = start =>
        \A s \in loaded \ moved : chain[s] = Curve(s)

\* What differs from the files is flagged, and the user is asked before it is
\* lost on closing, except what the user was asked about or a save could not
\* write, and what the tool's own button or runs that all failed left behind.
UnsavedIsFlagged ==
    Idle /\ Unsaved(cloud, disk) => flag \/ unasked

\* A curve drawn with the pen becomes the first row of a new segment, unless
\* "Display all" has activated another one since.
PenDrawsOnTheNew == fate = "spoilt" => swept

=============================================================================
