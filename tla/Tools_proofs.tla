----------------------------- MODULE Tools_proofs -----------------------------
(***************************************************************************)
(* Proofs about Tools for any segments, slices and points and any number   *)
(* of operations.                                                          *)
(***************************************************************************)
EXTENDS Tools, FiniteSetTheorems, SequenceTheorems, WellFoundedInduction, TLAPS

\* The rows of a segment are a function, whatever its values.
IsRows(f) == f = [sl \in DOMAIN f |-> f[sl]]

\* The types the arguments below need.
ToolsTypes ==
    /\ loaded \subseteq Segments /\ running \subseteq loaded
    /\ DOMAIN manual = Segments
    /\ cloud = [s \in Segments |-> cloud[s]] /\ \A s \in Segments : IsRows(cloud[s])
    /\ \A s \in Segments : IsRows(disk[s])
    /\ {pen, seg, astray, flag, unasked, swept} \subseteq BOOLEAN

\* The segmentation tool stays on only while every segment shown has rows, so that the
\* pen, which needs one that has none, cannot be taken up with edits in the buffer; and
\* marks are left of a segment that is not shown only where they may be left at all.
ToolInv ==
    /\ mode = CASE pen -> "draw" [] seg -> "segment" [] OTHER -> "idle"
    /\ ~(pen /\ seg)
    /\ DOMAIN changed # {} => seg
    /\ seg => Blank = {}
    /\ running # {} => seg
    /\ \A s \in Segments : manual[s] # {} => seg \/ astray

\* A segment that is not shown has no rows in the window.
HiddenInv == \A s \in Segments \ loaded : cloud[s] = NoRows

\* The pen has a segment to draw on, which is the one activated last.
PenInv ==
    /\ pen => Blank # {}
    /\ ~swept => Blank \subseteq {active}
    /\ PenDrawsOnTheNew

\* The curve edited on the tool's slice, which need not be the one shown.
Edited(s) == IF s \in DOMAIN changed /\ Row(s, start) # NoCurve THEN changed[s] ELSE Row(s, start)

PathInv == seg /\ ~astray /\ Idle => \A s \in loaded \ moved : chain[s] = Edited(s)

ToolsInv == ToolsTypes /\ ToolInv /\ HiddenInv /\ PenInv /\ PathInv /\ UnsavedIsFlagged

\* A curve is empty or has all points.
IsCurve(c) == c = [p \in DOMAIN c |-> c[p]] /\ DOMAIN c \in {{}, Points}

CurveTypes ==
    /\ \A s \in Segments : /\ \A sl \in DOMAIN disk[s] : IsCurve(disk[s][sl])
                           /\ \A sl \in DOMAIN cloud[s] : IsCurve(cloud[s][sl])
                           /\ IsCurve(chain[s])
    /\ DOMAIN chain = Segments
    /\ changed = [s \in DOMAIN changed |-> changed[s]]
    /\ \A s \in DOMAIN changed : IsCurve(changed[s])

\* A sequence, whatever its values.
IsList(q) == Len(q) \in Nat /\ q = [i \in 1..Len(q) |-> q[i]]

StackTypes == IsList(stack) /\ at \in 0..Len(stack) /\ base \in 0..Len(stack)

\* The points the commands of a segment, up to the n-th, marked.
Marked(s, n) == UNION {stack[i].dragged : i \in Of(s, n)}

\* A command, done or undone, fits what the commands before it make of its segment.
Fits(i) ==
    LET c == stack[i] IN
    /\ c.seg \in DOMAIN changed
    /\ DOMAIN c.after = DOMAIN c.before /\ DOMAIN c.after \subseteq DOMAIN Row(c.seg, start)
    /\ c.before = Restrict(Made(c.seg, i - 1), DOMAIN c.before)
    /\ c.amiss \/ c.fresh = c.dragged \ Marked(c.seg, i - 1)

\* Undoing or redoing what is on the stack goes back and forth along the edits.
Replays ==
    /\ DOMAIN changed \subseteq loaded
    /\ \A i \in (base + 1)..Len(stack) : Fits(i)
    /\ \A s \in DOMAIN changed : changed[s] = Made(s, at)
    /\ \A s \in Segments : manual[s] = Marked(s, at)

UndoInv == seg /\ ~astray /\ Idle => Replays
-----------------------------------------------------------------------------
(***************************************************************************)
(* Rows.                                                                   *)
(***************************************************************************)
LEMMA EmptyRows ==
    ASSUME NEW f, IsRows(f)
    PROVE  f = NoRows <=> DOMAIN f = {}
<1>1. NoRows = [sl \in {} |-> f[sl]]
  BY DEF NoRows
<1>2. f = [sl \in DOMAIN f |-> f[sl]]
  BY DEF IsRows
<1>3. DOMAIN NoRows = {}
  BY DEF NoRows
<1> QED
  BY <1>1, <1>2, <1>3

LEMMA OtherRow ==
    ASSUME NEW f, IsRows(f), NEW sl, NEW row
    PROVE  IsRows([f EXCEPT ![sl] = row]) /\ DOMAIN [f EXCEPT ![sl] = row] = DOMAIN f
BY DEF IsRows

\* A merge changes rows that are there.
LEMMA MergedRows ==
    ASSUME ToolsTypes, NEW S, NEW t
    PROVE  /\ Merged(S, t) = [s \in Segments |-> Merged(S, t)[s]]
           /\ \A s \in Segments : /\ IsRows(Merged(S, t)[s])
                                  /\ Merged(S, t)[s] = NoRows <=> cloud[s] = NoRows
                                  /\ s \notin S => Merged(S, t)[s] = cloud[s]
<1>1. Merged(S, t) = [s \in Segments |-> Merged(S, t)[s]]
  BY DEF Merged
<1>2. ASSUME NEW s \in Segments
      PROVE  /\ IsRows(Merged(S, t)[s]) /\ DOMAIN Merged(S, t)[s] = DOMAIN cloud[s]
             /\ s \notin S => Merged(S, t)[s] = cloud[s]
  <2>1. IsRows(cloud[s])
    BY DEF ToolsTypes
  <2>2. Merged(S, t)[s] \in {cloud[s], [cloud[s] EXCEPT ![start] = Even(t)]}
    BY DEF Merged
  <2>3. s \notin S => Merged(S, t)[s] = cloud[s]
    BY DEF Merged
  <2> QED
    BY <2>1, <2>2, <2>3, OtherRow
<1>3. \A s \in Segments : IsRows(cloud[s])
  BY DEF ToolsTypes
<1> QED
  BY <1>1, <1>2, <1>3, EmptyRows

\* While the tool is on and when it goes off, rows only come.
LEMMA RowsStay ==
    ASSUME ToolsTypes,
           \/ SegUp \/ KeepAndCancel
           \/ \E S \in SUBSET loaded : DoSegmentation(S)
           \/ \E done \in SUBSET running, reached \in SUBSET (Slices \ {start}), w \in BOOLEAN :
                 RunsEnd(done, reached, w)
    PROVE  /\ UNCHANGED package
           /\ cloud' = [s \in Segments |-> cloud'[s]]
           /\ \A s \in Segments : /\ IsRows(cloud'[s])
                                  /\ cloud'[s] = NoRows => cloud[s] = NoRows
                                  /\ s \notin loaded => cloud'[s] = cloud[s]
<1>1. cloud = [s \in Segments |-> cloud[s]] /\ \A s \in Segments : IsRows(cloud[s])
  BY DEF ToolsTypes
<1>2. CASE SegUp
  <2>1. UNCHANGED package /\ (cloud' = cloud \/ cloud' = Merged(loaded, now'))
    BY <1>2 DEF SegUp, package
  <2> QED
    BY <1>1, <2>1, MergedRows
<1>3. CASE KeepAndCancel
  <2>1. UNCHANGED package /\ cloud' = Merged(loaded, now')
    BY <1>3 DEF KeepAndCancel, package
  <2> QED
    BY <1>1, <2>1, MergedRows
<1>4. ASSUME NEW S \in SUBSET loaded, DoSegmentation(S)
      PROVE  /\ UNCHANGED package
             /\ cloud' = cloud \/ \E R \in SUBSET loaded : cloud' = Merged(R, now')
  <2> DEFINE R == {s \in S : chain[s] # NoCurve}
  <2>1. UNCHANGED package /\ (cloud' = cloud \/ cloud' = Merged(R, now'))
    BY <1>4 DEF DoSegmentation, package
  <2>2. R \in SUBSET loaded
    OBVIOUS
  <2> QED
    BY <2>1, <2>2
<1>5. CASE \E S \in SUBSET loaded : DoSegmentation(S)
  BY <1>1, <1>4, <1>5, MergedRows
<1>6. ASSUME NEW done \in SUBSET running, NEW reached \in SUBSET (Slices \ {start}), NEW w \in BOOLEAN,
             RunsEnd(done, reached, w)
      PROVE  /\ UNCHANGED package
             /\ cloud' = [s \in Segments |-> cloud'[s]]
             /\ \A s \in Segments : /\ IsRows(cloud'[s])
                                    /\ cloud'[s] = NoRows => cloud[s] = NoRows
                                    /\ s \notin loaded => cloud'[s] = cloud[s]
  <2> DEFINE after(s) == [sl \in DOMAIN cloud[s] \cup reached |->
                             IF sl \in reached THEN Even(now)
                             ELSE IF sl = start /\ w THEN chain[s] ELSE cloud[s][sl]]
  <2>1. UNCHANGED package
        /\ cloud' = [s \in Segments |-> IF s \notin done THEN cloud[s] ELSE after(s)]
    BY <1>6 DEF RunsEnd, package
  <2>2. \A s : IsRows(after(s)) /\ DOMAIN after(s) = DOMAIN cloud[s] \cup reached
    BY DEF IsRows
  <2>3. done \subseteq loaded
    BY DEF ToolsTypes
  <2> HIDE DEF after
  <2>4. \A s \in Segments : cloud'[s] = IF s \notin done THEN cloud[s] ELSE after(s)
    BY <2>1
  <2>5. \A s \in Segments : IsRows(cloud'[s]) /\ (DOMAIN cloud'[s] = {} => DOMAIN cloud[s] = {})
    BY <1>1, <2>2, <2>4
  <2> QED
    BY <1>1, <2>1, <2>3, <2>4, <2>5, EmptyRows
<1> QED
  BY <1>2, <1>3, <1>5, <1>6

-----------------------------------------------------------------------------
(***************************************************************************)
(* Steps, by what they change of the segments shown.                       *)
(***************************************************************************)

\* None of the rows and segments shown.
Calm ==
    \/ Save \/ Highlight \/ (\E sl \in Slices : ChangeSlice(sl))
    \/ PenDown \/ PenUpNothingDrawn \/ PenUpTooSmall \/ SegDown
    \/ (\E s \in Segments, P \in SUBSET Points \ {{}} : \E first \in SUBSET P \ {{}} : Drag(s, P, first))
    \/ (\E S \in SUBSET loaded \ {{}} : EvenlySpacePoints(S))
    \/ Undo \/ Redo

\* Rows only come.
Grows ==
    \/ SegUp \/ KeepAndCancel
    \/ \E S \in SUBSET loaded : DoSegmentation(S)
    \/ \E done \in SUBSET running, reached \in SUBSET (Slices \ {start}), w \in BOOLEAN :
          RunsEnd(done, reached, w)

LEMMA NextSteps ==
    ASSUME [Next]_vars
    PROVE  \/ Calm \/ Grows \/ PenUp \/ ShowAll \/ Open
           \/ \E s \in Segments : Show(s) \/ Hide(s)
           \/ UNCHANGED vars
BY DEF Next, Calm, Grows

LEMMA CalmSteps ==
    ASSUME Calm
    PROVE  Idle /\ UNCHANGED <<loaded, active, swept, cloud, running>>
<1>1. ASSUME NEW s \in Segments, NEW P, NEW first, Drag(s, P, first)
      PROVE  Idle /\ UNCHANGED <<loaded, active, swept, cloud, running>>
  BY <1>1 DEF Drag, tools, package
<1>2. ASSUME NEW S, EvenlySpacePoints(S)
      PROVE  Idle /\ UNCHANGED <<loaded, active, swept, cloud, running>>
  BY <1>2 DEF EvenlySpacePoints, tools, package
<1>3. CASE Undo \/ Redo
  BY <1>3 DEF Undo, Redo, tools, package
<1>4. CASE PenDown \/ PenUpNothingDrawn \/ PenUpTooSmall \/ SegDown
  BY <1>4 DEF PenDown, PenUpNothingDrawn, PenUpTooSmall, SegDown, Lifts, package
<1>5. CASE Save \/ Highlight \/ \E sl \in Slices : ChangeSlice(sl)
  BY <1>5 DEF Save, Highlight, ChangeSlice, tools, package
<1> QED
  BY <1>1, <1>2, <1>3, <1>4, <1>5 DEF Calm

\* The rows on file are rows.
LEMMA SavedRows ==
    ASSUME ToolsTypes, NEW rows, \A s \in Segments : IsRows(rows[s]),
           SavePointCloud(rows) \/ disk' = disk
    PROVE  \A s \in Segments : IsRows(disk'[s])
BY DEF SavePointCloud, ToolsTypes

LEMMA TypesDisk ==
    ASSUME ToolsTypes, [Next]_vars, \A s \in Segments : IsRows(cloud'[s])
    PROVE  \A s \in Segments : IsRows(disk'[s])
<1>1. \A s \in Segments : IsRows(cloud[s]) /\ IsRows(disk[s])
  BY DEF ToolsTypes
<1>2. CASE Save \/ PenUpTooSmall \/ PenUp
  BY <1>1, <1>2, SavedRows DEF Save, PenUpTooSmall, PenUp, saved
<1>3. ASSUME NEW s \in Segments, Show(s) PROVE \A t \in Segments : IsRows(disk'[t])
  BY <1>1, <1>3, SavedRows DEF Show, AskToSave, saved
<1>4. CASE Open
  <2>1. PICK rows : /\ rows = cloud \/ rows = Merged(loaded, now')
                    /\ SavePointCloud(rows) \/ disk' = disk
    BY <1>4 DEF Open, AskToSave
  <2> QED
    BY <1>1, <2>1, MergedRows, SavedRows
<1>5. CASE disk' = disk
  BY <1>1, <1>5
<1>6. CASE Grows
  BY <1>5, <1>6 DEF Grows, SegUp, KeepAndCancel, DoSegmentation, RunsEnd, saved
<1>7. CASE Calm /\ ~(Save \/ PenUpTooSmall)
  BY <1>5, <1>7 DEF Calm, Highlight, ChangeSlice, PenDown, PenUpNothingDrawn, SegDown, Drag,
                    EvenlySpacePoints, Undo, Redo, saved
<1>8. CASE ShowAll \/ (\E s \in Segments : Hide(s)) \/ UNCHANGED vars
  BY <1>5, <1>8 DEF ShowAll, Hide, vars, saved
<1> QED
  BY <1>2, <1>3, <1>4, <1>6, <1>7, <1>8, NextSteps

\* The segments shown and their rows.
LEMMA TypesRows ==
    ASSUME ToolsTypes, [Next]_vars
    PROVE  /\ loaded' \subseteq Segments
           /\ cloud' = [s \in Segments |-> cloud'[s]] /\ \A s \in Segments : IsRows(cloud'[s])
<1>1. /\ loaded \subseteq Segments /\ cloud = [s \in Segments |-> cloud[s]]
      /\ \A s \in Segments : IsRows(cloud[s]) /\ IsRows(disk[s])
  BY DEF ToolsTypes
<1>2. IsRows(NoRows)
  BY DEF IsRows, NoRows
<1>3. \A S : \A s \in Segments : IsRows(Load(S)[s])
  BY <1>1 DEF Load
<1>4. CASE Calm
  BY <1>1, <1>4, CalmSteps
<1>5. CASE Grows
  BY <1>1, <1>5, RowsStay DEF Grows, package
<1>6. CASE PenUp
  <2>1. /\ loaded' = loaded
        /\ \/ cloud' = cloud
           \/ cloud' = [cloud EXCEPT ![active] = [sl \in {shown} |-> Even(now')]]
    BY <1>6 DEF PenUp
  <2>2. IsRows([sl \in {shown} |-> Even(now')])
    BY DEF IsRows
  <2> QED
    BY <1>1, <2>1, <2>2
<1>7. CASE ShowAll
  <2>1. loaded' \subseteq Segments /\ cloud' = Load(Segments)
    BY <1>7 DEF ShowAll
  <2> QED
    BY <1>3, <2>1 DEF Load
<1>8. CASE Open
  BY <1>2, <1>8 DEF Open, CloseVolume
<1>9. ASSUME NEW s \in Segments, Show(s)
      PROVE  /\ loaded' \subseteq Segments
             /\ cloud' = [t \in Segments |-> cloud'[t]] /\ \A t \in Segments : IsRows(cloud'[t])
  <2>1. loaded' \subseteq Segments /\ \E S : cloud' = Erased(Load({s}), S)
    BY <1>1, <1>9 DEF Show, OthersBlank
  <2> QED
    BY <1>2, <1>3, <2>1 DEF Erased
<1>10. ASSUME NEW s \in Segments, Hide(s)
       PROVE  /\ loaded' \subseteq Segments
              /\ cloud' = [t \in Segments |-> cloud'[t]] /\ \A t \in Segments : IsRows(cloud'[t])
  BY <1>1, <1>2, <1>10 DEF Hide, Erased
<1>11. CASE UNCHANGED vars
  BY <1>1, <1>11 DEF vars, package
<1> QED
  BY <1>4, <1>5, <1>6, <1>7, <1>8, <1>9, <1>10, <1>11, NextSteps

LEMMA TypesKept ==
    ASSUME ToolsTypes, [Next]_vars
    PROVE  ToolsTypes'
<1>1. /\ loaded' \subseteq Segments
      /\ cloud' = [s \in Segments |-> cloud'[s]] /\ \A s \in Segments : IsRows(cloud'[s])
  BY TypesRows
<1>2. \A s \in Segments : IsRows(disk'[s])
  BY <1>1, TypesDisk
<1>3. DOMAIN manual = Segments /\ running \subseteq loaded
      /\ {pen, seg, astray, flag, unasked, swept} \subseteq BOOLEAN
  BY DEF ToolsTypes
<1>4. \A rows, file : Unsaved(rows, file) \in BOOLEAN /\ Unsaved(rows, file)' \in BOOLEAN
  BY DEF Unsaved
<1>5. DOMAIN manual' = Segments /\ running' \subseteq loaded'
      /\ {pen, seg, astray, flag, unasked, swept}' \subseteq BOOLEAN
  <2>1. CASE Save \/ Highlight \/ \E sl \in Slices : ChangeSlice(sl)
    BY <1>3, <2>1 DEF Save, Highlight, ChangeSlice, SavePointCloud, Answered, Unsaved, edits, undo, tools, package, saved
  <2>2. CASE PenDown \/ PenUpNothingDrawn \/ PenUpTooSmall \/ SegDown
    BY <1>3, <2>2 DEF PenDown, PenUpNothingDrawn, PenUpTooSmall, SegDown, Lifts, SavePointCloud, Answered,
                      Unsaved, edits, undo, tools, package, saved
  <2>3. ASSUME NEW s \in Segments, NEW P, NEW first, Drag(s, P, first)
        PROVE  DOMAIN manual' = Segments /\ running' \subseteq loaded'
               /\ {pen, seg, astray, flag, unasked, swept}' \subseteq BOOLEAN
    BY <1>3, <2>3 DEF Drag, Push, tools, package, saved
  <2>4. ASSUME NEW S, EvenlySpacePoints(S)
        PROVE  DOMAIN manual' = Segments /\ running' \subseteq loaded'
               /\ {pen, seg, astray, flag, unasked, swept}' \subseteq BOOLEAN
    BY <1>3, <2>4 DEF EvenlySpacePoints, Push, tools, package, saved
  <2>5. CASE Undo
    <3>1. PICK c, t : /\ astray' = (astray \/ c.amiss \/ at <= base \/ ~seg \/ shown # start)
                      /\ manual' = IF t = Gone THEN manual ELSE [manual EXCEPT ![t] = @ \ c.fresh]
                      /\ UNCHANGED <<tools, package, saved>>
      BY <2>5 DEF Undo, Does
    <3>2. (astray \/ c.amiss \/ at <= base \/ ~seg \/ shown # start) \in BOOLEAN
      OBVIOUS
    <3>3. DOMAIN manual' = Segments
      BY <1>3, <3>1
    <3> QED
      BY <1>3, <3>1, <3>2, <3>3 DEF tools, package, saved
  <2>6. CASE Redo
    <3>1. PICK c, t : /\ astray' = (astray \/ c.amiss \/ at < base \/ ~seg \/ shown # start)
                      /\ manual' = IF t = Gone THEN manual ELSE [manual EXCEPT ![t] = @ \cup c.fresh]
                      /\ UNCHANGED <<tools, package, saved>>
      BY <2>6 DEF Redo, Does
    <3>2. (astray \/ c.amiss \/ at < base \/ ~seg \/ shown # start) \in BOOLEAN
      OBVIOUS
    <3>3. DOMAIN manual' = Segments
      BY <1>3, <3>1
    <3> QED
      BY <1>3, <3>1, <3>2, <3>3 DEF tools, package, saved
  <2>7. CASE SegUp
    BY <1>3, <2>7 DEF SegUp, CleanupSegmentation, Forget, Unsaved, package
  <2>8. ASSUME NEW S \in SUBSET loaded, DoSegmentation(S)
        PROVE  DOMAIN manual' = Segments /\ running' \subseteq loaded'
               /\ {pen, seg, astray, flag, unasked, swept}' \subseteq BOOLEAN
    BY <1>3, <2>8 DEF DoSegmentation, CleanupSegmentation, Forget, package, saved
  <2>9. ASSUME NEW done, NEW reached, NEW w, RunsEnd(done, reached, w)
        PROVE  DOMAIN manual' = Segments /\ running' \subseteq loaded'
               /\ {pen, seg, astray, flag, unasked, swept}' \subseteq BOOLEAN
    BY <1>3, <2>9 DEF RunsEnd, CleanupSegmentation, Forget, Flagged, Unsaved, package, saved
  <2>10. CASE KeepAndCancel
    BY <1>3, <2>10 DEF KeepAndCancel, edits, tools, package
  <2>11. CASE PenUp
    BY <1>3, <2>11 DEF PenUp, Lifts, SavePointCloud, Answered, Unsaved, edits, undo, saved
  <2>12. CASE ShowAll
    <3>1. running = {}
      BY <2>12 DEF ShowAll, Idle
    <3> QED
      BY <1>3, <2>12, <3>1 DEF ShowAll, edits, tools, saved
  <2>13. CASE Open
    <3>1. running = {}
      BY <2>13 DEF Open, Idle
    <3> QED
      BY <1>3, <2>13, <3>1 DEF Open, CloseVolume, AskToSave, SavePointCloud, Forget
  <2>14. ASSUME NEW s \in Segments, Show(s)
         PROVE  DOMAIN manual' = Segments /\ running' \subseteq loaded'
                /\ {pen, seg, astray, flag, unasked, swept}' \subseteq BOOLEAN
    <3>1. running = {}
      BY <2>14 DEF Show, Idle
    <3> QED
      BY <1>3, <2>14, <3>1 DEF Show, AskToSave, SavePointCloud, Answered, Unsaved, edits, tools, saved
  <2>15. ASSUME NEW s \in Segments, Hide(s)
         PROVE  DOMAIN manual' = Segments /\ running' \subseteq loaded'
                /\ {pen, seg, astray, flag, unasked, swept}' \subseteq BOOLEAN
    <3>1. running = {}
      BY <2>15 DEF Hide, Idle
    <3> QED
      BY <1>3, <2>15, <3>1 DEF Hide, tools
  <2>16. CASE UNCHANGED vars
    BY <1>3, <2>16 DEF vars, edits, undo, tools, package, saved
  <2> QED
    BY <2>1, <2>2, <2>3, <2>4, <2>5, <2>6, <2>7, <2>8, <2>9, <2>10, <2>11, <2>12, <2>13, <2>14, <2>15, <2>16
    DEF Next
<1> QED
  BY <1>1, <1>2, <1>5 DEF ToolsTypes

\* A blank segment shown after such a step was blank and shown before it.
LEMMA BlankShrinks ==
    ASSUME ToolsTypes, Calm \/ Grows
    PROVE  Blank' \subseteq Blank
<1>1. CASE Calm
  BY <1>1, CalmSteps DEF Blank
<1>2. CASE Grows
  BY <1>2, RowsStay DEF Grows, Blank, package, ToolsTypes
<1> QED
  BY <1>1, <1>2

\* Tool, state of the window and edits.
LEMMA ToolKept ==
    ASSUME ToolsInv, [Next]_vars
    PROVE  ToolInv'
<1> USE DEF ToolInv
<1>1. ToolInv /\ ToolsTypes /\ ToolsTypes'
  BY TypesKept DEF ToolsInv
<1>2. pen \in BOOLEAN /\ seg \in BOOLEAN /\ pen' \in BOOLEAN /\ seg' \in BOOLEAN
  BY <1>1 DEF ToolsTypes
<1>3. CASE Save \/ Highlight \/ \E sl \in Slices : ChangeSlice(sl)
  <2>1. UNCHANGED <<edits, undo, tools, cloud, loaded>>
    BY <1>3, CalmSteps DEF Calm, Save, Highlight, ChangeSlice
  <2> QED
    BY <1>1, <2>1 DEF edits, undo, tools, Blank
<1>4. CASE PenDown
  <2>1. ~seg
    BY <1>1, <1>4 DEF PenDown, PenEnabled
  <2>2. pen' = TRUE /\ seg' = FALSE /\ mode' = "draw" /\ UNCHANGED <<changed, manual, astray, running>>
    BY <1>4 DEF PenDown, edits, undo
  <2> QED
    BY <1>1, <2>1, <2>2
<1>5. CASE PenUpNothingDrawn \/ PenUpTooSmall \/ PenUp
  <2>1. pen /\ pen' = FALSE /\ mode' = "idle" /\ UNCHANGED <<changed, manual, astray, seg, running>>
    BY <1>5 DEF PenUpNothingDrawn, PenUpTooSmall, PenUp, Lifts, edits, undo
  <2> QED
    BY <1>1, <1>2, <2>1
<1>6. CASE SegDown
  <2>1. Blank = {} /\ UNCHANGED <<loaded, cloud>>
    BY <1>6, CalmSteps DEF Calm, SegDown, SegEnabled
  <2>2. /\ pen' = FALSE /\ seg' = TRUE /\ mode' = "segment"
        /\ UNCHANGED <<changed, manual, astray, running>>
    BY <1>6 DEF SegDown
  <2> QED
    BY <1>1, <2>1, <2>2 DEF Blank
<1>7. ASSUME NEW s \in Segments, NEW P \in SUBSET Points \ {{}}, NEW first \in SUBSET P \ {{}}, Drag(s, P, first)
      PROVE  ToolInv'
  <2>1. mode = "segment" /\ UNCHANGED <<tools, astray>>
    BY <1>7 DEF Drag, Push
  <2>2. Blank' \subseteq Blank
    BY <1>1, <1>7, BlankShrinks DEF Calm
  <2>3. seg
    BY <1>1, <1>2, <2>1
  <2> QED
    BY <1>1, <2>1, <2>2, <2>3 DEF tools
<1>8. ASSUME NEW S \in SUBSET loaded \ {{}}, EvenlySpacePoints(S)
      PROVE  ToolInv'
  <2>1. seg /\ UNCHANGED <<tools, astray>>
    BY <1>8 DEF EvenlySpacePoints, Push
  <2>2. Blank' \subseteq Blank
    BY <1>1, <1>8, BlankShrinks DEF Calm
  <2> QED
    BY <1>1, <2>1, <2>2 DEF tools
<1>9. CASE Undo \/ Redo
  <2>1. UNCHANGED tools /\ (seg \/ astray')
    BY <1>9 DEF Undo, Redo
  <2>2. Blank' \subseteq Blank
    BY <1>1, <1>9, BlankShrinks DEF Calm
  <2>3. DOMAIN changed' = DOMAIN changed
    BY <1>9 DEF Undo, Redo, Does, Sets
  <2> QED
    BY <1>1, <2>1, <2>2, <2>3 DEF tools
<1>10. CASE SegUp
  <2>1. /\ seg /\ seg' = FALSE /\ mode' = "idle" /\ pen' = pen /\ running' = running /\ running = {}
        /\ DOMAIN changed' = {} /\ \A s \in Segments : manual'[s] = {}
    BY <1>10 DEF SegUp, CleanupSegmentation, Forget, Idle
  <2> QED
    BY <1>1, <1>2, <2>1
<1>11. ASSUME NEW S \in SUBSET loaded, DoSegmentation(S) PROVE ToolInv'
  <2>1. mode = "segment" /\ pen' = pen /\ running = {}
    BY <1>11 DEF DoSegmentation, Idle
  <2>2. seg /\ ~pen
    BY <1>1, <1>2, <2>1
  <2>3. Blank' \subseteq Blank
    BY <1>1, <1>11, BlankShrinks DEF Grows
  <2>4. CASE CleanupSegmentation /\ UNCHANGED running
    BY <1>1, <2>1, <2>2, <2>4 DEF CleanupSegmentation, Forget
  <2>5. CASE UNCHANGED <<seg, mode, astray>>
    BY <1>1, <2>1, <2>2, <2>3, <2>5
  <2> QED
    BY <1>11, <2>4, <2>5 DEF DoSegmentation
<1>12. ASSUME NEW done, NEW reached, NEW w, RunsEnd(done, reached, w) PROVE ToolInv'
  <2>1. /\ running # {} /\ running' = {} /\ seg' = FALSE /\ mode' = "idle" /\ pen' = pen
        /\ DOMAIN changed' = {} /\ \A s \in Segments : manual'[s] = {}
    BY <1>12 DEF RunsEnd, CleanupSegmentation, Forget
  <2> QED
    BY <1>1, <1>2, <2>1
<1>13. CASE KeepAndCancel
  <2>1. UNCHANGED <<edits, tools>> /\ astray' = TRUE /\ seg
    BY <1>13 DEF KeepAndCancel
  <2>2. Blank' \subseteq Blank
    BY <1>1, <1>13, BlankShrinks DEF Grows
  <2> QED
    BY <1>1, <2>1, <2>2 DEF edits, tools
<1>14. CASE Open
  <2>1. /\ running' = {} /\ seg' = FALSE /\ pen' = FALSE /\ mode' = "idle"
        /\ DOMAIN changed' = {} /\ \A s \in Segments : manual'[s] = {}
    <3>1. Idle /\ CloseVolume
      BY <1>14 DEF Open
    <3>2. changed' = <<>> /\ manual' = [s \in Segments |-> {}] /\ running' = running
      BY <3>1 DEF CloseVolume, Forget
    <3>3. DOMAIN changed' = {} /\ \A s \in Segments : manual'[s] = {}
      BY <3>2
    <3> QED
      BY <3>1, <3>2, <3>3 DEF CloseVolume, Idle
  <2> QED
    BY <2>1
<1>15. CASE ShowAll \/ \E s \in Segments : Show(s)
  <2>1. mode = "idle" /\ UNCHANGED <<tools, edits, astray>>
    BY <1>15 DEF ShowAll, Show
  <2>2. ~seg
    BY <1>1, <1>2, <2>1
  <2> QED
    BY <1>1, <2>1, <2>2 DEF tools, edits
<1>16. ASSUME NEW s \in Segments, Hide(s) PROVE ToolInv'
  <2>1. /\ mode = "idle" /\ UNCHANGED <<tools, astray>>
        /\ DOMAIN changed' = DOMAIN changed \ {s}
        /\ manual' = [manual EXCEPT ![s] = {}]
    BY <1>16 DEF Hide, Restrict
  <2>2. ~seg
    BY <1>1, <1>2, <2>1
  <2>3. \A t \in Segments : manual'[t] # {} => manual[t] # {}
    BY <1>1, <2>1 DEF ToolsTypes
  <2>4. DOMAIN changed' = {}
    BY <1>1, <2>1, <2>2
  <2> QED
    BY <1>1, <2>1, <2>2, <2>3, <2>4 DEF tools
<1>17. CASE UNCHANGED vars
  BY <1>1, <1>17 DEF vars, edits, undo, tools, package, Blank
<1> QED
  BY <1>3, <1>4, <1>5, <1>6, <1>7, <1>8, <1>9, <1>10, <1>11, <1>12, <1>13, <1>14, <1>15, <1>16, <1>17
  DEF Next

LEMMA HiddenKept ==
    ASSUME ToolsInv, [Next]_vars
    PROVE  HiddenInv'
<1>1. ToolsTypes /\ HiddenInv
  BY DEF ToolsInv
<1>2. CASE Calm
  BY <1>1, <1>2, CalmSteps DEF HiddenInv
<1>3. CASE Grows
  BY <1>1, <1>3, RowsStay DEF Grows, HiddenInv, package
<1>4. CASE PenUp
  BY <1>1, <1>4 DEF PenUp, HiddenInv, ToolsTypes
<1>5. CASE Open
  BY <1>5 DEF Open, CloseVolume, HiddenInv
<1>6. CASE ShowAll
  <2>1. cloud' = Load(Segments)
        /\ loaded' = Segments \ {t \in Segments \ {Last(SegmentList)} : Load(Segments)[t] = NoRows}
    BY <1>6 DEF ShowAll
  <2> QED
    BY <2>1 DEF HiddenInv
<1>7. ASSUME NEW s \in Segments, Show(s) PROVE HiddenInv'
  <2> DEFINE out == OthersBlank(s, Load({s}))
  <2>1. cloud' = Erased(Load({s}), out) /\ loaded' = (loaded \ out) \cup {s}
    BY <1>7 DEF Show
  <2>2. ASSUME NEW t \in Segments \ loaded' PROVE cloud'[t] = NoRows
    <3>1. t # s /\ (t \in out \/ t \notin loaded)
      BY <2>1, <2>2
    <3>2. t \notin loaded => Load({s})[t] = NoRows
      BY <1>1, <3>1 DEF Load, HiddenInv
    <3> QED
      BY <2>1, <3>1, <3>2 DEF Erased
  <2> QED
    BY <2>2 DEF HiddenInv
<1>8. ASSUME NEW s \in Segments, Hide(s) PROVE HiddenInv'
  BY <1>1, <1>8 DEF Hide, Erased, HiddenInv
<1>9. CASE UNCHANGED vars
  BY <1>1, <1>9 DEF vars, package, HiddenInv
<1> QED
  BY <1>2, <1>3, <1>4, <1>5, <1>6, <1>7, <1>8, <1>9, NextSteps

\* The pen.
LEMMA PenKept ==
    ASSUME ToolsInv, [Next]_vars
    PROVE  PenInv'
<1>1. ToolsTypes /\ ToolInv /\ PenInv /\ ToolsTypes'
  BY TypesKept DEF ToolsInv
<1>2. pen \in BOOLEAN /\ seg \in BOOLEAN /\ swept \in BOOLEAN
  BY <1>1 DEF ToolsTypes
<1>3. CASE UNCHANGED vars
  BY <1>1, <1>3 DEF vars, tools, package, PenInv, PenDrawsOnTheNew, Blank
<1>4. CASE Calm /\ ~PenDown
  <2>1. Blank' = Blank /\ UNCHANGED <<active, swept>>
    BY <1>4, CalmSteps DEF Blank
  <2>2. pen' => pen
    BY <1>4 DEF Calm, Save, Highlight, ChangeSlice, PenUpNothingDrawn, PenUpTooSmall, SegDown, Lifts, Drag,
                EvenlySpacePoints, Undo, Redo, tools
  <2>3. fate' # "spoilt"
    <3>1. fate = "running"
      BY <1>4, CalmSteps DEF Idle
    <3> QED
      BY <1>4, <3>1 DEF Calm, Save, Highlight, ChangeSlice, PenUpNothingDrawn, PenUpTooSmall, SegDown, Drag,
                EvenlySpacePoints, Undo, Redo, Does, Risky
  <2> QED
    BY <1>1, <2>1, <2>2, <2>3 DEF PenInv, PenDrawsOnTheNew
<1>5. CASE PenDown
  <2>1. Blank' = Blank /\ UNCHANGED <<active, swept>> /\ Blank # {} /\ fate' = fate /\ fate = "running"
    BY <1>5, CalmSteps DEF Calm, PenDown, PenEnabled, Idle, Blank
  <2> QED
    BY <1>1, <2>1 DEF PenInv, PenDrawsOnTheNew
<1>6. CASE Grows
  <2>1. UNCHANGED package /\ Blank' \subseteq Blank
    BY <1>1, <1>6, BlankShrinks, RowsStay DEF Grows
  <2>2. seg /\ pen' = pen /\ fate' # "spoilt"
    BY <1>1, <1>2, <1>6 DEF Grows, SegUp, KeepAndCancel, DoSegmentation, RunsEnd, Risky, Idle, ToolInv,
                            CleanupSegmentation, tools
  <2> QED
    BY <1>1, <2>1, <2>2 DEF PenInv, PenDrawsOnTheNew, ToolInv, package
<1>7. CASE PenUp
  <2>1. pen /\ pen' = FALSE /\ UNCHANGED <<loaded, active, swept>> /\ fate = "running"
    BY <1>7 DEF PenUp, Lifts, Idle
  <2>2. CASE active \in loaded /\ cloud[active] = NoRows
    <3>1. cloud' = [cloud EXCEPT ![active] = [sl \in {shown} |-> Even(now')]] /\ fate' = fate
      BY <1>7, <2>2 DEF PenUp
    <3>2. [sl \in {shown} |-> Even(now')] # NoRows
      <4>1. DOMAIN [sl \in {shown} |-> Even(now')] = {shown} /\ DOMAIN NoRows = {}
        BY DEF NoRows
      <4> QED
        BY <4>1
    <3>3. Blank' \subseteq Blank
      BY <1>1, <2>1, <2>2, <3>1, <3>2 DEF Blank, ToolsTypes
    <3> QED
      BY <1>1, <2>1, <3>1, <3>3 DEF PenInv, PenDrawsOnTheNew
  <2>3. CASE ~(active \in loaded /\ cloud[active] = NoRows)
    <3>1. cloud' = cloud
      BY <1>7, <2>3 DEF PenUp
    <3>2. active \notin Blank
      BY <2>3 DEF Blank
    <3>3. swept
      BY <1>1, <2>1, <3>2 DEF PenInv
    <3> QED
      BY <2>1, <3>3 DEF PenInv, PenDrawsOnTheNew
  <2> QED
    BY <2>2, <2>3
<1>8. CASE ShowAll
  <2>1. swept' = TRUE /\ pen' = pen /\ mode = "idle"
    BY <1>8 DEF ShowAll, tools
  <2>2. ~pen
    BY <1>1, <1>2, <2>1 DEF ToolInv
  <2> QED
    BY <2>1, <2>2 DEF PenInv, PenDrawsOnTheNew
<1>9. CASE Open
  <2>1. loaded' = {} /\ pen' = FALSE /\ fate' # "spoilt"
    BY <1>9 DEF Open, CloseVolume, Risky, Idle
  <2> QED
    BY <2>1 DEF PenInv, PenDrawsOnTheNew, Blank
<1>10. ASSUME NEW s \in Segments, Show(s) PROVE PenInv'
  <2> DEFINE out == OthersBlank(s, Load({s}))
  <2>1. /\ pen' = pen /\ mode = "idle" /\ active' = s /\ fate' = fate /\ fate = "running"
        /\ cloud' = Erased(Load({s}), out) /\ loaded' = (loaded \ out) \cup {s}
    BY <1>10 DEF Show, tools, Idle
  <2>2. ~pen
    BY <1>1, <1>2, <2>1 DEF ToolInv
  <2>3. ASSUME NEW t \in Blank' PROVE t = s
    <3>1. SUFFICES ASSUME t # s PROVE FALSE
      OBVIOUS
    <3>2. t \in loaded /\ t \notin out /\ cloud'[t] = NoRows /\ t \in Segments
      BY <1>1, <2>1, <2>3, <3>1 DEF Blank, ToolsTypes
    <3>3. Load({s})[t] = NoRows
      BY <2>1, <3>2 DEF Erased
    <3> QED
      BY <3>1, <3>2, <3>3 DEF OthersBlank
  <2> QED
    BY <2>1, <2>2, <2>3 DEF PenInv, PenDrawsOnTheNew
<1>11. ASSUME NEW s \in Segments, Hide(s) PROVE PenInv'
  <2>1. /\ UNCHANGED <<tools, active, swept, fate>> /\ mode = "idle" /\ fate = "running"
        /\ loaded' = loaded \ {s} /\ cloud' = Erased(cloud, {s})
    BY <1>11 DEF Hide, Idle
  <2>2. ~pen
    BY <1>1, <1>2, <2>1 DEF ToolInv
  <2>3. Blank' \subseteq Blank
    BY <1>1, <2>1 DEF Blank, Erased, ToolsTypes
  <2> QED
    BY <1>1, <2>1, <2>2, <2>3 DEF PenInv, PenDrawsOnTheNew, tools
<1> QED
  BY <1>3, <1>4, <1>5, <1>6, <1>7, <1>8, <1>9, <1>10, <1>11, NextSteps

\* The starting path.
LEMMA PathKept ==
    ASSUME ToolsInv, [Next]_vars
    PROVE  PathInv'
<1> SUFFICES ASSUME seg', ~astray', Idle'
             PROVE  (\A s \in loaded \ moved : chain[s] = Edited(s))'
  BY DEF PathInv
<1>1. ToolsTypes /\ ToolInv /\ PathInv
  BY DEF ToolsInv
<1>2. pen \in BOOLEAN /\ seg \in BOOLEAN /\ astray \in BOOLEAN
  BY <1>1 DEF ToolsTypes
<1>3. CASE UNCHANGED vars
  BY <1>1, <1>3 DEF vars, edits, undo, tools, package, PathInv, Idle, Edited, Row
<1>4. CASE Save \/ Highlight \/ PenUpNothingDrawn \/ PenUpTooSmall \/ PenUp \/ \E sl \in Slices : ChangeSlice(sl)
  <2>1. CASE Save \/ Highlight \/ \E sl \in Slices : ChangeSlice(sl)
    <3>1. UNCHANGED <<edits, tools, astray, cloud, loaded>> /\ Idle
      BY <2>1, CalmSteps DEF Calm, Save, Highlight, ChangeSlice, undo
    <3> QED
      BY <1>1, <3>1 DEF edits, tools, PathInv, Edited, Row
  <2>2. CASE PenUpNothingDrawn \/ PenUpTooSmall \/ PenUp
    <3>1. pen /\ seg' = seg
      BY <2>2 DEF PenUpNothingDrawn, PenUpTooSmall, PenUp, Lifts
    <3> QED
      BY <1>1, <1>2, <3>1 DEF ToolInv
  <2> QED
    BY <1>4, <2>1, <2>2
<1>5. CASE PenDown \/ SegUp \/ Open
  BY <1>5 DEF PenDown, SegUp, CleanupSegmentation, Open, CloseVolume
<1>6. CASE KeepAndCancel
  BY <1>6 DEF KeepAndCancel
<1>7. CASE SegDown
  <2>1. /\ ~seg /\ start' = shown /\ SplitCloud /\ UNCHANGED <<changed, cloud, loaded>>
    BY <1>7, CalmSteps DEF Calm, SegDown
  <2>2. DOMAIN changed' = {}
    BY <1>1, <2>1 DEF ToolInv
  <2>3. \A s \in loaded : chain'[s] = Row(s, shown)
    BY <1>1, <2>1 DEF SplitCloud, ToolsTypes
  <2>4. \A s \in loaded : Edited(s)' = Row(s, shown)
    BY <2>1, <2>2 DEF Edited, Row
  <2> QED
    BY <2>1, <2>3, <2>4
<1>8. ASSUME NEW s \in Segments, NEW P \in SUBSET Points \ {{}}, NEW first \in SUBSET P \ {{}}, Drag(s, P, first)
      PROVE  (\A t \in loaded \ moved : chain[t] = Edited(t))'
  <2>1. /\ shown = start /\ s \in loaded /\ Curve(s) # NoCurve
        /\ UNCHANGED <<cloud, loaded, start>>
    BY <1>8, CalmSteps DEF Drag, Calm, tools
  <2>2. /\ DOMAIN changed' = loaded
        /\ \A t \in loaded : chain'[t] = changed'[t] /\ (t # s => changed'[t] = Curve(t))
    BY <1>1, <1>8 DEF Drag, ToolsTypes
  <2>3. ASSUME NEW t \in loaded, Row(t, start) = NoCurve
        PROVE  changed'[t] = Row(t, start)
    BY <2>1, <2>2, <2>3 DEF Curve
  <2>4. \A t \in loaded : Row(t, start)' = Row(t, start)
    BY <2>1 DEF Row
  <2> QED
    BY <2>1, <2>2, <2>3, <2>4 DEF Edited
<1>9. ASSUME NEW S \in SUBSET loaded \ {{}}, EvenlySpacePoints(S)
      PROVE  (\A t \in loaded \ moved : chain[t] = Edited(t))'
  <2>1. /\ seg /\ Idle /\ UNCHANGED <<cloud, loaded, start, chain, astray>> /\ moved' = moved \cup S
        /\ DOMAIN changed' = S \cup DOMAIN changed
        /\ \A t \in DOMAIN changed \ S : changed'[t] = changed[t]
    BY <1>9, CalmSteps DEF EvenlySpacePoints, Calm, tools, Push
  <2>2. \A t \in loaded \ moved : chain[t] = Edited(t)
    BY <1>1, <1>2, <2>1 DEF PathInv
  <2>3. \A t \in loaded \ (moved \cup S) : Edited(t)' = Edited(t)
    BY <2>1 DEF Edited, Row
  <2> QED
    BY <2>1, <2>2, <2>3
<1>10. CASE Undo \/ Redo
  <2>1. /\ Idle /\ UNCHANGED <<cloud, loaded, start, chain, seg>> /\ ~astray
    BY <1>2, <1>10, CalmSteps DEF Undo, Redo, Calm, tools
  <2>2. PICK t, positions : Sets(t, positions)
    BY <1>10 DEF Undo, Redo, Does
  <2>3. /\ DOMAIN changed' = DOMAIN changed /\ moved \subseteq moved'
        /\ \A s \in DOMAIN changed : s \notin moved' => changed'[s] = changed[s]
    BY <2>2 DEF Sets
  <2>4. \A s \in loaded \ moved : chain[s] = Edited(s)
    BY <1>1, <2>1 DEF PathInv
  <2>5. \A s \in loaded \ moved' : Edited(s)' = Edited(s)
    BY <2>1, <2>3 DEF Edited, Row
  <2> QED
    BY <2>1, <2>3, <2>4, <2>5
<1>11. ASSUME NEW S \in SUBSET loaded, DoSegmentation(S) PROVE FALSE
  <2> DEFINE R == {s \in S : chain[s] # NoCurve}
  <2>1. (R = {} /\ CleanupSegmentation) \/ (R # {} /\ running' = R)
    BY <1>11 DEF DoSegmentation
  <2> QED
    BY <2>1 DEF CleanupSegmentation, Idle
<1>12. ASSUME NEW done, NEW reached, NEW w, RunsEnd(done, reached, w) PROVE FALSE
  BY <1>12 DEF RunsEnd, CleanupSegmentation
<1>13. CASE ShowAll \/ \E s \in Segments : Show(s) \/ Hide(s)
  <2>1. mode = "idle" /\ seg' = seg
    BY <1>13 DEF ShowAll, Show, Hide, tools
  <2> QED
    BY <1>1, <1>2, <2>1 DEF ToolInv
<1> QED
  BY <1>3, <1>4, <1>5, <1>6, <1>7, <1>8, <1>9, <1>10, <1>11, <1>12, <1>13 DEF Next

\* What is not saved.
LEMMA FlagKept ==
    ASSUME ToolsInv, [Next]_vars
    PROVE  UnsavedIsFlagged'
<1> SUFFICES ASSUME Idle', Unsaved(cloud, disk)'
             PROVE  flag' \/ unasked'
  BY DEF UnsavedIsFlagged
<1>1. ToolsTypes /\ HiddenInv /\ UnsavedIsFlagged
  BY DEF ToolsInv
<1>2. CASE Idle /\ UNCHANGED <<cloud, loaded, saved>>
  BY <1>1, <1>2 DEF UnsavedIsFlagged, Unsaved, saved
<1>3. CASE UNCHANGED vars
  BY <1>1, <1>3 DEF vars, UnsavedIsFlagged, Unsaved, saved, tools, package, Idle
<1>4. CASE Save \/ PenUpTooSmall
  <2>1. UNCHANGED <<cloud, loaded>> /\ unasked' = Unsaved(cloud, disk')
    BY <1>4, CalmSteps DEF Calm, Save, PenUpTooSmall, Answered
  <2> QED
    BY <2>1 DEF Unsaved
<1>5. CASE Calm /\ ~Save /\ ~PenUpTooSmall
  <2>1. UNCHANGED saved
    BY <1>5 DEF Calm, Highlight, ChangeSlice, PenDown, PenUpNothingDrawn, SegDown, Drag, EvenlySpacePoints,
                Undo, Redo
  <2> QED
    BY <1>2, <1>5, <2>1, CalmSteps
<1>6. CASE PenUp
  <2>1. unasked' = Unsaved(cloud', disk') /\ loaded' = loaded
    BY <1>6 DEF PenUp, Answered, Idle
  <2> QED
    BY <2>1 DEF Unsaved
<1>7. CASE SegUp
  <2>1. Idle /\ UNCHANGED <<loaded, disk, flag>>
    BY <1>7 DEF SegUp, package
  <2>2. CASE cloud' = cloud /\ unasked' = unasked
    BY <1>2, <2>1, <2>2 DEF saved
  <2>3. CASE unasked' = (unasked \/ (~flag /\ Unsaved(cloud', disk)))
    BY <2>1, <2>3 DEF Unsaved
  <2> QED
    BY <1>7, <2>2, <2>3 DEF SegUp
<1>8. ASSUME NEW S \in SUBSET loaded, DoSegmentation(S) PROVE flag' \/ unasked'
  <2> DEFINE R == {s \in S : chain[s] # NoCurve}
  <2>1. Idle /\ UNCHANGED <<loaded, saved>>
    BY <1>8 DEF DoSegmentation, package
  <2>2. cloud' = cloud \/ running' # {}
    BY <1>8 DEF DoSegmentation
  <2> QED
    BY <1>2, <2>1, <2>2 DEF Idle
<1>9. ASSUME NEW done, NEW reached, NEW w, RunsEnd(done, reached, w) PROVE flag' \/ unasked'
  <2>1. /\ flag' = (flag \/ done # {})
        /\ unasked' = (unasked \/ (done = {} /\ ~flag /\ Unsaved(cloud', disk)))
        /\ UNCHANGED <<loaded, disk>>
    BY <1>9 DEF RunsEnd, Flagged, package
  <2>2. Unsaved(cloud', disk)
    BY <2>1 DEF Unsaved
  <2> QED
    BY <2>1, <2>2
<1>10. CASE KeepAndCancel
  BY <1>10 DEF KeepAndCancel
<1>11. CASE Open
  <2>1. loaded' = {}
    BY <1>11 DEF Open, CloseVolume
  <2> QED
    BY <2>1 DEF Unsaved
<1>12. CASE ShowAll
  <2>1. Idle /\ UNCHANGED saved /\ cloud' = Load(Segments) /\ loaded' \subseteq Segments
    BY <1>12 DEF ShowAll
  <2>2. PICK s \in loaded' : cloud'[s] # NoRows /\ cloud'[s] # disk[s]
    BY <2>1 DEF Unsaved, saved
  <2>3. cloud[s] # NoRows /\ cloud'[s] = cloud[s]
    BY <2>1, <2>2 DEF Load
  <2>4. s \in loaded
    BY <1>1, <2>1, <2>3 DEF HiddenInv
  <2> QED
    BY <1>1, <2>1, <2>2, <2>3, <2>4 DEF UnsavedIsFlagged, Unsaved, saved
<1>13. ASSUME NEW s \in Segments, Show(s) PROVE flag' \/ unasked'
  <2> DEFINE out == OthersBlank(s, Load({s}))
  <2>1. /\ Idle /\ s \notin loaded
        /\ cloud' = Erased(Load({s}), out) /\ loaded' = (loaded \ out) \cup {s}
        /\ (AskToSave(cloud, flag) /\ Answered(cloud)) \/ UNCHANGED saved
    BY <1>13 DEF Show
  <2>2. PICK t \in loaded' : cloud'[t] # NoRows /\ cloud'[t] # disk'[t]
    BY DEF Unsaved
  <2>3. t \in Segments
    BY <1>1, <2>1 DEF ToolsTypes
  <2>4. disk'[s] = disk[s]
    BY <2>1 DEF AskToSave, SavePointCloud, saved
  <2>5. t # s
    <3>1. cloud[s] = NoRows
      BY <1>1, <2>1 DEF HiddenInv
    <3>2. cloud'[s] \in {NoRows, disk[s]}
      BY <3>1, <2>1 DEF Erased, Load
    <3> QED
      BY <2>2, <2>4, <3>2
  <2>6. t \in loaded /\ cloud[t] = cloud'[t]
    BY <2>1, <2>2, <2>3, <2>5 DEF Erased, Load
  <2>7. CASE Answered(cloud)
    BY <2>2, <2>6, <2>7 DEF Answered, Unsaved
  <2>8. CASE UNCHANGED saved
    BY <1>1, <2>1, <2>2, <2>6, <2>8 DEF UnsavedIsFlagged, Unsaved, saved
  <2> QED
    BY <2>1, <2>7, <2>8
<1>14. ASSUME NEW s \in Segments, Hide(s) PROVE flag' \/ unasked'
  <2>1. /\ Idle /\ loaded' = loaded \ {s} /\ cloud' = Erased(cloud, {s}) /\ UNCHANGED <<disk, flag>>
        /\ unasked' = (unasked /\ \E t \in loaded' : cloud[t] # NoRows /\ cloud[t] # disk[t])
    BY <1>14 DEF Hide
  <2>2. PICK t \in loaded' : cloud'[t] # NoRows /\ cloud'[t] # disk[t]
    BY <2>1 DEF Unsaved
  <2>3. t \in loaded /\ cloud[t] # NoRows /\ cloud[t] # disk[t]
    BY <1>1, <2>1, <2>2 DEF Erased, ToolsTypes
  <2>4. flag \/ unasked
    BY <1>1, <2>1, <2>3 DEF UnsavedIsFlagged, Unsaved
  <2> QED
    BY <2>1, <2>3, <2>4
<1> QED
  BY <1>3, <1>4, <1>5, <1>6, <1>7, <1>8, <1>9, <1>10, <1>11, <1>12, <1>13, <1>14, NextSteps DEF Grows

-----------------------------------------------------------------------------
(***************************************************************************)
(* What the commands on the stack make of a curve.                         *)
(***************************************************************************)
\* The same for any stack st, row and set I of its commands.
MadeIn(row, st, I) ==
    [p \in DOMAIN row |->
        LET movers == {i \in I : p \in DOMAIN st[i].after}
        IN  IF movers = {} THEN row[p] ELSE st[Max(movers)].after[p]]

MarkedIn(st, I) == UNION {st[i].dragged : i \in I}

LEMMA MaxIs ==
    ASSUME NEW S \in SUBSET Int, NEW m \in S, \A i \in S : m >= i
    PROVE  Max(S) = m
<1> DEFINE isMax(x) == x \in S /\ \A y \in S : x >= y
<1>1. isMax(m)
  OBVIOUS
<1>2. Max(S) = CHOOSE x \in S : \A y \in S : x >= y
  BY DEF Max
<1>3. Max(S) \in S /\ \A y \in S : Max(S) >= y
  BY <1>1, <1>2
<1>4. Max(S) >= m /\ m >= Max(S) /\ Max(S) \in Int /\ m \in Int
  BY <1>3
<1> QED
  BY <1>4

\* A set of indices has a greatest one.
LEMMA MaxIsMember ==
    ASSUME NEW n \in Nat, NEW S \in SUBSET (1..n), S # {}
    PROVE  Max(S) \in S
<1> DEFINE T == {n - i : i \in S}
<1>1. T \subseteq Nat /\ T # {}
  OBVIOUS
<1>2. PICK x \in T : \A y \in T : ~ (<<y, x>> \in OpToRel(<, Nat))
  <2> HIDE DEF T
  <2> QED
    BY <1>1, NatLessThanWellFounded, WFMin, Zenon
<1>3. \A y \in T : x <= y
  <2> SUFFICES ASSUME NEW y \in T PROVE x <= y
    OBVIOUS
  <2>1. x \in Nat /\ y \in Nat
    BY <1>1, <1>2
  <2>2. ~(y < x)
    BY <1>2, <2>1, Zenon DEF OpToRel
  <2> QED
    BY <2>1, <2>2
<1>4. PICK m \in S : x = n - m
  BY <1>2
<1>5. ASSUME NEW i \in S PROVE m >= i
  <2>1. n - m <= n - i
    BY <1>3, <1>4
  <2>2. m \in Int /\ i \in Int
    BY <1>4
  <2> QED
    BY <2>1, <2>2
<1> QED
  BY <1>4, <1>5, MaxIs

LEMMA MadeLast ==
    ASSUME NEW row, NEW st, NEW I \in SUBSET Int, NEW j \in Int, \A i \in I : i < j,
           DOMAIN st[j].after \subseteq DOMAIN row
    PROVE  MadeIn(row, st, I \cup {j}) = Over(st[j].after, MadeIn(row, st, I))
<1> DEFINE movers(p) == {i \in I : p \in DOMAIN st[i].after}
           more(p) == {i \in I \cup {j} : p \in DOMAIN st[i].after}
<1>1. ASSUME NEW p \in DOMAIN row
      PROVE  MadeIn(row, st, I \cup {j})[p] =
                IF p \in DOMAIN st[j].after THEN st[j].after[p] ELSE MadeIn(row, st, I)[p]
  <2>1. /\ MadeIn(row, st, I)[p] = IF movers(p) = {} THEN row[p] ELSE st[Max(movers(p))].after[p]
        /\ MadeIn(row, st, I \cup {j})[p] = IF more(p) = {} THEN row[p] ELSE st[Max(more(p))].after[p]
    BY DEF MadeIn
  <2>2. CASE p \in DOMAIN st[j].after
    <3>1. j \in more(p) /\ more(p) \in SUBSET Int /\ \A i \in more(p) : j >= i
      <4>1. j \in more(p) /\ more(p) \in SUBSET Int
        BY <2>2
      <4>2. \A i \in more(p) : i = j \/ i < j
        OBVIOUS
      <4> QED
        BY <4>1, <4>2
    <3>2. Max(more(p)) = j
      BY <3>1, MaxIs
    <3> QED
      BY <2>1, <2>2, <3>1, <3>2
  <2>3. CASE p \notin DOMAIN st[j].after
    <3>1. more(p) = movers(p)
      BY <2>3
    <3> QED
      BY <2>1, <2>3, <3>1
  <2> QED
    BY <2>2, <2>3
<1>2. DOMAIN MadeIn(row, st, I) = DOMAIN row
  BY DEF MadeIn
<1>3. MadeIn(row, st, I \cup {j}) = [p \in DOMAIN row |-> MadeIn(row, st, I \cup {j})[p]]
  BY DEF MadeIn
<1> QED
  BY <1>1, <1>2, <1>3 DEF Over

LEMMA MadeSame ==
    ASSUME NEW row, NEW st, NEW other, NEW n \in Nat, NEW I \in SUBSET (1..n),
           \A i \in I : other[i] = st[i]
    PROVE  MadeIn(row, other, I) = MadeIn(row, st, I) /\ MarkedIn(other, I) = MarkedIn(st, I)
<1>1. ASSUME NEW p \in DOMAIN row
      PROVE  MadeIn(row, other, I)[p] = MadeIn(row, st, I)[p]
  <2> DEFINE movers(q) == {i \in I : p \in DOMAIN q[i].after}
  <2>1. /\ MadeIn(row, st, I)[p] = IF movers(st) = {} THEN row[p] ELSE st[Max(movers(st))].after[p]
        /\ MadeIn(row, other, I)[p] =
              IF movers(other) = {} THEN row[p] ELSE other[Max(movers(other))].after[p]
    BY DEF MadeIn
  <2>2. movers(other) = movers(st)
    OBVIOUS
  <2>3. movers(st) # {} => Max(movers(st)) \in I
    <3> HIDE DEF movers
    <3>1. movers(st) \in SUBSET (1..n) /\ movers(st) \subseteq I
      BY DEF movers
    <3> QED
      BY <3>1, MaxIsMember
  <2> QED
    BY <2>1, <2>2, <2>3
<1>2. /\ MadeIn(row, st, I) = [p \in DOMAIN row |-> MadeIn(row, st, I)[p]]
      /\ MadeIn(row, other, I) = [p \in DOMAIN row |-> MadeIn(row, other, I)[p]]
  BY DEF MadeIn
<1>3. MarkedIn(other, I) = MarkedIn(st, I)
  BY DEF MarkedIn
<1> QED
  BY <1>1, <1>2, <1>3

-----------------------------------------------------------------------------
(***************************************************************************)
(* Curves.                                                                 *)
(***************************************************************************)
AllCurves(rows) == \A s \in Segments : \A sl \in DOMAIN rows[s] : IsCurve(rows[s][sl])

LEMMA SomeCurves ==
    /\ IsCurve(NoCurve) /\ DOMAIN NoCurve = {}
    /\ \A t : IsCurve(Even(t)) /\ DOMAIN Even(t) = Points
    /\ \A c : IsCurve(c) => (c = NoCurve <=> DOMAIN c = {})
<1>1. DOMAIN NoCurve = {} /\ NoCurve = [p \in {} |-> NoCurve[p]]
  BY DEF NoCurve
<1>2. \A t : IsCurve(Even(t)) /\ DOMAIN Even(t) = Points
  BY DEF IsCurve, Even
<1>3. ASSUME NEW c, IsCurve(c), DOMAIN c = {} PROVE c = NoCurve
  <2>1. c = [p \in {} |-> c[p]] /\ NoCurve = [p \in {} |-> c[p]]
    BY <1>3 DEF IsCurve, NoCurve
  <2> QED
    BY <2>1
<1> QED
  BY <1>1, <1>2, <1>3 DEF IsCurve

LEMMA OverCurve ==
    ASSUME NEW c, IsCurve(c), NEW positions
    PROVE  IsCurve(Over(positions, c)) /\ DOMAIN Over(positions, c) = DOMAIN c
BY DEF Over, IsCurve

LEMMA RowCurves ==
    ASSUME CurveTypes, NEW s \in Segments
    PROVE  (\A sl : IsCurve(Row(s, sl))) /\ IsCurve(Curve(s))
<1>1. \A sl : IsCurve(Row(s, sl))
  BY SomeCurves DEF Row, CurveTypes
<1> QED
  BY <1>1 DEF Curve, CurveTypes

LEMMA MergedCurves ==
    ASSUME ToolsTypes, CurveTypes, NEW S, NEW t
    PROVE  AllCurves(Merged(S, t))
<1> SUFFICES ASSUME NEW s \in Segments, NEW sl \in DOMAIN Merged(S, t)[s]
             PROVE  IsCurve(Merged(S, t)[s][sl])
  BY DEF AllCurves
<1>1. Merged(S, t)[s] \in {cloud[s], [cloud[s] EXCEPT ![start] = Even(t)]}
  BY DEF Merged
<1>2. sl \in DOMAIN cloud[s]
  BY <1>1
<1>3. Merged(S, t)[s][sl] \in {cloud[s][sl], Even(t)}
  BY <1>1, <1>2
<1> QED
  BY <1>2, <1>3, SomeCurves DEF CurveTypes

LEMMA CloudCurves ==
    ASSUME ToolsTypes, CurveTypes, [Next]_vars
    PROVE  AllCurves(cloud')
<1>1. /\ loaded \subseteq Segments /\ cloud = [s \in Segments |-> cloud[s]]
      /\ AllCurves(cloud) /\ AllCurves(disk)
  BY DEF ToolsTypes, CurveTypes, AllCurves
<1>2. DOMAIN NoRows = {}
  BY DEF NoRows
<1>3. \A S : AllCurves(Load(S))
  BY <1>1 DEF Load, AllCurves
<1>4. ASSUME NEW rows, AllCurves(rows), NEW S PROVE AllCurves(Erased(rows, S))
  BY <1>2, <1>4 DEF Erased, AllCurves
<1>5. CASE Calm \/ UNCHANGED vars
  BY <1>1, <1>5, CalmSteps DEF vars
<1>6. CASE SegUp \/ KeepAndCancel \/ \E S \in SUBSET loaded : DoSegmentation(S)
  <2>1. cloud' = cloud \/ \E S : cloud' = Merged(S, now')
    BY <1>6 DEF SegUp, KeepAndCancel, DoSegmentation
  <2> QED
    BY <1>1, <2>1, MergedCurves
<1>7. ASSUME NEW done, NEW reached, NEW w, RunsEnd(done, reached, w) PROVE AllCurves(cloud')
  <2> DEFINE after(s) == [sl \in DOMAIN cloud[s] \cup reached |->
                             IF sl \in reached THEN Even(now)
                             ELSE IF sl = start /\ w THEN chain[s] ELSE cloud[s][sl]]
  <2>1. cloud' = [s \in Segments |-> IF s \notin done THEN cloud[s] ELSE after(s)]
    BY <1>7 DEF RunsEnd
  <2>2. ASSUME NEW s \in Segments, NEW sl \in DOMAIN after(s) PROVE IsCurve(after(s)[sl])
    <3>1. after(s)[sl] \in {Even(now), chain[s]} \/ (sl \in DOMAIN cloud[s] /\ after(s)[sl] = cloud[s][sl])
      OBVIOUS
    <3> QED
      BY <3>1, SomeCurves DEF CurveTypes
  <2> HIDE DEF after
  <2>3. \A s \in Segments : cloud'[s] = cloud[s] \/ cloud'[s] = after(s)
    BY <2>1
  <2> QED
    BY <1>1, <2>2, <2>3 DEF AllCurves
<1>8. CASE PenUp
  <2> DEFINE drawn == [sl \in {shown} |-> Even(now')]
  <2>1. cloud' = cloud \/ cloud' = [cloud EXCEPT ![active] = drawn]
    BY <1>8 DEF PenUp
  <2>2. \A s \in Segments : cloud'[s] = cloud[s] \/ cloud'[s] = drawn
    BY <1>1, <2>1
  <2>3. \A sl \in DOMAIN drawn : IsCurve(drawn[sl])
    BY SomeCurves
  <2> HIDE DEF drawn
  <2> QED
    BY <1>1, <2>2, <2>3 DEF AllCurves
<1>9. CASE ShowAll
  BY <1>3, <1>9 DEF ShowAll
<1>10. CASE Open
  BY <1>2, <1>10 DEF Open, CloseVolume, AllCurves
<1>11. CASE \E s \in Segments : Show(s)
  BY <1>3, <1>4, <1>11 DEF Show
<1>12. CASE \E s \in Segments : Hide(s)
  BY <1>1, <1>4, <1>12 DEF Hide
<1> QED
  BY <1>5, <1>6, <1>7, <1>8, <1>9, <1>10, <1>11, <1>12, NextSteps DEF Grows

LEMMA DiskCurves ==
    ASSUME ToolsTypes, CurveTypes, [Next]_vars
    PROVE  AllCurves(disk')
<1>1. AllCurves(cloud) /\ AllCurves(disk) /\ AllCurves(cloud')
  BY CloudCurves DEF CurveTypes, AllCurves
<1>2. ASSUME NEW rows, AllCurves(rows), SavePointCloud(rows) PROVE AllCurves(disk')
  <2>1. \A s \in Segments : disk'[s] = rows[s] \/ disk'[s] = disk[s]
    BY <1>2 DEF SavePointCloud
  <2> QED
    BY <1>1, <1>2, <2>1 DEF AllCurves
<1>3. CASE Save \/ PenUpTooSmall \/ PenUp
  BY <1>1, <1>2, <1>3 DEF Save, PenUpTooSmall, PenUp, saved
<1>4. CASE \E s \in Segments : Show(s)
  BY <1>1, <1>2, <1>4 DEF Show, AskToSave, saved
<1>5. CASE Open
  <2>1. PICK rows : /\ rows = cloud \/ rows = Merged(loaded, now')
                    /\ SavePointCloud(rows) \/ disk' = disk
    BY <1>5 DEF Open, AskToSave
  <2> QED
    BY <1>1, <1>2, <2>1, MergedCurves
<1>6. CASE Grows
  BY <1>1, <1>6 DEF Grows, SegUp, KeepAndCancel, DoSegmentation, RunsEnd, saved
<1>7. CASE Calm /\ ~(Save \/ PenUpTooSmall)
  <2>1. disk' = disk
    BY <1>7 DEF Calm, Highlight, ChangeSlice, PenDown, PenUpNothingDrawn, SegDown, Drag,
                EvenlySpacePoints, Undo, Redo, saved
  <2> QED
    BY <1>1, <2>1
<1>8. CASE ShowAll \/ (\E s \in Segments : Hide(s)) \/ UNCHANGED vars
  BY <1>1, <1>8 DEF ShowAll, Hide, vars, saved
<1> QED
  BY <1>3, <1>4, <1>5, <1>6, <1>7, <1>8, NextSteps

-----------------------------------------------------------------------------
(***************************************************************************)
(* The stack.                                                              *)
(***************************************************************************)
LEMMA ListOf ==
    ASSUME NEW n \in Nat, NEW q, q = [i \in 1..n |-> q[i]]
    PROVE  q \in Seq({q[i] : i \in 1..n}) /\ Len(q) = n /\ IsList(q)
<1> DEFINE T == {q[i] : i \in 1..n}
<1>1. q \in [1..n -> T]
  OBVIOUS
<1>2. q \in Seq(T)
  <2> HIDE DEF T
  <2> QED
    BY <1>1
<1>3. Len(q) = n
  <2> HIDE DEF T
  <2>1. DOMAIN q = 1..n /\ DOMAIN q = 1..Len(q) /\ Len(q) \in Nat
    BY <1>1, <1>2
  <2> QED
    BY <2>1
<1> QED
  BY <1>2, <1>3 DEF IsList

IsJoined(r, st, n, cs) ==
    /\ IsList(r) /\ Len(r) = n + Len(cs)
    /\ \A i \in 1..n : r[i] = st[i]
    /\ \A i \in 1..Len(cs) : r[n + i] = cs[i]

LEMMA Joined ==
    ASSUME NEW st, IsList(st), NEW n \in 0..Len(st), NEW cs, IsList(cs),
           NEW r, r = SubSeq(st, 1, n) \o cs
    PROVE  IsJoined(r, st, n, cs)
<1> DEFINE T == {st[i] : i \in 1..Len(st)} \cup {cs[i] : i \in 1..Len(cs)}
<1>1. st \in Seq({st[i] : i \in 1..Len(st)}) /\ cs \in Seq({cs[i] : i \in 1..Len(cs)})
  BY ListOf DEF IsList
<1>2. st \in Seq(T) /\ cs \in Seq(T)
  <2>1. \A i \in 1..Len(st) : st[i] \in T
    OBVIOUS
  <2>2. \A i \in 1..Len(cs) : cs[i] \in T
    OBVIOUS
  <2>3. Len(st) \in Nat /\ Len(cs) \in Nat /\ DOMAIN st = 1..Len(st) /\ DOMAIN cs = 1..Len(cs)
        /\ st = [i \in 1..Len(st) |-> st[i]] /\ cs = [i \in 1..Len(cs) |-> cs[i]]
    BY DEF IsList
  <2>4. st \in [1..Len(st) -> T] /\ cs \in [1..Len(cs) -> T]
    <3> HIDE DEF T
    <3> QED
      BY <2>1, <2>2, <2>3
  <2> HIDE DEF T
  <2> QED
    BY <2>3, <2>4, SeqDef, Zenon
<1> HIDE DEF T
<1>3. n \in Nat /\ n <= Len(st) /\ Len(st) \in Nat /\ Len(cs) \in Nat
  BY DEF IsList
<1>4. PICK h : h = SubSeq(st, 1, n)
  OBVIOUS
<1>5. h \in Seq(T) /\ Len(h) = n /\ \A i \in 1..n : h[i] = st[i]
  BY <1>2, <1>3, <1>4
<1>6. r = h \o cs
  BY <1>4
<1>7. r \in Seq(T) /\ Len(r) = n + Len(cs)
  BY <1>2, <1>5, <1>6
<1>8. \A i \in 1..n : r[i] = st[i]
  BY <1>2, <1>3, <1>5, <1>6
<1>9. \A i \in 1..Len(cs) : r[n + i] = cs[i]
  BY <1>2, <1>3, <1>5, <1>6
<1> QED
  <2>1. IsList(r)
    BY <1>3, <1>7 DEF IsList
  <2> QED
    BY <1>3, <1>7, <1>8, <1>9, <2>1 DEF IsJoined

LEMMA Pushed ==
    ASSUME StackTypes, NEW cs, IsList(cs), Push(cs)
    PROVE  /\ IsList(stack') /\ at' = at + Len(cs) /\ Len(stack') = at'
           /\ \A i \in 1..at : stack'[i] = stack[i]
           /\ \A i \in 1..Len(cs) : stack'[at + i] = cs[i]
           /\ base' = IF base <= at THEN base ELSE at
           /\ astray' = astray
<1>1. IsList(stack) /\ at \in 0..Len(stack)
  BY DEF StackTypes
<1>2. stack' = SubSeq(stack, 1, at) \o cs /\ at' = at + Len(cs)
      /\ base' = (IF base <= at THEN base ELSE at) /\ astray' = astray
  BY DEF Push
<1>3. IsJoined(stack', stack, at, cs)
  BY <1>1, <1>2, Joined
<1> QED
  BY <1>2, <1>3 DEF IsJoined

\* One command, as a list.
LEMMA OneCommand == \A c : IsList(<<c>>) /\ Len(<<c>>) = 1 /\ <<c>>[1] = c
<1> SUFFICES ASSUME NEW c PROVE IsList(<<c>>) /\ Len(<<c>>) = 1 /\ <<c>>[1] = c
  OBVIOUS
<1>1. <<c>> = [i \in 1..1 |-> <<c>>[i]] /\ <<c>>[1] = c
  OBVIOUS
<1> QED
  BY <1>1, ListOf

\* The segments of a set in the list's order: each of them once.
LEMMA InListOrders ==
    ASSUME NEW S \in SUBSET Segments, NEW order \in InListOrder(S)
    PROVE  /\ IsList(order) /\ DOMAIN order = 1..Len(order)
           /\ \A i \in 1..Len(order) : order[i] \in S
           /\ \A i, j \in 1..Len(order) : order[i] = order[j] => i = j
           /\ \A s \in S : \E i \in 1..Len(order) : order[i] = s
<1>1. IsFiniteSet(Segments)
  <2>1. PICK n \in Nat : SegmentList \in [1..n -> Segments]
    BY ListAssumption, SeqDef
  <2>2. SegmentList \in Surjection(1..n, Segments)
    BY <2>1, ListAssumption DEF Surjection, ToSet
  <2>3. IsFiniteSet(1..n)
    BY FS_Interval
  <2> QED
    BY <2>2, <2>3, FS_Surjection
<1>2. Cardinality(S) \in Nat
  BY <1>1, FS_Subset, FS_CardinalityType
<1>3. PICK n \in Nat : n = Cardinality(S)
  BY <1>2
<1>4. order \in Bijection(1..n, S)
  BY <1>3 DEF InListOrder
<1>5. /\ order \in [1..n -> S]
      /\ \A i, j \in 1..n : order[i] = order[j] => i = j
      /\ \A s \in S : \E i \in 1..n : order[i] = s
  <2>1. order \in Injection(1..n, S) /\ order \in Surjection(1..n, S)
    BY <1>4 DEF Bijection
  <2>2. order \in [1..n -> S] /\ \A i, j \in 1..n : order[i] = order[j] => i = j
    BY <2>1 DEF Injection, IsInjective
  <2>3. \A s \in S : \E i \in 1..n : order[i] = s
    BY <2>1 DEF Surjection
  <2> QED
    BY <2>2, <2>3
<1>6. Len(order) = n /\ IsList(order) /\ DOMAIN order = 1..n
  BY <1>5, ListOf
<1> QED
  BY <1>5, <1>6

\* What a drag pushes.
Dragged(s, P) ==
    /\ Len(stack') = at + 1 /\ at' = at + 1 /\ IsList(stack')
    /\ \A i \in 1..at : stack'[i] = stack[i]
    /\ base' = (IF base <= at THEN base ELSE at) /\ astray' = astray
    /\ stack'[at + 1].seg = s /\ stack'[at + 1].dragged = P
    /\ stack'[at + 1].before = Restrict(Curve(s), P)
    /\ stack'[at + 1].after = [p \in P |-> now']
    /\ stack'[at + 1].amiss \/ stack'[at + 1].fresh = P \ manual[s]

LEMMA DragPushes ==
    ASSUME StackTypes, NEW s, NEW P, NEW first, Drag(s, P, first)
    PROVE  Dragged(s, P)
<1> DEFINE c == [seg |-> s, before |-> Before(s, P), after |-> [p \in P |-> now'],
                 fresh |-> Fresh(s, P, first), dragged |-> P,
                 amiss |-> Fresh(s, P, first) # P \ manual[s]]
<1>1. Push(<<c>>)
  BY DEF Drag
<1>2. PICK d : d = c
  OBVIOUS
<1>3. Push(<<d>>)
  BY <1>1, <1>2
<1>4. /\ d.seg = s /\ d.before = Restrict(Curve(s), P) /\ d.after = [p \in P |-> now']
      /\ d.dragged = P /\ (d.amiss \/ d.fresh = P \ manual[s])
  BY <1>2 DEF Before
<1>5. IsList(<<d>>) /\ Len(<<d>>) = 1 /\ <<d>>[1] = d
  BY OneCommand
<1>6. /\ IsList(stack') /\ at' = at + 1 /\ Len(stack') = at'
      /\ \A i \in 1..at : stack'[i] = stack[i]
      /\ stack'[at + 1] = d
      /\ base' = (IF base <= at THEN base ELSE at)
      /\ astray' = astray
  <2>1. /\ IsList(stack') /\ at' = at + Len(<<d>>) /\ Len(stack') = at'
        /\ \A i \in 1..at : stack'[i] = stack[i]
        /\ \A i \in 1..Len(<<d>>) : stack'[at + i] = <<d>>[i]
        /\ base' = (IF base <= at THEN base ELSE at)
        /\ astray' = astray
    BY <1>3, <1>5, Pushed
  <2>2. 1 \in 1..Len(<<d>>)
    BY <1>5
  <2> QED
    BY <1>5, <2>1, <2>2
<1> QED
  BY <1>4, <1>6 DEF Dragged

\* What evening out the curves of S pushes, in some order q.
Evened(S, q) ==
    /\ IsList(stack') /\ Len(stack') = at + Len(q) /\ at' = at + Len(q) /\ Len(q) \in Nat
    /\ \A i \in 1..at : stack'[i] = stack[i]
    /\ base' = (IF base <= at THEN base ELSE at) /\ astray' = astray
    /\ \A k \in 1..Len(q) :
          /\ q[k] \in S
          /\ stack'[at + k].seg = q[k] /\ stack'[at + k].dragged = {} /\ stack'[at + k].fresh = {}
          /\ stack'[at + k].before = Curve(q[k])
          /\ stack'[at + k].after = changed'[q[k]]
    /\ \A i, k \in 1..Len(q) : q[i] = q[k] => i = k
    /\ \A s \in S : \E k \in 1..Len(q) : q[k] = s

LEMMA EvenlyPushes ==
    ASSUME ToolsTypes, StackTypes, NEW S \in SUBSET loaded, EvenlySpacePoints(S)
    PROVE  /\ DOMAIN changed' = S \cup DOMAIN changed
           /\ changed' = [s \in DOMAIN changed' |-> changed'[s]]
           /\ \A s \in S : changed'[s] = IF Curve(s) = NoCurve THEN NoCurve ELSE Even(now')
           /\ \A s \in DOMAIN changed \ S : changed'[s] = changed[s]
           /\ \E q : Evened(S, q)
<1> DEFINE even == [s \in S |-> IF Curve(s) = NoCurve THEN NoCurve ELSE Even(now')]
           command(s) == [seg |-> s, before |-> Curve(s), after |-> even[s],
                          fresh |-> {}, dragged |-> {}, amiss |-> FALSE]
<1>1. changed' = [s \in S \cup DOMAIN changed |-> IF s \in S THEN even[s] ELSE changed[s]]
  BY DEF EvenlySpacePoints
<1>2. PICK q \in InListOrder(S) : Push([i \in DOMAIN q |-> command(q[i])])
  BY DEF EvenlySpacePoints
<1>3. S \in SUBSET Segments
  BY DEF ToolsTypes
<1>4. /\ DOMAIN q = 1..Len(q) /\ Len(q) \in Nat
      /\ \A i \in 1..Len(q) : q[i] \in S
      /\ \A i, j \in 1..Len(q) : q[i] = q[j] => i = j
      /\ \A s \in S : \E i \in 1..Len(q) : q[i] = s
  BY <1>2, <1>3, InListOrders DEF IsList
<1>5. \A s \in S : changed'[s] = even[s]
  BY <1>1
<1>6. PICK cs : cs = [i \in DOMAIN q |-> command(q[i])]
  OBVIOUS
<1>7. ASSUME NEW k \in 1..Len(q)
      PROVE  /\ cs[k].seg = q[k] /\ cs[k].dragged = {} /\ cs[k].fresh = {}
             /\ cs[k].before = Curve(q[k]) /\ cs[k].after = changed'[q[k]]
  <2>1. cs[k] = command(q[k])
    BY <1>4, <1>6
  <2>2. changed'[q[k]] = even[q[k]]
    BY <1>4, <1>5
  <2> HIDE DEF even
  <2> QED
    BY <2>1, <2>2
<1>8. cs = [i \in 1..Len(q) |-> cs[i]]
  BY <1>4, <1>6
<1>9. IsList(cs) /\ Len(cs) = Len(q)
  BY <1>4, <1>8, ListOf
<1>10. Push(cs)
  BY <1>2, <1>6
<1>11. /\ IsList(stack') /\ at' = at + Len(cs) /\ Len(stack') = at'
       /\ \A i \in 1..at : stack'[i] = stack[i]
       /\ \A i \in 1..Len(cs) : stack'[at + i] = cs[i]
       /\ base' = (IF base <= at THEN base ELSE at)
       /\ astray' = astray
  BY <1>9, <1>10, Pushed
<1> HIDE DEF even, command
<1>12. Evened(S, q)
  BY <1>4, <1>7, <1>9, <1>11 DEF Evened
<1>13. DOMAIN changed' = S \cup DOMAIN changed /\ changed' = [s \in DOMAIN changed' |-> changed'[s]]
       /\ \A s \in DOMAIN changed \ S : changed'[s] = changed[s]
  BY <1>1
<1> QED
  BY <1>5, <1>12, <1>13 DEF even

-----------------------------------------------------------------------------
(***************************************************************************)
(* Types of the buffers.                                                   *)
(***************************************************************************)
LEMMA ChainCurves ==
    ASSUME ToolsTypes, CurveTypes, [Next]_vars,
           DOMAIN changed' \subseteq Segments => \A s \in DOMAIN changed' : IsCurve(changed'[s])
    PROVE  DOMAIN chain' = Segments /\ \A s \in Segments : IsCurve(chain'[s])
<1>1. DOMAIN chain = Segments /\ \A s \in Segments : IsCurve(chain[s])
  BY DEF CurveTypes
<1>2. loaded \subseteq Segments
  BY DEF ToolsTypes
<1>3. CASE SegDown
  BY <1>3, SomeCurves, RowCurves DEF SegDown, SplitCloud
<1>4. ASSUME NEW s, NEW P, NEW first, Drag(s, P, first)
      PROVE  DOMAIN chain' = Segments /\ \A t \in Segments : IsCurve(chain'[t])
  <2>1. DOMAIN changed' = loaded /\ chain' = [t \in Segments |-> IF t \in loaded THEN changed'[t] ELSE NoCurve]
    BY <1>4 DEF Drag
  <2> QED
    BY <1>2, <2>1, SomeCurves
<1>5. CASE Open
  BY <1>5, SomeCurves DEF Open, CloseVolume
<1>6. CASE \E s \in Segments : Hide(s)
  BY <1>1, <1>6, SomeCurves DEF Hide
<1>7. CASE chain' = chain
  BY <1>1, <1>7
<1>8. CASE Calm /\ ~SegDown /\ ~\E s, P, first : Drag(s, P, first)
  <2>1. chain' = chain
    BY <1>8 DEF Calm, Save, Highlight, ChangeSlice, PenDown, PenUpNothingDrawn, PenUpTooSmall,
                EvenlySpacePoints, Undo, Redo, edits
  <2> QED
    BY <1>7, <2>1
<1>9. CASE Grows \/ PenUp
  BY <1>7, <1>9 DEF Grows, SegUp, KeepAndCancel, DoSegmentation, RunsEnd, PenUp, edits
<1>10. CASE ShowAll \/ (\E s \in Segments : Show(s)) \/ UNCHANGED vars
  BY <1>7, <1>10 DEF ShowAll, Show, vars, edits
<1> QED
  BY <1>3, <1>4, <1>5, <1>6, <1>8, <1>9, <1>10, NextSteps

LEMMA ChangedCurves ==
    ASSUME ToolsTypes, CurveTypes, StackTypes, [Next]_vars
    PROVE  changed' = [s \in DOMAIN changed' |-> changed'[s]] /\ \A s \in DOMAIN changed' : IsCurve(changed'[s])
<1>1. changed = [s \in DOMAIN changed |-> changed[s]] /\ \A s \in DOMAIN changed : IsCurve(changed[s])
  BY DEF CurveTypes
<1>2. loaded \subseteq Segments
  BY DEF ToolsTypes
<1>3. \A t \in loaded : IsCurve(Curve(t))
  BY <1>2, RowCurves
<1>4. CASE changed' = <<>>
  <2>1. DOMAIN changed' = {} /\ changed' = [s \in {} |-> changed'[s]]
    BY <1>4
  <2> QED
    BY <2>1
<1>5. ASSUME NEW S, changed' = Restrict(changed, S), S \subseteq DOMAIN changed
      PROVE  changed' = [s \in DOMAIN changed' |-> changed'[s]] /\ \A s \in DOMAIN changed' : IsCurve(changed'[s])
  BY <1>1, <1>5 DEF Restrict
<1>6. ASSUME NEW s, NEW P, NEW first, Drag(s, P, first)
      PROVE  changed' = [t \in DOMAIN changed' |-> changed'[t]] /\ \A t \in DOMAIN changed' : IsCurve(changed'[t])
  <2> DEFINE dragged == [p \in Points |-> IF p \in P THEN now' ELSE Curve(s)[p]]
  <2>1. changed' = [t \in loaded |-> IF t = s THEN dragged ELSE Curve(t)]
    BY <1>6 DEF Drag
  <2>2. IsCurve(dragged)
    BY DEF IsCurve
  <2> HIDE DEF dragged
  <2> QED
    BY <1>3, <2>1, <2>2
<1>7. ASSUME NEW S \in SUBSET loaded, EvenlySpacePoints(S)
      PROVE  changed' = [t \in DOMAIN changed' |-> changed'[t]] /\ \A t \in DOMAIN changed' : IsCurve(changed'[t])
  <2>1. /\ DOMAIN changed' = S \cup DOMAIN changed
        /\ changed' = [s \in DOMAIN changed' |-> changed'[s]]
        /\ \A s \in S : changed'[s] \in {NoCurve, Even(now')}
        /\ \A s \in DOMAIN changed \ S : changed'[s] = changed[s]
    BY <1>7, EvenlyPushes
  <2> QED
    BY <1>1, <2>1, SomeCurves
<1>8. CASE Undo \/ Redo
  <2>1. PICK t, positions : Sets(t, positions)
    BY <1>8 DEF Undo, Redo, Does
  <2>2. changed' = changed \/ (t \in DOMAIN changed /\ changed' = [changed EXCEPT ![t] = Over(positions, changed[t])])
    BY <2>1 DEF Sets
  <2>3. t \in DOMAIN changed => IsCurve(Over(positions, changed[t]))
    BY <1>1, OverCurve
  <2> QED
    BY <1>1, <2>2, <2>3
<1>9. CASE changed' = changed
  BY <1>1, <1>9
<1>10. CASE Save \/ Highlight \/ (\E sl \in Slices : ChangeSlice(sl)) \/ PenDown \/ PenUpNothingDrawn
            \/ PenUpTooSmall \/ PenUp \/ SegDown \/ KeepAndCancel \/ ShowAll \/ (\E s \in Segments : Show(s))
            \/ UNCHANGED vars
  BY <1>9, <1>10 DEF Save, Highlight, ChangeSlice, PenDown, PenUpNothingDrawn, PenUpTooSmall, PenUp, SegDown,
                     KeepAndCancel, ShowAll, Show, vars, edits
<1>11. CASE SegUp \/ Open \/ \E done, reached, w : RunsEnd(done, reached, w)
  BY <1>4, <1>11 DEF SegUp, CleanupSegmentation, Forget, Open, CloseVolume, RunsEnd
<1>12. ASSUME NEW S \in SUBSET loaded, DoSegmentation(S)
       PROVE  changed' = [s \in DOMAIN changed' |-> changed'[s]] /\ \A s \in DOMAIN changed' : IsCurve(changed'[s])
  <2>1. changed' = <<>> \/ \E R : changed' = Restrict(changed, DOMAIN changed \ R)
    BY <1>12 DEF DoSegmentation, CleanupSegmentation, Forget
  <2> QED
    BY <1>4, <1>5, <2>1
<1>13. CASE \E s \in Segments : Hide(s)
  BY <1>5, <1>13 DEF Hide
<1> QED
  BY <1>6, <1>7, <1>8, <1>10, <1>11, <1>12, <1>13, NextSteps DEF Calm, Grows

LEMMA StackKept ==
    ASSUME ToolsTypes, StackTypes, [Next]_vars
    PROVE  StackTypes'
<1>1. /\ Len(stack) \in Nat /\ DOMAIN stack = 1..Len(stack) /\ IsList(stack)
      /\ at \in 0..Len(stack) /\ base \in 0..Len(stack)
  BY DEF IsList, StackTypes
<1>2. ASSUME NEW S, Dangle(S) PROVE IsList(stack') /\ Len(stack') = Len(stack)
  <2>1. stack' = [i \in 1..Len(stack) |-> stack'[i]]
    BY <1>1, <1>2 DEF Dangle
  <2> QED
    BY <1>1, <2>1, ListOf
<1>3. CASE Save \/ Highlight \/ (\E sl \in Slices : ChangeSlice(sl)) \/ PenDown \/ PenUpNothingDrawn
           \/ PenUpTooSmall \/ PenUp \/ KeepAndCancel \/ UNCHANGED vars
  <2>1. UNCHANGED <<stack, at, base>>
    BY <1>3 DEF Save, Highlight, ChangeSlice, PenDown, PenUpNothingDrawn, PenUpTooSmall, PenUp,
                KeepAndCancel, vars, undo
  <2> QED
    BY <1>1, <2>1 DEF StackTypes
<1>4. CASE SegDown \/ (\E S \in SUBSET loaded : DoSegmentation(S)) \/ \E done, reached, w : RunsEnd(done, reached, w)
  <2>1. UNCHANGED <<stack, at>> /\ base' \in {base, Len(stack)}
    BY <1>4 DEF SegDown, DoSegmentation, RunsEnd
  <2> QED
    BY <1>1, <2>1 DEF StackTypes
<1>5. CASE SegUp
  <2>1. stack' = <<>> /\ at' = 0 /\ base' = 0
    BY <1>5 DEF SegUp
  <2>2. IsList(<<>>) /\ Len(<<>>) = 0
    BY DEF IsList
  <2> QED
    BY <2>1, <2>2 DEF StackTypes
<1>6. ASSUME NEW s, NEW P, NEW first, Drag(s, P, first) PROVE StackTypes'
  <2>1. Dragged(s, P)
    BY <1>6, DragPushes
  <2>2. base' \in 0..at
    BY <1>1, <2>1 DEF Dragged
  <2> QED
    BY <1>1, <2>1, <2>2 DEF Dragged, StackTypes
<1>7. ASSUME NEW S \in SUBSET loaded, EvenlySpacePoints(S) PROVE StackTypes'
  <2>1. PICK q : Evened(S, q)
    BY <1>7, EvenlyPushes
  <2>2. base' \in 0..at
    BY <1>1, <2>1 DEF Evened
  <2> QED
    BY <1>1, <2>1, <2>2 DEF Evened, StackTypes
<1>8. CASE Undo \/ Redo
  <2>1. /\ UNCHANGED <<stack, base>>
        /\ (at > 0 /\ at' = at - 1) \/ (at < Len(stack) /\ at' = at + 1)
    BY <1>8 DEF Undo, Redo
  <2> QED
    BY <1>1, <2>1 DEF StackTypes
<1>9. CASE ShowAll \/ Open \/ \E s \in Segments : Show(s) \/ Hide(s)
  <2>1. UNCHANGED <<at, base>> /\ \E S : Dangle(S)
    BY <1>9 DEF ShowAll, Open, CloseVolume, Show, Hide
  <2> QED
    BY <1>1, <1>2, <2>1 DEF StackTypes
<1> QED
  BY <1>3, <1>4, <1>5, <1>6, <1>7, <1>8, <1>9, NextSteps DEF Calm, Grows

LEMMA CurveTypesKept ==
    ASSUME ToolsTypes, CurveTypes, StackTypes, [Next]_vars
    PROVE  CurveTypes'
<1>1. changed' = [s \in DOMAIN changed' |-> changed'[s]] /\ \A s \in DOMAIN changed' : IsCurve(changed'[s])
  BY ChangedCurves
<1>2. DOMAIN chain' = Segments /\ \A s \in Segments : IsCurve(chain'[s])
  BY <1>1, ChainCurves
<1>3. AllCurves(cloud') /\ AllCurves(disk')
  BY CloudCurves, DiskCurves
<1> QED
  BY <1>1, <1>2, <1>3 DEF CurveTypes, AllCurves

-----------------------------------------------------------------------------
(***************************************************************************)
(* Undoing and redoing.                                                    *)
(***************************************************************************)
LEMMA MadeDefs ==
    \A s, n : /\ Made(s, n) = MadeIn(Row(s, start), stack, Of(s, n))
              /\ Made(s, n)' = MadeIn(Row(s, start)', stack', Of(s, n)')
              /\ Marked(s, n) = MarkedIn(stack, Of(s, n))
              /\ Marked(s, n)' = MarkedIn(stack', Of(s, n)')
              /\ DOMAIN Made(s, n) = DOMAIN Row(s, start)
              /\ Made(s, n) = [p \in DOMAIN Row(s, start) |-> Made(s, n)[p]]
BY DEF Made, MadeIn, Marked, MarkedIn

\* What older commands make stays what it was when they stay where they are.
LEMMA OlderMade ==
    ASSUME StackTypes, UNCHANGED <<cloud, start>>,
           \A i \in 1..at : stack'[i] = stack[i],
           base' = IF base <= at THEN base ELSE at,
           NEW s, NEW k \in Int, k <= at
    PROVE  Of(s, k)' = Of(s, k) /\ Made(s, k)' = Made(s, k) /\ Marked(s, k)' = Marked(s, k)
<1>1. at \in Nat /\ base \in Nat /\ base' \in Nat
  BY DEF StackTypes, IsList
<1>2. Of(s, k) \in SUBSET (1..at)
  BY <1>1 DEF Of
<1>3. Of(s, k)' = Of(s, k)
  <2>1. \A i : i \in (base' + 1)..k <=> i \in (base + 1)..k
    BY <1>1
  <2>2. \A i \in (base + 1)..k : stack'[i] = stack[i]
    BY <1>1
  <2> QED
    BY <2>1, <2>2 DEF Of
<1>4. Row(s, start)' = Row(s, start)
  BY DEF Row
<1>5. \A i \in Of(s, k) : stack'[i] = stack[i]
  BY <1>2
<1>6. /\ MadeIn(Row(s, start), stack', Of(s, k)) = MadeIn(Row(s, start), stack, Of(s, k))
      /\ MarkedIn(stack', Of(s, k)) = MarkedIn(stack, Of(s, k))
  BY <1>1, <1>2, <1>5, MadeSame
<1> QED
  BY <1>3, <1>4, <1>6, MadeDefs

\* The same where neither stack nor rows change.
LEMMA SameMade ==
    ASSUME UNCHANGED <<cloud, start, stack, base>>
    PROVE  \A s, k : Of(s, k)' = Of(s, k) /\ Made(s, k)' = Made(s, k) /\ Marked(s, k)' = Marked(s, k)
<1>1. \A s, k : Of(s, k)' = Of(s, k)
  BY DEF Of
<1>2. \A s : Row(s, start)' = Row(s, start)
  BY DEF Row
<1> QED
  BY <1>1, <1>2, MadeDefs

\* One command more.
OneMore(row, st, I, j) ==
    /\ MadeIn(row, st, I \cup {j}) = Over(st[j].after, MadeIn(row, st, I))
    /\ MarkedIn(st, I \cup {j}) = MarkedIn(st, I) \cup st[j].dragged

LEMMA NextMade ==
    ASSUME NEW st, NEW row, NEW I \in SUBSET Int, NEW j \in Int, \A i \in I : i < j,
           DOMAIN st[j].after \subseteq DOMAIN row
    PROVE  OneMore(row, st, I, j)
<1>1. MadeIn(row, st, I \cup {j}) = Over(st[j].after, MadeIn(row, st, I))
  BY MadeLast
<1>2. MarkedIn(st, I \cup {j}) = MarkedIn(st, I) \cup st[j].dragged
  BY DEF MarkedIn
<1> QED
  BY <1>1, <1>2 DEF OneMore

LEMMA CurveIsMade ==
    ASSUME ToolsTypes, CurveTypes, StackTypes, Replays, shown = start, NEW s \in loaded
    PROVE  Curve(s) = Made(s, at)
<1>1. s \in Segments /\ IsCurve(Row(s, start))
  BY RowCurves DEF ToolsTypes
<1>2. CASE s \in DOMAIN changed /\ Row(s, start) # NoCurve
  BY <1>2 DEF Curve, Replays
<1>3. CASE s \in DOMAIN changed /\ Row(s, start) = NoCurve
  <2>1. Curve(s) = NoCurve
    BY <1>3 DEF Curve
  <2>2. IsCurve(Made(s, at)) /\ DOMAIN Made(s, at) = {}
    BY <1>3, MadeDefs, SomeCurves DEF IsCurve
  <2> QED
    BY <2>1, <2>2, SomeCurves
<1>4. CASE s \notin DOMAIN changed
  <2>1. Curve(s) = Row(s, start)
    BY <1>4 DEF Curve
  <2>2. Of(s, at) = {}
    <3>1. at \in 0..Len(stack) /\ base \in Nat /\ Len(stack) \in Nat
      BY DEF StackTypes, IsList
    <3>2. \A i \in Of(s, at) : i \in (base + 1)..Len(stack) /\ stack[i].seg = s
      BY <3>1 DEF Of
    <3> QED
      BY <1>4, <3>2 DEF Replays, Fits
  <2>3. Made(s, at) = [p \in DOMAIN Row(s, start) |-> Row(s, start)[p]]
    BY <2>2 DEF Made
  <2> QED
    BY <1>1, <2>1, <2>3 DEF IsCurve
<1> QED
  BY <1>2, <1>3, <1>4

\* A command older than a push fits as it did.
LEMMA OlderFits ==
    ASSUME ToolsTypes, StackTypes, Replays, UNCHANGED <<cloud, start>>,
           \A i \in 1..at : stack'[i] = stack[i],
           base' = IF base <= at THEN base ELSE at,
           DOMAIN changed \subseteq DOMAIN changed',
           NEW i \in (base' + 1)..at
    PROVE  Fits(i)'
<1>1. at \in 0..Len(stack) /\ base \in Nat /\ Len(stack) \in Nat
  BY DEF StackTypes, IsList
<1>2. i \in (base + 1)..Len(stack) /\ i \in 1..at /\ i - 1 \in Int /\ i - 1 <= at
  BY <1>1
<1>3. stack'[i] = stack[i]
  BY <1>2
<1>4. PICK c : c = stack[i]
  OBVIOUS
<1>5. /\ c.seg \in DOMAIN changed
      /\ DOMAIN c.after = DOMAIN c.before /\ DOMAIN c.after \subseteq DOMAIN Row(c.seg, start)
      /\ c.before = Restrict(Made(c.seg, i - 1), DOMAIN c.before)
      /\ c.amiss \/ c.fresh = c.dragged \ Marked(c.seg, i - 1)
  BY <1>2, <1>4 DEF Replays, Fits
<1>6. Made(c.seg, i - 1)' = Made(c.seg, i - 1) /\ Marked(c.seg, i - 1)' = Marked(c.seg, i - 1)
  BY <1>2, OlderMade
<1>7. Row(c.seg, start)' = Row(c.seg, start)
  BY DEF Row
<1> QED
  BY <1>3, <1>4, <1>5, <1>6, <1>7 DEF Fits

LEMMA DragReplays ==
    ASSUME ToolsTypes, CurveTypes, StackTypes, Replays,
           NEW s \in Segments, NEW P \in SUBSET Points, NEW first, Drag(s, P, first)
    PROVE  Replays'
<1>0. PICK a, j : a = at /\ j = at + 1
  OBVIOUS
<1> DEFINE now2 == [p \in P |-> now']
<1>1. /\ shown = start /\ s \in loaded /\ Curve(s) # NoCurve
      /\ UNCHANGED <<cloud, start, loaded>>
      /\ manual' = [manual EXCEPT ![s] = @ \cup P]
      /\ changed' = [t \in loaded |->
            IF t = s THEN [p \in Points |-> IF p \in P THEN now' ELSE Curve(s)[p]] ELSE Curve(t)]
  BY DEF Drag, tools, package
<1>2. Dragged(s, P)
  BY DragPushes
<1>3. a \in 0..Len(stack) /\ base \in Nat /\ Len(stack) \in Nat /\ loaded \subseteq Segments
      /\ DOMAIN manual = Segments
  BY <1>0 DEF StackTypes, IsList, ToolsTypes
<1>4. /\ Len(stack') = j /\ at' = j
      /\ \A i \in 1..a : stack'[i] = stack[i]
      /\ base' = IF base <= a THEN base ELSE a
  BY <1>0, <1>2 DEF Dragged
<1>5. /\ stack'[j].seg = s /\ stack'[j].dragged = P
      /\ stack'[j].before = Restrict(Curve(s), P) /\ stack'[j].after = now2
      /\ stack'[j].amiss \/ stack'[j].fresh = P \ manual[s]
  BY <1>0, <1>2 DEF Dragged
<1>6. /\ a \in Int /\ j \in Int /\ a <= a /\ j - 1 = a /\ base' \in 0..a
      /\ (base' + 1)..j = ((base' + 1)..a) \cup {j} /\ j \notin (base' + 1)..a
  <2>1. a \in Int /\ j \in Int /\ a <= a /\ j - 1 = a /\ j = a + 1
    BY <1>0, <1>3
  <2>2. base' \in 0..a
    BY <1>3, <1>4
  <2>3. PICK b \in 0..a : b = base'
    BY <2>2
  <2>4. (b + 1)..j = ((b + 1)..a) \cup {j} /\ j \notin (b + 1)..a
    <3>1. a \in Nat
      BY <1>0, <1>3
    <3>2. \A i : i \in (b + 1)..(a + 1) <=> i \in (b + 1)..a \/ i = a + 1
      BY <2>3, <3>1
    <3>3. j \notin (b + 1)..a
      BY <2>1, <3>1
    <3>4. \A i : i \in (b + 1)..j <=> i \in ((b + 1)..a) \cup {j}
      BY <2>1, <3>2
    <3> HIDE DEF now2
    <3> QED
      BY <3>3, <3>4, Zenon
  <2> QED
    BY <2>1, <2>2, <2>3, <2>4
<1>7. \A t : Of(t, a)' = Of(t, a) /\ Made(t, a)' = Made(t, a) /\ Marked(t, a)' = Marked(t, a)
  BY <1>0, <1>1, <1>4, <1>6, OlderMade
<1>8. \A t : Row(t, start)' = Row(t, start)
  BY <1>1 DEF Row
<1>9. \A t : {i \in (base' + 1)..a : stack'[i].seg = t} = Of(t, a)
  BY <1>0, <1>7 DEF Of
<1>10. \A t : Of(t, j)' = IF t = s THEN Of(t, a) \cup {j} ELSE Of(t, a)
  <2>1. \A t : Of(t, j)' = {i \in (base' + 1)..j : stack'[i].seg = t}
    BY DEF Of
  <2>2. PICK J : J = (base' + 1)..a
    OBVIOUS
  <2>3. (base' + 1)..j = J \cup {j}
    BY <1>6, <2>2
  <2>4. \A t : Of(t, j)' = {i \in J \cup {j} : stack'[i].seg = t} /\ Of(t, a) = {i \in J : stack'[i].seg = t}
    BY <1>9, <2>1, <2>2, <2>3
  <2>5. stack'[j].seg = s
    BY <1>5
  <2> QED
    BY <2>4, <2>5
<1>11. Of(s, a) \in SUBSET Int /\ \A i \in Of(s, a) : i < j
  BY <1>0, <1>3 DEF Of
<1>12. Curve(s) = Made(s, a) /\ \A t \in loaded : Curve(t) = Made(t, a)
  BY <1>0, <1>1, CurveIsMade
<1>13. Row(s, start) # NoCurve
  BY <1>1 DEF Curve
<1>14. DOMAIN Row(s, start) = Points
  BY <1>3, <1>13, RowCurves, SomeCurves DEF IsCurve
<1>15. DOMAIN stack'[j].after = P /\ DOMAIN stack'[j].after \subseteq DOMAIN Row(s, start)
  BY <1>5, <1>14
<1>16. /\ MadeIn(Row(s, start), stack', Of(s, a) \cup {j})
              = Over(stack'[j].after, MadeIn(Row(s, start), stack', Of(s, a)))
       /\ MarkedIn(stack', Of(s, a) \cup {j}) = MarkedIn(stack', Of(s, a)) \cup stack'[j].dragged
  <2>1. PICK st : st = stack'
    OBVIOUS
  <2>2. DOMAIN st[j].after \subseteq DOMAIN Row(s, start)
    BY <1>15, <2>1
  <2>3. OneMore(Row(s, start), st, Of(s, a), j)
    BY <1>6, <1>11, <2>2, NextMade
  <2> QED
    BY <2>1, <2>3 DEF OneMore
<1>17. MadeIn(Row(s, start), stack', Of(s, a)) = Made(s, a) /\ MarkedIn(stack', Of(s, a)) = Marked(s, a)
  BY <1>7, <1>8, MadeDefs
<1>18. Made(s, j)' = Over(now2, Made(s, a)) /\ Marked(s, j)' = Marked(s, a) \cup P
  BY <1>5, <1>8, <1>10, <1>16, <1>17, MadeDefs
<1>19. \A t : t # s => Made(t, j)' = Made(t, a) /\ Marked(t, j)' = Marked(t, a)
  BY <1>7, <1>8, <1>10, MadeDefs
<1>20. DOMAIN changed' = loaded /\ loaded' = loaded
  BY <1>1
<1>21. \A t \in DOMAIN changed' : changed'[t] = Made(t, j)'
  <2>1. changed'[s] = [p \in Points |-> IF p \in P THEN now' ELSE Curve(s)[p]]
    BY <1>1
  <2>2. DOMAIN Made(s, a) = Points
    BY <1>14, MadeDefs
  <2>3. changed'[s] = Over(now2, Made(s, a))
    BY <1>12, <2>1, <2>2 DEF Over
  <2>4. \A t \in loaded : t # s => changed'[t] = Curve(t)
    BY <1>1
  <2> QED
    BY <1>12, <1>18, <1>19, <1>20, <2>3, <2>4
<1>22. \A t \in Segments : manual'[t] = Marked(t, j)'
  <2>1. \A t \in Segments : manual'[t] = IF t = s THEN manual[t] \cup P ELSE manual[t]
    BY <1>1, <1>3
  <2>2. \A t \in Segments : manual[t] = Marked(t, a)
    BY <1>0 DEF Replays
  <2> QED
    BY <1>18, <1>19, <2>1, <2>2
<1>23. \A i \in (base' + 1)..a : Fits(i)'
  BY <1>0, <1>1, <1>4, <1>20, OlderFits DEF Replays
<1>24. Fits(j)'
  <2>1. stack'[j].before = Restrict(Made(s, j - 1)', P) /\ DOMAIN stack'[j].before = P
    BY <1>5, <1>6, <1>7, <1>12 DEF Restrict
  <2>2. manual[s] = Marked(s, j - 1)'
    BY <1>0, <1>6, <1>7 DEF Replays
  <2> QED
    BY <1>1, <1>5, <1>8, <1>15, <1>20, <2>1, <2>2 DEF Fits
<1>25. \A i \in (base' + 1)..j : Fits(i)'
  BY <1>6, <1>23, <1>24
<1> QED
  BY <1>0, <1>4, <1>20, <1>21, <1>22, <1>25 DEF Replays

LEMMA EvenlyReplays ==
    ASSUME ToolsTypes, CurveTypes, StackTypes, Replays,
           NEW S \in SUBSET loaded, EvenlySpacePoints(S)
    PROVE  Replays'
<1>0. PICK a : a = at
  OBVIOUS
<1>1. shown = start /\ UNCHANGED <<cloud, start, loaded, manual>>
  BY DEF EvenlySpacePoints, tools, package
<1>2. PICK q : Evened(S, q)
  BY EvenlyPushes
<1>3. /\ DOMAIN changed' = S \cup DOMAIN changed
      /\ \A s \in S : changed'[s] = IF Curve(s) = NoCurve THEN NoCurve ELSE Even(now')
      /\ \A s \in DOMAIN changed \ S : changed'[s] = changed[s]
  BY EvenlyPushes
<1>4. a \in 0..Len(stack) /\ base \in Nat /\ Len(stack) \in Nat /\ loaded \subseteq Segments
  BY <1>0 DEF StackTypes, IsList, ToolsTypes
<1>5. PICK n \in Nat : n = Len(q)
  BY <1>0, <1>2 DEF Evened
<1>6. /\ Len(stack') = a + n /\ at' = a + n
      /\ \A i \in 1..a : stack'[i] = stack[i]
      /\ base' = IF base <= a THEN base ELSE a
  BY <1>0, <1>2, <1>5 DEF Evened
<1>7. base' \in 0..a /\ a \in Int /\ a <= a
  BY <1>4, <1>6
<1>8. \A t : Of(t, a)' = Of(t, a) /\ Made(t, a)' = Made(t, a) /\ Marked(t, a)' = Marked(t, a)
  BY <1>0, <1>1, <1>6, <1>7, OlderMade
<1>9. \A t : Row(t, start)' = Row(t, start)
  BY <1>1 DEF Row
<1>10. \A t : {i \in (base' + 1)..a : stack'[i].seg = t} = Of(t, a)
  BY <1>0, <1>8 DEF Of
<1>11. \A t \in loaded : Curve(t) = Made(t, a)
  BY <1>0, <1>1, CurveIsMade
<1>12. ASSUME NEW k \in 1..n
       PROVE  /\ q[k] \in S
              /\ stack'[a + k].seg = q[k] /\ stack'[a + k].dragged = {} /\ stack'[a + k].fresh = {}
              /\ stack'[a + k].before = Curve(q[k])
              /\ stack'[a + k].after = changed'[q[k]]
  BY <1>0, <1>2, <1>5 DEF Evened
<1>13. \A i, k \in 1..n : q[i] = q[k] => i = k
  BY <1>0, <1>2, <1>5 DEF Evened
<1>14. ASSUME NEW k \in 1..n, NEW last, last = a + k - 1
       PROVE  /\ Of(q[k], last)' = Of(q[k], a)
              /\ Of(q[k], a + n)' = Of(q[k], a) \cup {a + k}
  <2>1. \A m \in a..(a + n) : Of(q[k], m)' =
            Of(q[k], a) \cup {i \in (a + 1)..m : stack'[i].seg = q[k]}
    <3> TAKE m \in a..(a + n)
    <3>1. Of(q[k], m)' = {i \in (base' + 1)..m : stack'[i].seg = q[k]}
      BY <1>0 DEF Of
    <3>2. (base' + 1)..m = ((base' + 1)..a) \cup ((a + 1)..m)
      BY <1>4, <1>7
    <3> QED
      BY <1>10, <3>1, <3>2
  <2>2. ASSUME NEW i \in (a + 1)..(a + n) PROVE stack'[i].seg = q[k] <=> i = a + k
    <3>1. PICK l : l = i - a
      OBVIOUS
    <3>2. l \in 1..n /\ i = a + l
      BY <1>4, <3>1
    <3>3. stack'[i].seg = q[l]
      BY <1>12, <3>2
    <3> QED
      BY <1>4, <1>13, <3>2, <3>3
  <2>3. /\ last \in a..(a + n) /\ a + n \in a..(a + n) /\ a + k \in (a + 1)..(a + n)
        /\ a + k \notin (a + 1)..last
        /\ (a + 1)..last \subseteq (a + 1)..(a + n)
    BY <1>4, <1>14
  <2>4. {i \in (a + 1)..(a + n) : stack'[i].seg = q[k]} = {a + k}
    BY <2>2, <2>3
  <2>5. {i \in (a + 1)..last : stack'[i].seg = q[k]} = {}
    BY <2>2, <2>3
  <2> QED
    BY <2>1, <2>3, <2>4, <2>5
<1>15. ASSUME NEW t, t \notin S PROVE Of(t, a + n)' = Of(t, a)
  <2>1. Of(t, a + n)' = {i \in (base' + 1)..(a + n) : stack'[i].seg = t}
    BY <1>0 DEF Of
  <2>2. ASSUME NEW i \in (a + 1)..(a + n) PROVE stack'[i].seg # t
    <3>1. PICK l : l = i - a
      OBVIOUS
    <3>2. l \in 1..n /\ i = a + l
      BY <1>4, <3>1
    <3> QED
      BY <1>12, <1>15, <3>2
  <2>3. (base' + 1)..(a + n) = ((base' + 1)..a) \cup ((a + 1)..(a + n))
    BY <1>4, <1>7
  <2> QED
    BY <1>10, <2>1, <2>2, <2>3
<1>16. ASSUME NEW s \in S
       PROVE  /\ DOMAIN changed'[s] = DOMAIN Row(s, start) /\ IsCurve(changed'[s])
              /\ DOMAIN Curve(s) = DOMAIN Row(s, start) /\ IsCurve(Curve(s))
  <2>1. s \in loaded /\ s \in Segments
    BY <1>4
  <2>2. Curve(s) = Made(s, a) /\ DOMAIN Made(s, a) = DOMAIN Row(s, start)
    BY <1>11, <2>1, MadeDefs
  <2>3. IsCurve(Curve(s))
    BY <2>1, RowCurves
  <2>4. Curve(s) # NoCurve => DOMAIN Curve(s) = Points
    BY <2>3, SomeCurves DEF IsCurve
  <2>5. changed'[s] = IF Curve(s) = NoCurve THEN NoCurve ELSE Even(now')
    BY <1>3
  <2> QED
    BY <2>2, <2>3, <2>4, <2>5, SomeCurves
<1>17. ASSUME NEW k \in 1..n, NEW last, last = a + k - 1
       PROVE  /\ Made(q[k], a + n)' = changed'[q[k]] /\ Marked(q[k], a + n)' = Marked(q[k], a)
              /\ Made(q[k], last)' = Made(q[k], a) /\ Marked(q[k], last)' = Marked(q[k], a)
  <2>1. PICK s \in S : s = q[k]
    BY <1>12
  <2>2. stack'[a + k].after = changed'[s] /\ stack'[a + k].dragged = {}
    BY <1>12, <2>1
  <2>3. Of(s, last)' = Of(s, a) /\ Of(s, a + n)' = Of(s, a) \cup {a + k}
    BY <1>14, <1>17, <2>1
  <2>4. Of(s, a) \in SUBSET Int /\ a + k \in Int /\ \A i \in Of(s, a) : i < a + k
    BY <1>0, <1>4 DEF Of
  <2>5. DOMAIN stack'[a + k].after \subseteq DOMAIN Row(s, start)
    BY <1>16, <2>2
  <2>6. /\ MadeIn(Row(s, start), stack', Of(s, a) \cup {a + k})
              = Over(stack'[a + k].after, MadeIn(Row(s, start), stack', Of(s, a)))
        /\ MarkedIn(stack', Of(s, a) \cup {a + k})
              = MarkedIn(stack', Of(s, a)) \cup stack'[a + k].dragged
    <3>1. PICK st, j : st = stack' /\ j = a + k
      OBVIOUS
    <3>2. DOMAIN st[j].after \subseteq DOMAIN Row(s, start) /\ j \in Int /\ \A i \in Of(s, a) : i < j
      BY <2>4, <2>5, <3>1
    <3>3. OneMore(Row(s, start), st, Of(s, a), j)
      BY <2>4, <3>2, NextMade
    <3> QED
      BY <3>1, <3>3 DEF OneMore
  <2>7. MadeIn(Row(s, start), stack', Of(s, a)) = Made(s, a) /\ MarkedIn(stack', Of(s, a)) = Marked(s, a)
    BY <1>8, <1>9, MadeDefs
  <2>8. Over(changed'[s], Made(s, a)) = changed'[s]
    <3>1. DOMAIN Made(s, a) = DOMAIN changed'[s] /\ changed'[s] = [p \in DOMAIN changed'[s] |-> changed'[s][p]]
      BY <1>16, MadeDefs DEF IsCurve
    <3> QED
      BY <3>1 DEF Over
  <2>9. Made(s, a + n)' = changed'[s] /\ Marked(s, a + n)' = Marked(s, a)
    BY <1>9, <2>2, <2>3, <2>6, <2>7, <2>8, MadeDefs
  <2>10. Made(s, last)' = Made(s, a) /\ Marked(s, last)' = Marked(s, a)
    BY <1>9, <2>3, <2>7, MadeDefs
  <2> QED
    BY <2>1, <2>9, <2>10
<1>18. ASSUME NEW t, t \notin S PROVE Made(t, a + n)' = Made(t, a) /\ Marked(t, a + n)' = Marked(t, a)
  BY <1>8, <1>9, <1>15, <1>18, MadeDefs
<1>19. \A s \in S : \E k \in 1..n : q[k] = s
  BY <1>0, <1>2, <1>5 DEF Evened
<1>20. \A t \in DOMAIN changed' : changed'[t] = Made(t, a + n)'
  <2> TAKE t \in DOMAIN changed'
  <2>1. CASE t \in S
    <3>1. PICK k \in 1..n : q[k] = t
      BY <1>19, <2>1
    <3>2. PICK last : last = a + k - 1
      OBVIOUS
    <3> QED
      BY <1>17, <3>1, <3>2
  <2>2. CASE t \notin S
    BY <1>0, <1>3, <1>18, <2>2 DEF Replays
  <2> QED
    BY <2>1, <2>2
<1>21. \A t \in Segments : manual'[t] = Marked(t, a + n)'
  <2> TAKE t \in Segments
  <2>1. Marked(t, a + n)' = Marked(t, a)
    <3>1. CASE t \in S
      <4>1. PICK k \in 1..n : q[k] = t
        BY <1>19, <3>1
      <4>2. PICK last : last = a + k - 1
        OBVIOUS
      <4> QED
        BY <1>17, <4>1, <4>2
    <3> QED
      BY <1>18, <3>1
  <2> QED
    BY <1>0, <1>1, <2>1 DEF Replays
<1>22. \A i \in (base' + 1)..a : Fits(i)'
  BY <1>0, <1>1, <1>3, <1>6, OlderFits
<1>23. ASSUME NEW k \in 1..n PROVE Fits(a + k)'
  <2>1. PICK s \in S : s = q[k]
    BY <1>12
  <2>2. /\ stack'[a + k].seg = s /\ stack'[a + k].dragged = {} /\ stack'[a + k].fresh = {}
        /\ stack'[a + k].before = Curve(s) /\ stack'[a + k].after = changed'[s]
    BY <1>12, <2>1
  <2>3. \A last : last = a + k - 1 => Made(s, last)' = Curve(s)
    BY <1>11, <1>17, <2>1
  <2>4. Curve(s) = Restrict(Curve(s), DOMAIN Curve(s))
    BY <1>16 DEF Restrict, IsCurve
  <2> QED
    <3>1. PICK i, c : i = a + k /\ c = stack'[i]
      OBVIOUS
    <3>2. /\ c.seg = s /\ c.dragged = {} /\ c.fresh = {} /\ c.before = Curve(s) /\ c.after = changed'[s]
      BY <2>2, <3>1
    <3>3. Made(s, i - 1)' = Curve(s)
      <4>1. PICK last : last = i - 1
        OBVIOUS
      <4>3. last = a + k - 1
        BY <1>7, <3>1, <4>1
      <4>2. Made(s, last)' = Curve(s)
        BY <2>3, <4>3
      <4> QED
        BY <4>1, <4>2
    <3>4. s \in DOMAIN changed' /\ DOMAIN Row(s, start)' = DOMAIN Row(s, start)
      BY <1>3, <1>9
    <3>5. c.before = Restrict(Made(s, i - 1)', DOMAIN c.before)
      BY <2>4, <3>2, <3>3
    <3>6. DOMAIN c.after = DOMAIN c.before /\ DOMAIN c.after \subseteq DOMAIN Row(s, start)'
      BY <1>16, <3>2, <3>4
    <3>7. Fits(i)'
      BY <3>1, <3>2, <3>4, <3>5, <3>6 DEF Fits
    <3> QED
      BY <3>1, <3>7
<1>24. \A i \in (base' + 1)..(a + n) : Fits(i)'
  <2> TAKE i \in (base' + 1)..(a + n)
  <2>1. CASE i \in (base' + 1)..a
    BY <1>22, <2>1
  <2>2. CASE i \notin (base' + 1)..a
    <3>1. PICK l : l = i - a
      OBVIOUS
    <3>2. l \in 1..n /\ i = a + l
      <4>1. PICK b \in 0..a : b = base'
        BY <1>7
      <4>2. i \in (b + 1)..(a + n) /\ i \notin (b + 1)..a
        BY <2>2, <4>1
      <4>3. a \in Nat /\ n \in Nat
        BY <1>4, <1>5
      <4>4. b \in Nat /\ b + 1 \in Int /\ a + n \in Int
        BY <4>1, <4>3
      <4>5. i \in Int /\ b + 1 <= i /\ i <= a + n
        BY <4>2, <4>4
      <4>6. ~(i <= a)
        BY <4>2, <4>3, <4>4, <4>5
      <4> QED
        BY <3>1, <4>3, <4>5, <4>6
    <3> QED
      BY <1>23, <3>2
  <2> QED
    BY <2>1, <2>2
<1> QED
  BY <1>0, <1>1, <1>3, <1>6, <1>20, <1>21, <1>24 DEF Replays

\* The k-th command, put on top of those before it.
LEMMA TopCommand ==
    ASSUME StackTypes, NEW k \in (base + 1)..Len(stack), Fits(k), NEW s, s = stack[k].seg,
           NEW m, m = k - 1
    PROVE  /\ Made(s, k) = Over(stack[k].after, Made(s, m))
           /\ Marked(s, k) = Marked(s, m) \cup stack[k].dragged
           /\ \A t : t # s => Made(t, k) = Made(t, m) /\ Marked(t, k) = Marked(t, m)
<1>1. base \in Nat /\ Len(stack) \in Nat /\ k \in Int /\ m \in Int /\ k = m + 1 /\ base + 1 <= k
  BY DEF StackTypes, IsList
<1>2. \A i : i \in (base + 1)..k <=> i \in (base + 1)..m \/ i = k
  BY <1>1
<1>3. Of(s, k) = Of(s, m) \cup {k}
  BY <1>2 DEF Of
<1>4. \A t : t # s => Of(t, k) = Of(t, m)
  BY <1>2 DEF Of
<1>5. Of(s, m) \in SUBSET Int /\ \A i \in Of(s, m) : i < k
  BY <1>1 DEF Of
<1>6. DOMAIN stack[k].after \subseteq DOMAIN Row(s, start)
  BY DEF Fits
<1>7. OneMore(Row(s, start), stack, Of(s, m), k)
  BY <1>1, <1>5, <1>6, NextMade
<1>8. Made(s, k) = Over(stack[k].after, Made(s, m)) /\ Marked(s, k) = Marked(s, m) \cup stack[k].dragged
  BY <1>3, <1>7, MadeDefs DEF OneMore
<1>9. \A t : t # s => Made(t, k) = Made(t, m) /\ Marked(t, k) = Marked(t, m)
  BY <1>4, MadeDefs
<1> QED
  BY <1>8, <1>9

\* Putting back what a command found undoes it, and doing it again redoes it.
LEMMA OverBack ==
    ASSUME NEW made, made = [p \in DOMAIN made |-> made[p]], NEW before, NEW after,
           DOMAIN after = DOMAIN before, DOMAIN after \subseteq DOMAIN made,
           before = Restrict(made, DOMAIN before)
    PROVE  Over(before, Over(after, made)) = made
<1>1. \A p \in DOMAIN before : before[p] = made[p]
  BY DEF Restrict
<1> QED
  BY <1>1 DEF Over

\* What fits goes on fitting while neither stack nor rows change.
LEMMA FitsKept ==
    ASSUME UNCHANGED <<cloud, start, stack, base>>, DOMAIN changed' = DOMAIN changed,
           NEW i, Fits(i)
    PROVE  Fits(i)'
<1>1. PICK c, m : c = stack[i] /\ m = i - 1
  OBVIOUS
<1>2. Made(c.seg, m)' = Made(c.seg, m) /\ Marked(c.seg, m)' = Marked(c.seg, m)
  BY SameMade
<1>3. /\ c.seg \in DOMAIN changed
      /\ DOMAIN c.after = DOMAIN c.before /\ DOMAIN c.after \subseteq DOMAIN Row(c.seg, start)
      /\ c.before = Restrict(Made(c.seg, m), DOMAIN c.before)
      /\ c.amiss \/ c.fresh = c.dragged \ Marked(c.seg, m)
  BY <1>1 DEF Fits
<1>4. Row(c.seg, start)' = Row(c.seg, start) /\ stack'[i] = c
  BY <1>1 DEF Row
<1> QED
  BY <1>1, <1>2, <1>3, <1>4 DEF Fits

\* A step of the stack from a to b, over command k, whose positions and marks are given.
LEMMA StepReplays ==
    ASSUME ToolsTypes, Replays, UNCHANGED <<cloud, start, stack, base, loaded>>,
           NEW s \in Segments, s \in DOMAIN changed, NEW positions, NEW marks,
           changed' = [changed EXCEPT ![s] = Over(positions, changed[s])],
           manual' = [manual EXCEPT ![s] = marks],
           NEW b, at' = b,
           Over(positions, Made(s, at)) = Made(s, b), marks = Marked(s, b),
           \A t : t # s => Made(t, at) = Made(t, b) /\ Marked(t, at) = Marked(t, b)
    PROVE  Replays'
<1>1. \A t, k : Made(t, k)' = Made(t, k) /\ Marked(t, k)' = Marked(t, k)
  BY SameMade
<1>2. DOMAIN changed' = DOMAIN changed
  OBVIOUS
<1>3. \A i \in (base + 1)..Len(stack) : Fits(i)'
  BY <1>2, FitsKept DEF Replays
<1>4. \A t \in DOMAIN changed' : changed'[t] = Made(t, b)'
  <2>1. \A t \in DOMAIN changed : changed'[t] = IF t = s THEN Over(positions, changed[s]) ELSE changed[t]
    OBVIOUS
  <2>2. \A t \in DOMAIN changed : changed[t] = Made(t, at)
    BY DEF Replays
  <2> QED
    BY <1>1, <1>2, <2>1, <2>2
<1>5. \A t \in Segments : manual'[t] = Marked(t, b)'
  <2>1. \A t \in Segments : manual'[t] = IF t = s THEN marks ELSE manual[t]
    BY DEF ToolsTypes
  <2>2. \A t \in Segments : manual[t] = Marked(t, at)
    BY DEF Replays
  <2> QED
    BY <1>1, <2>1, <2>2
<1> QED
  BY <1>2, <1>3, <1>4, <1>5 DEF Replays

LEMMA UndoReplays ==
    ASSUME ToolsTypes, CurveTypes, StackTypes, Replays, Undo, ~astray'
    PROVE  Replays'
<1>1. PICK a, b, c : a = at /\ b = at - 1 /\ c = stack[a]
  OBVIOUS
<1>2. /\ a > 0 /\ at' = b
      /\ \E t \in Reach(c) :
            /\ Sets(t, c.before)
            /\ manual' = IF t = Gone THEN manual ELSE [manual EXCEPT ![t] = @ \ c.fresh]
      /\ astray' = (astray \/ c.amiss \/ a <= base \/ ~seg \/ shown # start)
      /\ UNCHANGED <<cloud, start, stack, base, loaded>>
  BY <1>1 DEF Undo, Does, tools, package
<1>3. ~c.amiss /\ ~(a <= base) /\ shown = start
  BY <1>2
<1>4. a \in (base + 1)..Len(stack) /\ Len(stack) \in Nat
  BY <1>1, <1>3 DEF StackTypes, IsList
<1>5. Fits(a)
  BY <1>4 DEF Replays
<1>6. /\ c.seg \in DOMAIN changed
      /\ DOMAIN c.after = DOMAIN c.before /\ DOMAIN c.after \subseteq DOMAIN Row(c.seg, start)
      /\ c.before = Restrict(Made(c.seg, b), DOMAIN c.before)
      /\ c.fresh = c.dragged \ Marked(c.seg, b)
  <2>1. b = a - 1
    BY <1>1
  <2> QED
    BY <1>1, <1>3, <1>5, <2>1 DEF Fits
<1>7. PICK s : s = c.seg
  OBVIOUS
<1>8. s \in Segments /\ s \in loaded /\ s # Gone
  BY <1>6, <1>7, SegmentAssumption DEF Replays, ToolsTypes
<1>9. /\ changed' = [changed EXCEPT ![s] = Over(c.before, changed[s])]
      /\ manual' = [manual EXCEPT ![s] = manual[s] \ c.fresh]
  <2>1. Reach(c) = {s}
    BY <1>7, <1>8 DEF Reach
  <2>2. Sets(s, c.before) /\ manual' = [manual EXCEPT ![s] = @ \ c.fresh]
    BY <1>2, <1>8, <2>1
  <2> QED
    BY <1>3, <1>6, <1>7, <2>2 DEF Sets
<1>10. /\ Made(s, a) = Over(c.after, Made(s, b))
       /\ Marked(s, a) = Marked(s, b) \cup c.dragged
       /\ \A t : t # s => Made(t, a) = Made(t, b) /\ Marked(t, a) = Marked(t, b)
  BY <1>1, <1>4, <1>5, <1>7, TopCommand
<1>11. Over(c.before, Made(s, a)) = Made(s, b)
  BY <1>6, <1>7, <1>10, MadeDefs, OverBack
<1>12. manual[s] \ c.fresh = Marked(s, b)
  <2>1. manual[s] = Marked(s, a)
    BY <1>1, <1>8 DEF Replays
  <2>2. c.fresh = c.dragged \ Marked(s, b)
    BY <1>6, <1>7
  <2>3. Marked(s, b) \subseteq manual[s] /\ manual[s] = Marked(s, b) \cup c.dragged
    BY <1>10, <2>1
  <2>4. (Marked(s, b) \cup c.dragged) \ c.fresh = Marked(s, b)
    BY <2>2
  <2> QED
    BY <2>3, <2>4
<1>13. PICK positions, marks : positions = c.before /\ marks = manual[s] \ c.fresh
  OBVIOUS
<1>14. /\ changed' = [changed EXCEPT ![s] = Over(positions, changed[s])]
       /\ manual' = [manual EXCEPT ![s] = marks] /\ marks = Marked(s, b)
       /\ Over(positions, Made(s, at)) = Made(s, b) /\ s \in DOMAIN changed
       /\ \A t : t # s => Made(t, at) = Made(t, b) /\ Marked(t, at) = Marked(t, b)
  BY <1>1, <1>6, <1>7, <1>9, <1>10, <1>11, <1>12, <1>13
<1> QED
  BY <1>2, <1>8, <1>14, StepReplays

LEMMA RedoReplays ==
    ASSUME ToolsTypes, CurveTypes, StackTypes, Replays, Redo, ~astray'
    PROVE  Replays'
<1>1. PICK a, b, c : a = at /\ b = at + 1 /\ c = stack[b]
  OBVIOUS
<1>2. /\ a < Len(stack) /\ at' = b
      /\ \E t \in Reach(c) :
            /\ Sets(t, c.after)
            /\ manual' = IF t = Gone THEN manual ELSE [manual EXCEPT ![t] = @ \cup c.fresh]
      /\ astray' = (astray \/ c.amiss \/ a < base \/ ~seg \/ shown # start)
      /\ UNCHANGED <<cloud, start, stack, base, loaded>>
  BY <1>1 DEF Redo, Does, tools, package
<1>3. ~c.amiss /\ ~(a < base) /\ shown = start
  BY <1>2
<1>4. b \in (base + 1)..Len(stack) /\ a = b - 1
  <2>1. at \in Nat /\ base \in Nat /\ Len(stack) \in Nat
    BY DEF StackTypes, IsList
  <2> QED
    BY <1>1, <1>2, <1>3, <2>1
<1>5. Fits(b)
  BY <1>4 DEF Replays
<1>6. /\ c.seg \in DOMAIN changed
      /\ DOMAIN c.after = DOMAIN c.before /\ DOMAIN c.after \subseteq DOMAIN Row(c.seg, start)
      /\ c.fresh = c.dragged \ Marked(c.seg, a)
  BY <1>1, <1>3, <1>4, <1>5 DEF Fits
<1>7. PICK s : s = c.seg
  OBVIOUS
<1>8. s \in Segments /\ s \in loaded /\ s # Gone
  BY <1>6, <1>7, SegmentAssumption DEF Replays, ToolsTypes
<1>9. /\ changed' = [changed EXCEPT ![s] = Over(c.after, changed[s])]
      /\ manual' = [manual EXCEPT ![s] = manual[s] \cup c.fresh]
  <2>1. Reach(c) = {s}
    BY <1>7, <1>8 DEF Reach
  <2>2. Sets(s, c.after) /\ manual' = [manual EXCEPT ![s] = @ \cup c.fresh]
    BY <1>2, <1>8, <2>1
  <2> QED
    BY <1>3, <1>6, <1>7, <2>2 DEF Sets
<1>10. /\ Made(s, b) = Over(c.after, Made(s, a))
       /\ Marked(s, b) = Marked(s, a) \cup c.dragged
       /\ \A t : t # s => Made(t, b) = Made(t, a) /\ Marked(t, b) = Marked(t, a)
  <2>1. s = stack[b].seg /\ c = stack[b]
    BY <1>1, <1>7
  <2> QED
    BY <1>4, <1>5, <2>1, TopCommand
<1>11. manual[s] \cup c.fresh = Marked(s, b)
  <2>1. manual[s] = Marked(s, a)
    BY <1>1, <1>8 DEF Replays
  <2>2. c.fresh = c.dragged \ Marked(s, a)
    BY <1>6, <1>7
  <2> QED
    BY <1>10, <2>1, <2>2
<1>12. PICK positions, marks : positions = c.after /\ marks = manual[s] \cup c.fresh
  OBVIOUS
<1>13. /\ changed' = [changed EXCEPT ![s] = Over(positions, changed[s])]
       /\ manual' = [manual EXCEPT ![s] = marks] /\ marks = Marked(s, b)
       /\ Over(positions, Made(s, at)) = Made(s, b) /\ s \in DOMAIN changed
       /\ \A t : t # s => Made(t, at) = Made(t, b) /\ Marked(t, at) = Marked(t, b)
  BY <1>1, <1>6, <1>7, <1>9, <1>10, <1>11, <1>12
<1> QED
  BY <1>2, <1>8, <1>13, StepReplays

LEMMA UndoKept ==
    ASSUME ToolsInv, CurveTypes, StackTypes, UndoInv, [Next]_vars
    PROVE  UndoInv'
<1> SUFFICES ASSUME seg', ~astray', Idle'
             PROVE  Replays'
  BY DEF UndoInv
<1>1. ToolsTypes /\ ToolInv
  BY DEF ToolsInv
<1>2. pen \in BOOLEAN /\ seg \in BOOLEAN /\ astray \in BOOLEAN
  BY <1>1 DEF ToolsTypes
<1>3. seg /\ ~astray /\ Idle => Replays
  BY DEF UndoInv
<1>4. CASE UNCHANGED <<changed, manual, stack, at, base, loaded, cloud, start, seg, astray>> /\ Idle
  <2>1. \A t, k : Made(t, k)' = Made(t, k) /\ Marked(t, k)' = Marked(t, k)
    BY <1>4, SameMade
  <2>2. Replays
    BY <1>3, <1>4
  <2>3. \A i \in (base + 1)..Len(stack) : Fits(i)'
    BY <1>4, <2>2, FitsKept DEF Replays
  <2>4. PICK a : a = at
    OBVIOUS
  <2>5. (\A t \in DOMAIN changed : changed[t] = Made(t, a)') /\ \A t \in Segments : manual[t] = Marked(t, a)'
    BY <2>1, <2>2, <2>4 DEF Replays
  <2> QED
    BY <1>4, <2>2, <2>3, <2>4, <2>5 DEF Replays
<1>5. CASE UNCHANGED vars \/ Save \/ Highlight \/ \E sl \in Slices : ChangeSlice(sl)
  <2>1. UNCHANGED <<changed, manual, stack, at, base, loaded, cloud, start, seg, astray>> /\ Idle
    <3>1. CASE UNCHANGED vars
      BY <3>1 DEF vars, edits, undo, tools, package, Idle
    <3>2. CASE Save \/ Highlight \/ \E sl \in Slices : ChangeSlice(sl)
      BY <3>2, CalmSteps DEF Calm, Save, Highlight, ChangeSlice, edits, undo, tools
    <3> QED
      BY <1>5, <3>1, <3>2
  <2> QED
    BY <1>4, <2>1
<1>6. CASE PenUpNothingDrawn \/ PenUpTooSmall \/ PenUp
  <2>1. pen /\ seg' = seg
    BY <1>6 DEF PenUpNothingDrawn, PenUpTooSmall, PenUp, Lifts
  <2> QED
    BY <1>1, <1>2, <2>1 DEF ToolInv
<1>7. CASE PenDown \/ SegUp \/ Open \/ KeepAndCancel
  BY <1>7 DEF PenDown, SegUp, CleanupSegmentation, Open, CloseVolume, KeepAndCancel
<1>8. CASE SegDown
  <2>1. ~seg /\ base' = Len(stack) /\ UNCHANGED <<changed, manual, stack, at, astray>>
    BY <1>8 DEF SegDown
  <2>2. DOMAIN changed' = {} /\ \A s \in Segments : manual'[s] = {}
    BY <1>1, <1>2, <2>1 DEF ToolInv
  <2>3. at \in 0..Len(stack) /\ Len(stack) \in Nat
    BY DEF StackTypes, IsList
  <2>4. (base' + 1)..Len(stack') = {} /\ (base' + 1)..at' = {}
    BY <2>1, <2>3
  <2>5. \A s : Marked(s, at)' = {}
    BY <2>4 DEF Marked, Of
  <2> QED
    BY <2>2, <2>4, <2>5 DEF Replays
<1>9. ASSUME NEW s \in Segments, NEW P \in SUBSET Points \ {{}}, NEW first \in SUBSET P \ {{}}, Drag(s, P, first)
      PROVE  Replays'
  <2>1. mode = "segment" /\ Idle /\ astray' = astray
    BY <1>9 DEF Drag, Push
  <2>2. seg
    BY <1>1, <1>2, <2>1 DEF ToolInv
  <2> QED
    BY <1>1, <1>2, <1>3, <1>9, <2>1, <2>2, DragReplays
<1>10. ASSUME NEW S \in SUBSET loaded \ {{}}, EvenlySpacePoints(S)
       PROVE  Replays'
  <2>1. seg /\ Idle /\ astray' = astray
    BY <1>10 DEF EvenlySpacePoints, Push
  <2> QED
    BY <1>1, <1>2, <1>3, <1>10, <2>1, EvenlyReplays
<1>11. CASE Undo \/ Redo
  <2>1. Idle /\ seg /\ ~astray
    BY <1>2, <1>11 DEF Undo, Redo
  <2> QED
    BY <1>1, <1>3, <1>11, <2>1, UndoReplays, RedoReplays
<1>12. ASSUME NEW S \in SUBSET loaded, DoSegmentation(S) PROVE FALSE
  <2> DEFINE R == {s \in S : chain[s] # NoCurve}
  <2>1. (R = {} /\ CleanupSegmentation) \/ (R # {} /\ running' = R)
    BY <1>12 DEF DoSegmentation
  <2> QED
    BY <2>1 DEF CleanupSegmentation, Idle
<1>13. ASSUME NEW done, NEW reached, NEW w, RunsEnd(done, reached, w) PROVE FALSE
  BY <1>13 DEF RunsEnd, CleanupSegmentation
<1>14. CASE ShowAll \/ \E s \in Segments : Show(s) \/ Hide(s)
  <2>1. mode = "idle" /\ seg' = seg
    BY <1>14 DEF ShowAll, Show, Hide, tools
  <2> QED
    BY <1>1, <1>2, <2>1 DEF ToolInv
<1> QED
  BY <1>5, <1>6, <1>7, <1>8, <1>9, <1>10, <1>11, <1>12, <1>13, <1>14 DEF Next

LEMMA UndoInit == Init => CurveTypes /\ StackTypes /\ UndoInv
<1> SUFFICES ASSUME Init PROVE CurveTypes /\ StackTypes /\ UndoInv
  OBVIOUS
<1>1. changed = <<>> /\ stack = <<>> /\ at = 0 /\ base = 0 /\ seg = FALSE
  BY DEF Init
<1>2. DOMAIN changed = {} /\ changed = [s \in DOMAIN changed |-> changed[s]] /\ IsList(stack) /\ Len(stack) = 0
  BY <1>1 DEF IsList
<1>3. DOMAIN NoRows = {}
  BY DEF NoRows
<1>4. CurveTypes
  BY <1>2, <1>3, SomeCurves DEF Init, CurveTypes
<1>5. StackTypes /\ UndoInv
  BY <1>1, <1>2 DEF StackTypes, UndoInv
<1> QED
  BY <1>4, <1>5

-----------------------------------------------------------------------------
(***************************************************************************)
(* The results.                                                            *)
(***************************************************************************)
LEMMA ToolsInit == Init => ToolsInv
<1> SUFFICES ASSUME Init PROVE ToolsInv
  OBVIOUS
<1>1. IsRows(NoRows) /\ \A D, t : IsRows([sl \in D |-> Even(t)])
  BY DEF IsRows, NoRows
<1>2. ToolsTypes
  BY <1>1 DEF Init, ToolsTypes
<1>3. ToolInv
  <2>1. mode = "idle" /\ pen = FALSE /\ seg = FALSE /\ running = {}
    BY DEF Init
  <2>2. DOMAIN changed = {}
    <3>1. changed = <<>>
      BY DEF Init
    <3> QED
      BY <3>1
  <2>3. \A s \in Segments : manual[s] = {}
    BY DEF Init
  <2> QED
    BY <2>1, <2>2, <2>3 DEF ToolInv
<1>4. HiddenInv
  BY DEF Init, HiddenInv
<1>5. PenInv /\ PathInv /\ UnsavedIsFlagged
  BY DEF Init, PenInv, PenDrawsOnTheNew, Blank, PathInv, UnsavedIsFlagged, Unsaved
<1> QED
  BY <1>2, <1>3, <1>4, <1>5 DEF ToolsInv

THEOREM ToolsInvariant == Spec => []ToolsInv
<1>1. Init => ToolsInv
  BY ToolsInit
<1>2. ToolsInv /\ [Next]_vars => ToolsInv'
  <2> SUFFICES ASSUME ToolsInv, [Next]_vars PROVE ToolsInv'
    OBVIOUS
  <2>1. ToolsTypes'
    BY TypesKept DEF ToolsInv
  <2> QED
    BY <2>1, ToolKept, HiddenKept, PenKept, PathKept, FlagKept DEF ToolsInv
<1> QED
  BY <1>1, <1>2, PTL DEF Spec

\* Curves, stack and buffers: what the commands on the stack make of the rows.
THEOREM UndoInvariant == Spec => [](CurveTypes /\ StackTypes /\ UndoInv)
<1>1. Init => CurveTypes /\ StackTypes /\ UndoInv
  BY UndoInit
<1>2. ToolsInv /\ CurveTypes /\ StackTypes /\ UndoInv /\ [Next]_vars => (CurveTypes /\ StackTypes /\ UndoInv)'
  BY CurveTypesKept, StackKept, UndoKept DEF ToolsInv
<1> QED
  BY <1>1, <1>2, ToolsInvariant, PTL DEF Spec

\* The buttons exclude each other, the window is in their state, and outside the
\* segmentation tool no edit is buffered, unless an old command was replayed (CWindow.cpp).
THEOREM OneToolAtATime == Spec => []EditsBelongToTheTool
<1>1. ToolsInv => EditsBelongToTheTool
  BY DEF ToolsInv, ToolInv, ToolsTypes, EditsBelongToTheTool, HasChangedCurves
<1> QED
  BY <1>1, ToolsInvariant, PTL

\* A run starts from the curve the user sees, unless it was evened out or a command was
\* replayed since the last drag (CWindow.cpp).
THEOREM RunsStartWhereShown == Spec => []RunsStartFromTheCurve
<1>1. ToolsInv => RunsStartFromTheCurve
  BY DEF ToolsInv, PathInv, Edited, RunsStartFromTheCurve, Curve
<1> QED
  BY <1>1, ToolsInvariant, PTL

\* What differs from the files is flagged, except what the user was asked about (CWindow.cpp).
THEOREM UnsavedStaysFlagged == Spec => []UnsavedIsFlagged
<1>1. ToolsInv => UnsavedIsFlagged
  BY DEF ToolsInv
<1> QED
  BY <1>1, ToolsInvariant, PTL

\* A curve drawn with the pen goes to a segment that has no rows, unless "Display all" has
\* activated another one (CWindow.cpp).
THEOREM PenSparesRows == Spec => []PenDrawsOnTheNew
<1>1. ToolsInv => PenDrawsOnTheNew
  BY DEF ToolsInv, PenInv
<1> QED
  BY <1>1, ToolsInvariant, PTL

\* Undoing all that was done in this use of the tool gives back curve and marks: the buffered
\* curve is what the commands on the stack make of the row in the cloud (UndoCommands.cpp).
THEOREM UndoGivesBack == Spec => []UndoRestores
<1>1. ToolsInv /\ StackTypes /\ UndoInv => UndoRestores
  <2> SUFFICES ASSUME ToolsInv, StackTypes, Replays, NEW s \in loaded
               PROVE  /\ s \in DOMAIN changed =>
                           /\ changed[s] = Made(s, at)
                           /\ \A i \in Of(s, at) :
                                stack[i].before = Restrict(Made(s, i - 1), DOMAIN stack[i].before)
                      /\ s \notin DOMAIN changed => Of(s, at) = {}
                      /\ manual[s] = UNION {stack[i].dragged : i \in Of(s, at)}
    BY DEF UndoInv, UndoRestores
  <2>1. at \in 0..Len(stack) /\ Len(stack) \in Nat /\ base \in Nat /\ s \in Segments
    BY DEF StackTypes, IsList, ToolsInv, ToolsTypes
  <2>2. \A i \in Of(s, at) : i \in (base + 1)..Len(stack) /\ stack[i].seg = s
    BY <2>1 DEF Of
  <2>3. \A i \in Of(s, at) : /\ s \in DOMAIN changed
                             /\ stack[i].before = Restrict(Made(s, i - 1), DOMAIN stack[i].before)
    BY <2>2 DEF Replays, Fits
  <2>4. s \in DOMAIN changed => changed[s] = Made(s, at)
    BY DEF Replays
  <2>5. manual[s] = UNION {stack[i].dragged : i \in Of(s, at)}
    BY <2>1 DEF Replays, Marked
  <2> QED
    BY <2>3, <2>4, <2>5
<1> QED
  BY <1>1, ToolsInvariant, UndoInvariant, PTL
=============================================================================
