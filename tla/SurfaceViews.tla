----------------------------- MODULE SurfaceViews -----------------------------
(***************************************************************************)
(* The views of VC3D (apps/VC3D).  A collection (CSurfaceCollection) holds *)
(* the planes, the segmentation and the focus; every viewer                *)
(* (CVolumeViewer) listens to it, draws its own surface and the lines in   *)
(* which the other surfaces cut it, and writes back: the view of the       *)
(* segmentation publishes the part it shows (the crop), the views of       *)
(* planes publish the lines they find.  All slots run on the window's one  *)
(* thread, inside the signal that calls them, so that handlers nest: calls *)
(* is the list of what is still to run, and a handler that emits puts the  *)
(* slots of all viewers, in the order of connection, before the rest of    *)
(* its own work.  The user acts only when nothing is left to run.          *)
(*                                                                         *)
(* Positions of a view and of the crop are integers along one axis, in     *)
(* voxels; what is drawn is the record of all it was computed from.  A     *)
(* view is scrolled in two steps: the scroll bar has its new value (bar)   *)
(* and the viewer hears of it before Qt's scrollContentsBy moves what the  *)
(* viewer takes for visible (place).                                       *)
(***************************************************************************)
EXTENDS Integers, Sequences, FiniteSets

CONSTANTS
    Views,        \* the surfaces shown, in the order of their viewers
    Segmentation, \* the surface "segmentation"
    Crop,         \* the surface "visible_segmentation"
    ManualPlane,  \* the plane whose normal the user sets
    SegPlanes,    \* the planes through a clicked point of the crop, in order
    Volumes, Scales,    \* the volumes and their numbers of zarr levels
    Packages,     \* the packages: sequences of volumes, the first is opened
    Paths, Readable,    \* the segmentation files, and those that load
    Points, Normals,    \* points of the volume; normals the user enters
    Centres, Margin,    \* centres of a view; how far one image reaches
    MaxZoom, MaxOffset, MaxOps, MaxInputs,
    None

VARIABLES
    surfs,     \* CSurfaceCollection::_surfs
    inters,    \* _intersections: lines of each plane with the crop
    focus,     \* the POI "focus"
    plane,     \* the plane objects, shared by collection and viewers
    chains,    \* CWindow::_opchains and the chains' state
    view,      \* the viewers; auxiliary: from, the place before the last scroll
    ptr, vis,  \* _ptr and _vis_center of the view of the segmentation
    vpkg, current, spin,   \* fVpkg, currentVolume, the normal entered
    selected,  \* current item of treeWidgetSurfaces
    list,      \* OpsList
    settings,  \* OpsSettings
    calls,     \* what is still to run
    broken,    \* why the program went down
    inputs     \* how often the user has acted (bounded by MaxInputs)

shared == <<surfs, inters, focus, plane, chains>>
window == <<vpkg, current, spin, selected, list, settings>>
vars == <<shared, view, ptr, vis, window, calls, broken, inputs>>

ViewSet == {Views[i] : i \in 1..Len(Views)}
Planes == ViewSet \ {Segmentation}
SegPlaneSet == {SegPlanes[i] : i \in 1..Len(SegPlanes)}
Modes == {"raw", "blur", "greedy"}
NoLines == [k \in {} |-> None]

\* Why the program goes down.
Reasons == {"level", "tree", "dataset", "chain", "volume", "crop", "file"}

ASSUME ViewsAssumption ==
    /\ Views \in Seq(ViewSet) /\ Segmentation \in ViewSet
    /\ SegPlanes \in Seq(Planes) /\ Views[1] = ManualPlane
    /\ Crop \notin ViewSet /\ None \notin ViewSet \cup {Crop} \cup Volumes \cup Reasons
    /\ Scales \in [Volumes -> Nat]
    /\ Packages \subseteq Seq(Volumes) /\ \A p \in Packages : p # <<>>
ASSUME BoundsAssumption ==
    Margin \in Nat /\ MaxZoom \in Nat /\ MaxOffset \in Nat /\ MaxOps \in Nat
ASSUME CentresAssumption == Centres \subseteq Int /\ None \notin Centres \cup {0}

-----------------------------------------------------------------------------
\* What is drawn.

\* Whether a view has something to draw (the guard of renderVisible and of
\* renderIntersections).
CanDraw(w) == w.vol # None /\ Scales[w.vol] > 0 /\ w.surf # None

\* The operations that are switched on.
SwitchedOn(ops) == SelectSeq(ops, LAMBDA op : op.on)

\* OpChain::gen: the segmentation as its chain makes it at a place.
Sheet(path, at, off) ==
    [of |-> path, mode |-> chains[path].mode,
     ops |-> SwitchedOn(chains[path].ops), at |-> at, off |-> off]

\* The image of a plane.
Slice(v, w) ==
    [plane |-> plane[v], off |-> w.zoff, area |-> w.area, level |-> w.level,
     vol |-> w.vol]

\* The lines in which the crop cuts a plane, within the area the view shows.
Traced(v, w) ==
    [plane |-> plane[v], sheet |-> surfs[Crop], area |-> w.area,
     level |-> w.level]

\* invalidateIntersect: lines of one surface, or all for the view's own.
Dropped(v, w, name) ==
    IF name = v THEN [w EXCEPT !.lines = NoLines]
    ELSE [w EXCEPT !.lines = [k \in DOMAIN w.lines \ {name} |-> w.lines[k]]]

\* renderIntersections draws only what is not drawn yet, and nothing in a view
\* that is shifted along its normal.
Traces(v, w) ==
    /\ v # Segmentation
    /\ CanDraw(w) /\ w.zoff = 0
    /\ surfs[Crop] # None /\ Crop \notin DOMAIN w.lines

Maps(v, w) ==
    IF v = Segmentation /\ CanDraw(w) /\ w.zoff = 0 /\ surfs[Crop] # None
    THEN {k \in SegPlaneSet \ DOMAIN w.lines : inters[k] # None}
    ELSE {}

Lined(v, w) ==
    IF Traces(v, w)
    THEN [w EXCEPT !.lines = [k \in {Crop} |-> Traced(v, w)],
                   !.ignoring = TRUE]
    ELSE [w EXCEPT !.lines =
            [k \in DOMAIN w.lines \cup Maps(v, w) |->
                IF k \in DOMAIN w.lines THEN w.lines[k]
                ELSE [lines |-> inters[k], sheet |-> surfs[Crop], at |-> vis]]]

-----------------------------------------------------------------------------
\* What can be left to run.

ToAll(slot(_)) == [i \in 1..Len(Views) |-> slot(Views[i])]

SetSurface(n, s) == [call |-> "setSurface", name |-> n, surf |-> s]
SurfaceChanged(v, n, s) ==
    [call |-> "onSurfaceChanged", view |-> v, name |-> n, surf |-> s]
Render(v, force) == [call |-> "renderVisible", view |-> v, force |-> force]
Shown(v, s) == [call |-> "shown", view |-> v, sheet |-> s]
Redraw(v, n) == [call |-> "redraw", view |-> v, name |-> n]
SetIntersection(v, l) == [call |-> "setIntersection", view |-> v, lines |-> l]
IntersectionChanged(v, by) ==
    [call |-> "onIntersectionChanged", view |-> v, by |-> by]
Listen(v) == [call |-> "listen", view |-> v]
SetFocus == [call |-> "setPOI"]
FocusChanged(v) == [call |-> "onPOIChanged", view |-> v]
ScrollContentsBy(v) == [call |-> "scrollContentsBy", view |-> v]
MovePlane(v) == [call |-> "movePlane", view |-> v]
SetVolume(x) == [call |-> "setVolume", vol |-> x]
VolumeChanged(v, x) == [call |-> "OnVolumeChanged", view |-> v, vol |-> x]
ClearTree == [call |-> "clearTree"]
ChainSelected(p) == [call |-> "onOpChainSelected", path |-> p]

\* setVolume by OpenVolume, a second time by the first item of volSelect, and
\* the tree of surfaces filled anew.
OpenCalls(p) == <<SetVolume(p[1]), SetVolume(p[1]), ClearTree>>

Init ==
    /\ plane = [v \in Planes |-> IF v \in SegPlaneSet THEN None
                                 ELSE [origin |-> None, normal |-> None]]
    /\ surfs = [n \in ViewSet \cup {Crop} |->
                    IF n \in Planes \ SegPlaneSet THEN n ELSE None]
    /\ inters = [v \in Planes |-> None]
    /\ focus = None
    /\ chains = [p \in Paths |-> None]
    /\ view = [v \in ViewSet |->
                 [surf |-> surfs[v], vol |-> None, zoom |-> 1, level |-> 1,
                  zoff |-> 0, place |-> 0, bar |-> 0, from |-> 0,
                  area |-> None, image |-> None, lines |-> NoLines,
                  ignoring |-> FALSE]]
    /\ ptr = None /\ vis = 0
    /\ vpkg \in Packages \cup {None}
    /\ current = None /\ spin = None /\ selected = None
    /\ list = [chain |-> None, ds |-> None, item |-> FALSE]
    /\ settings = [chain |-> None, op |-> None, can |-> TRUE]
    /\ calls = IF vpkg = None THEN <<>> ELSE OpenCalls(vpkg)
    /\ broken = None
    /\ inputs = 0

-----------------------------------------------------------------------------
\* Running the next handler.

Running(call) == calls # <<>> /\ Head(calls).call = call
Then(todo) == calls' = todo \o Tail(calls)
Break(why) == broken' = why /\ calls' = <<>>

\* A view redraws its lines, publishes them and goes on with todo.
Redrawn(v, w, todo) ==
    /\ view' = [view EXCEPT ![v] = Lined(v, w)]
    /\ Then(IF Traces(v, w)
            THEN <<SetIntersection(v, Traced(v, w)), Listen(v)>> \o todo
            ELSE todo)

\* CSurfaceCollection::setSurface.
DoSetSurface ==
    /\ Running("setSurface")
    /\ LET c == Head(calls) IN
        /\ surfs' = [surfs EXCEPT ![c.name] = c.surf]
        /\ Then(ToAll(LAMBDA v : SurfaceChanged(v, c.name, c.surf)))
    /\ UNCHANGED <<inters, focus, plane, chains, view, ptr, vis, window,
                   broken, inputs>>

\* Mutant: the area of the last image stays valid.
OwnSurfaceKeepsArea ==
    /\ Running("onSurfaceChanged")
    /\ LET c == Head(calls) IN
        /\ c.name = c.view
        /\ view' = [view EXCEPT ![c.view].surf = c.surf]
        /\ Then(<<Render(c.view, FALSE), Redraw(c.view, c.name)>>)
    /\ UNCHANGED <<shared, ptr, vis, window, broken, inputs>>

\* CVolumeViewer::onSurfaceChanged: the own surface is drawn again whatever
\* area is shown, then the lines with the changed surface.
OwnSurfaceChanged ==
    /\ Running("onSurfaceChanged")
    /\ LET c == Head(calls) IN
        /\ c.name = c.view
        /\ view' = [view EXCEPT ![c.view].surf = c.surf,
                                ![c.view].area = None]
        /\ Then(<<Render(c.view, FALSE), Redraw(c.view, c.name)>>)
    /\ UNCHANGED <<shared, ptr, vis, window, broken, inputs>>

\* Mutant: the lines with the changed surface are not taken away.
OtherSurfaceKeepsLines ==
    /\ Running("onSurfaceChanged")
    /\ LET c == Head(calls) IN
        /\ c.name # c.view
        /\ Redrawn(c.view, view[c.view], <<>>)
    /\ UNCHANGED <<shared, ptr, vis, window, broken, inputs>>

OtherSurfaceChanged ==
    /\ Running("onSurfaceChanged")
    /\ LET c == Head(calls) IN
        /\ c.name # c.view
        /\ Redrawn(c.view, Dropped(c.view, view[c.view], c.name), <<>>)
    /\ UNCHANGED <<shared, ptr, vis, window, broken, inputs>>

DoRedraw ==
    /\ Running("redraw")
    /\ LET c == Head(calls) IN
        Redrawn(c.view, Dropped(c.view, view[c.view], c.name), <<>>)
    /\ UNCHANGED <<shared, ptr, vis, window, broken, inputs>>

\* renderVisible returns when there is nothing to draw, or when the last image
\* reaches over what is visible.
Covers(w, at) == w.area # None /\ at - w.area \in -Margin..Margin
Covered(w) == Covers(w, w.place)
Renders(c) == CanDraw(view[c.view]) /\ (c.force \/ ~Covered(view[c.view]))

\* Volume::zarrDataset compares the level with the number of scales as an
\* unsigned number: a negative level is none either.
HasLevel(w) == w.level \in 0..(Scales[w.vol] - 1)

SkipRender ==
    /\ Running("renderVisible") /\ ~Renders(Head(calls))
    /\ Then(<<>>)
    /\ UNCHANGED <<shared, view, ptr, vis, window, broken, inputs>>

\* renderVisible and render_area of a plane.
RenderPlane ==
    /\ Running("renderVisible") /\ Renders(Head(calls))
    /\ LET v == Head(calls).view
           w == [view[v] EXCEPT !.area = view[v].place] IN
        /\ v # Segmentation
        /\ IF HasLevel(w)
           THEN /\ Redrawn(v, [w EXCEPT !.image = Slice(v, w),
                                        !.lines = NoLines], <<>>)
                /\ UNCHANGED broken
           ELSE Break("level") /\ UNCHANGED view
    /\ UNCHANGED <<shared, ptr, vis, window, inputs>>

\* render_area of the segmentation: the pointer follows the view, and the part
\* shown becomes the new crop before the image is read.
RenderSegmentation ==
    /\ Running("renderVisible") /\ Renders(Head(calls))
    /\ LET v == Head(calls).view
           w == view[v]
           at == IF ptr = None THEN 0 ELSE ptr + (w.place - vis)
           s == Sheet(w.surf, at, w.zoff) IN
        /\ v = Segmentation
        /\ ptr' = at /\ vis' = w.place
        /\ view' = [view EXCEPT ![v].area = w.place, ![v].lines = NoLines]
        /\ Then(<<SetSurface(Crop, s), Shown(v, s)>>)
    /\ UNCHANGED <<shared, window, broken, inputs>>

\* The level of the segmentation is the second; a volume without one has stopped
\* the manual plane's viewer before, which hears first.
DoShow ==
    /\ Running("shown")
    /\ LET c == Head(calls)
           w == view[c.view] IN
        Redrawn(c.view,
                [w EXCEPT !.image = [sheet |-> c.sheet, vol |-> w.vol,
                                     level |-> w.level],
                          !.lines = NoLines], <<>>)
    /\ UNCHANGED <<shared, ptr, vis, window, broken, inputs>>

\* CSurfaceCollection::setIntersection.
DoSetIntersection ==
    /\ Running("setIntersection")
    /\ LET c == Head(calls) IN
        /\ inters' = [inters EXCEPT ![c.view] = c.lines]
        /\ Then(ToAll(LAMBDA v : IntersectionChanged(v, c.view)))
    /\ UNCHANGED <<surfs, focus, plane, chains, view, ptr, vis, window,
                   broken, inputs>>

\* Mutant: a view listens to the lines it publishes itself.
IgnoresNone(v, by) == FALSE

\* onIntersectionChanged of a view: none for the lines it publishes itself.
Ignores(v, by) == view[v].ignoring /\ by = v

IgnoreIntersection ==
    /\ Running("onIntersectionChanged")
    /\ Ignores(Head(calls).view, Head(calls).by)
    /\ Then(<<>>)
    /\ UNCHANGED <<shared, view, ptr, vis, window, broken, inputs>>

DoIntersectionChanged ==
    /\ Running("onIntersectionChanged")
    /\ LET v == Head(calls).view
           by == Head(calls).by
           key == IF by = v THEN Crop ELSE IF v = Segmentation THEN by ELSE None
       IN
        /\ ~Ignores(v, by)
        /\ Redrawn(v, Dropped(v, view[v], key), <<>>)
    /\ UNCHANGED <<shared, ptr, vis, window, broken, inputs>>

DoListen ==
    /\ Running("listen")
    /\ view' = [view EXCEPT ![Head(calls).view].ignoring = FALSE]
    /\ Then(<<>>)
    /\ UNCHANGED <<shared, ptr, vis, window, broken, inputs>>

\* CVolumeViewerView::scrollContentsBy, in the order of its two lines: the viewer's
\* onScrolled draws what is visible at the old place, then the view is moved.
ScrollCalls(v) == <<Render(v, FALSE), ScrollContentsBy(v)>>

DoScrollContentsBy ==
    /\ Running("scrollContentsBy")
    /\ LET v == Head(calls).view
           w == view[v] IN
        view' = IF w.bar = w.place THEN view
                ELSE [view EXCEPT ![v].place = w.bar, ![v].from = w.place]
    /\ Then(<<>>)
    /\ UNCHANGED <<shared, ptr, vis, window, broken, inputs>>

\* CSurfaceCollection::setPOI of the focus, and onPOIChanged: a plane's view
\* is scrolled back to its origin, and the plane goes to the focus.
DoSetPOI ==
    /\ Running("setPOI")
    /\ Then(ToAll(FocusChanged))
    /\ UNCHANGED <<shared, view, ptr, vis, window, broken, inputs>>

DoFocusChanged ==
    /\ Running("onPOIChanged")
    /\ LET v == Head(calls).view
           w == view[v] IN
        IF v = Segmentation \/ w.surf = None
        THEN Then(<<>>) /\ UNCHANGED view
        ELSE /\ view' = [view EXCEPT ![v].bar = 0]
             /\ Then(IF w.bar = 0 THEN <<MovePlane(v)>>
                     ELSE ScrollCalls(v) \o <<MovePlane(v)>>)
    /\ UNCHANGED <<shared, ptr, vis, window, broken, inputs>>

DoMovePlane ==
    /\ Running("movePlane")
    /\ LET v == Head(calls).view IN
        IF plane[v].origin = focus
        THEN Then(<<>>) /\ UNCHANGED plane
        ELSE /\ plane' = [plane EXCEPT ![v].origin = focus]
             /\ Then(<<SetSurface(v, v)>>)
    /\ UNCHANGED <<surfs, inters, focus, chains, view, ptr, vis, window,
                   broken, inputs>>

\* CWindow::setVolume: the operations to come work on the second level; the
\* manual plane is set (and drawn from the old volume) before the viewers hear
\* of the new one.
DoSetVolume ==
    /\ Running("setVolume")
    /\ LET x == Head(calls).vol IN
        /\ current' = x
        /\ list' = [list EXCEPT !.ds = IF Scales[x] > 1 THEN x ELSE None]
        /\ plane' = [plane EXCEPT ![ManualPlane].normal = spin]
        /\ Then(<<SetSurface(ManualPlane, ManualPlane)>>
                \o ToAll(LAMBDA v : VolumeChanged(v, x)))
    /\ UNCHANGED <<surfs, inters, focus, chains, view, ptr, vis, vpkg, spin,
                   selected, settings, broken, inputs>>

\* CVolumeViewer::OnVolumeChanged keeps the level.
DoVolumeChanged ==
    /\ Running("OnVolumeChanged")
    /\ LET c == Head(calls) IN
        /\ view' = [view EXCEPT ![c.view].vol = c.vol]
        /\ Then(<<Render(c.view, TRUE)>>)
    /\ UNCHANGED <<shared, ptr, vis, window, broken, inputs>>

\* treeWidgetSurfaces->clear(): a selected item is deselected, and
\* onSurfaceSelected reads the item that is none.
DoClearTree ==
    /\ Running("clearTree")
    /\ IF selected = None THEN Then(<<>>) /\ UNCHANGED broken
       ELSE Break("tree")
    /\ UNCHANGED <<shared, view, ptr, vis, window, inputs>>

\* OpsList::onOpChainSelected: its tree is filled anew, which deselects the
\* selected operation, and OpsSettings::onOpSelected shows none.
DoChainSelected ==
    /\ Running("onOpChainSelected")
    /\ LET p == Head(calls).path IN
        /\ list' = [list EXCEPT !.chain = p, !.item = FALSE]
        /\ settings' = IF list.item
                       THEN [chain |-> p, op |-> None, can |-> FALSE]
                       ELSE settings
        /\ Then(<<>>)
    /\ UNCHANGED <<shared, view, ptr, vis, vpkg, current, spin, selected,
                   broken, inputs>>

Handle ==
    \/ DoSetSurface \/ OwnSurfaceChanged \/ OtherSurfaceChanged \/ DoRedraw
    \/ SkipRender \/ RenderPlane \/ RenderSegmentation \/ DoShow
    \/ DoSetIntersection \/ IgnoreIntersection \/ DoIntersectionChanged
    \/ DoListen \/ DoScrollContentsBy \/ DoSetPOI \/ DoFocusChanged \/ DoMovePlane
    \/ DoSetVolume \/ DoVolumeChanged \/ DoClearTree \/ DoChainSelected

-----------------------------------------------------------------------------
\* The user.

Input == calls = <<>> /\ broken = None
         /\ inputs < MaxInputs /\ inputs' = inputs + 1

\* CWindow::Open, which closes the package first; a package that does not load
\* leaves none.
Open(p) ==
    /\ Input
    /\ vpkg' = p /\ current' = None
    /\ calls' = IF p = None THEN <<>> ELSE OpenCalls(p)
    /\ UNCHANGED <<shared, view, ptr, vis, spin, selected, list, settings,
                   broken>>

\* Another volume of the package is selected.
SelectVolume(i) ==
    /\ Input
    /\ vpkg # None /\ i \in 1..Len(vpkg)
    /\ vpkg[i] # current
    /\ calls' = <<SetVolume(vpkg[i])>>
    /\ UNCHANGED <<shared, view, ptr, vis, window, broken>>

\* CWindow::onSurfaceSelected: chains are made once and kept.  Of a file that does not
\* load, a .vcps throws out of the slot, which ends the program, and an .obj is reported.
SelectSurface(p) ==
    /\ Input
    /\ vpkg # None /\ p # selected
    /\ selected' = p
    /\ IF p \in Readable
       THEN /\ chains' = [chains EXCEPT ![p] =
                            IF @ = None THEN [mode |-> "blur", ops |-> <<>>]
                            ELSE @]
            /\ calls' = <<SetSurface(Segmentation, p), ChainSelected(p)>>
            /\ UNCHANGED broken
       ELSE /\ Break("file") \/ UNCHANGED <<calls, broken>>
            /\ UNCHANGED chains
    /\ UNCHANGED <<surfs, inters, focus, plane, view, ptr, vis, vpkg, current,
                   spin, list, settings>>

\* OpsList::onSelChanged and OpsSettings::onOpSelected: the source (0) or one
\* of the operations.
SelectOp(i) ==
    /\ Input
    /\ list.chain # None /\ i \in 0..Len(chains[list.chain].ops)
    /\ ~(list.item /\ settings.op = i)
    /\ list' = [list EXCEPT !.item = TRUE]
    /\ settings' = [chain |-> list.chain, op |-> i, can |-> i > 0]
    /\ UNCHANGED <<shared, view, ptr, vis, vpkg, current, spin, selected,
                   calls, broken>>

\* OpsList::onAppendOpClicked: an operation works on the dataset of the volume
\* that is current now.
AppendOp ==
    /\ Input
    /\ list.chain # None
    /\ Len(chains[list.chain].ops) < MaxOps
    /\ IF list.ds = None
       THEN Break("dataset") /\ UNCHANGED chains
       ELSE /\ chains' = [chains EXCEPT ![list.chain].ops =
                            Append(@, [ds |-> list.ds, on |-> TRUE])]
            /\ calls' = <<ChainSelected(list.chain),
                          SetSurface(Segmentation, list.chain)>>
            /\ UNCHANGED broken
    /\ UNCHANGED <<surfs, inters, focus, plane, view, ptr, vis, window>>

\* OpsSettings::onEnabledChanged; the box can be clicked at start, when there
\* is no chain.
ToggleOp ==
    /\ Input
    /\ settings.can
    /\ IF settings.chain = None
       THEN Break("chain") /\ UNCHANGED chains
       ELSE /\ chains' = [chains EXCEPT
                            ![settings.chain].ops[settings.op].on = ~@]
            /\ calls' = <<SetSurface(Segmentation, settings.chain)>>
            /\ UNCHANGED broken
    /\ UNCHANGED <<surfs, inters, focus, plane, view, ptr, vis, window>>

\* FormSetSrc::onAlgoIdxChanged.
ChangeSource(m) ==
    /\ Input
    /\ settings.op = 0
    /\ chains[settings.chain].mode # m
    /\ chains' = [chains EXCEPT ![settings.chain].mode = m]
    /\ calls' = <<SetSurface(Segmentation, settings.chain)>>
    /\ UNCHANGED <<surfs, inters, focus, plane, view, ptr, vis, window, broken>>

\* CWindow::onManualPlaneChanged.
ChangeNormal(n) ==
    /\ Input
    /\ n # spin
    /\ spin' = n
    /\ plane' = [plane EXCEPT ![ManualPlane].normal = n]
    /\ calls' = <<SetSurface(ManualPlane, ManualPlane)>>
    /\ UNCHANGED <<surfs, inters, focus, chains, view, ptr, vis, vpkg, current,
                   selected, list, settings, broken>>

\* A scroll bar of the view is moved.
Scroll(v, x) ==
    /\ Input
    /\ x # view[v].bar
    /\ view' = [view EXCEPT ![v].bar = x]
    /\ calls' = ScrollCalls(v)
    /\ UNCHANGED <<shared, ptr, vis, window, broken>>

\* CVolumeViewer::onZoom with Shift: along the normal.
Shift(v, z) ==
    /\ Input
    /\ view[v].surf # None /\ z # view[v].zoff
    /\ view' = [view EXCEPT ![v].zoff = z, ![v].lines = NoLines]
    /\ calls' = <<Render(v, TRUE), Redraw(v, None)>>
    /\ UNCHANGED <<shared, ptr, vis, window, broken>>

\* Mutant: one level more than the volume has.
LevelOfPast(v, z) ==
    LET coarsest == IF v = Segmentation THEN 1 ELSE Scales[view[v].vol]
    IN  IF z <= 1 THEN 1 ELSE IF z > coarsest THEN coarsest ELSE z

\* onZoom: level of the data for a zoom of 2^-z, between one half and the
\* coarsest scale of the volume; the segmentation is always shown at one half.
LevelOf(v, z) ==
    LET coarsest == IF v = Segmentation THEN 1 ELSE Scales[view[v].vol] - 1
    IN  IF z <= 1 THEN 1 ELSE IF z > coarsest THEN coarsest ELSE z

Zoom(v, z) ==
    /\ Input
    /\ view[v].surf # None /\ z - view[v].zoom \in {-1, 1}
    /\ IF view[v].vol = None
       THEN Break("volume") /\ UNCHANGED view
       ELSE /\ view' = [view EXCEPT ![v].zoom = z, ![v].level = LevelOf(v, z),
                                    ![v].area = None, ![v].lines = NoLines]
            /\ calls' = <<Render(v, FALSE), Redraw(v, None)>>
            /\ UNCHANGED broken
    /\ UNCHANGED <<shared, ptr, vis, window>>

\* CWindow::onVolumeClicked with Ctrl on a plane: the focus moves there.
ClickPlane(v, p) ==
    /\ Input
    /\ v \in Planes /\ view[v].surf # None
    /\ focus' = p
    /\ calls' = <<SetFocus>>
    /\ UNCHANGED <<surfs, inters, plane, chains, view, ptr, vis, window, broken>>

\* onVolumeClicked with Ctrl on the segmentation, through its crop: the planes
\* across it are moved to the point before the focus is.  A segmentation that
\* was never drawn has no crop to read.
ClickSegmentation(p) ==
    /\ Input
    /\ view[Segmentation].surf # None
    /\ IF surfs[Crop] = None
       THEN Break("crop") /\ UNCHANGED <<plane, focus>>
       ELSE /\ plane' = [v \in Planes |->
                           IF v \in SegPlaneSet
                           THEN [origin |-> p, normal |-> surfs[Crop]]
                           ELSE plane[v]]
            /\ focus' = p
            /\ calls' = [i \in 1..Len(SegPlanes) |->
                            SetSurface(SegPlanes[i], SegPlanes[i])]
                        \o <<SetFocus>>
            /\ UNCHANGED broken
    /\ UNCHANGED <<surfs, inters, chains, view, ptr, vis, window>>

User ==
    \/ \E p \in Packages \cup {None} : Open(p)
    \/ \E x \in 1..Cardinality(Volumes) : SelectVolume(x)
    \/ \E p \in Paths : SelectSurface(p)
    \/ \E i \in 0..MaxOps : SelectOp(i)
    \/ AppendOp \/ ToggleOp
    \/ \E m \in Modes : ChangeSource(m)
    \/ \E n \in Normals : ChangeNormal(n)
    \/ \E v \in ViewSet :
        \/ \E x \in Centres : Scroll(v, x)
        \/ \E z \in 0..MaxOffset : Shift(v, z)
        \/ \E z \in 0..MaxZoom : Zoom(v, z)
        \/ \E p \in Points : ClickPlane(v, p)
    \/ \E p \in Points : ClickSegmentation(p)

Next == Handle \/ User
Spec == Init /\ [][Next]_vars

-----------------------------------------------------------------------------
\* Correctness.

AtRest == calls = <<>> /\ broken = None

\* When nothing is left to run, every view of a volume with zarr data shows its
\* surface as it is now - plane, chain, shift, level and volume - and that volume
\* is the current one.  The image reaches over what is visible, or over what was
\* visible before the view was scrolled last: it is never more than one scroll
\* behind, but a scroll beyond the margin leaves it behind until the next event
\* (OpChain.cpp:49, CVolumeViewer.cpp:298-312, 358 and 458-493,
\* CVolumeViewerView.cpp:17-21).
ImagesAreCurrent ==
    AtRest => \A v \in ViewSet :
        LET w == view[v] IN
        CanDraw(w) =>
            /\ Covered(w) \/ Covers(w, w.from)
            /\ current # None => w.vol = current
            /\ w.image = IF v # Segmentation THEN Slice(v, w)
                         ELSE [sheet |-> Sheet(w.surf, ptr, w.zoff),
                               vol |-> w.vol, level |-> w.level]

\* When nothing is left to run, the lines in the views of planes and in the
\* collection are those of the planes and the crop as they are now, and the
\* view of the segmentation draws the collection's lines on the crop it shows.
\* Only a plane shifted along its normal leaves old lines in the collection
\* (CVolumeViewer.cpp:271-283, 314, 491 and 508-628).
LinesAreCurrent ==
    AtRest => \A v \in ViewSet :
        LET w == view[v] IN
        CanDraw(w) /\ w.zoff = 0 /\ surfs[Crop] # None =>
            IF v # Segmentation
            THEN /\ w.lines = [k \in {Crop} |-> Traced(v, w)]
                 /\ inters[v] = Traced(v, w)
            ELSE w.lines =
                    [k \in {n \in SegPlaneSet : inters[n] # None} |->
                        [lines |-> inters[k], sheet |-> surfs[Crop],
                         at |-> vis]]

\* A level the volume does not have is only ever asked for by the first image
\* of a volume, never by zooming in the one shown, or it is the negative level
\* of a zoom while there were no zarr data (CVolumeViewer.cpp:144-168 against
\* 191-206, which keeps the level).
OnlyNewVolumesLackLevels ==
    [][broken' = "level" =>
          LET w == view[Head(calls).view] IN
          w.image = None \/ w.image.vol # w.vol \/ w.level < 0]_vars

\* Signals do not feed themselves: while the lines or the crop a viewer publishes
\* are still being heard, by views that may publish lines of their own, it does
\* not publish or show again (CVolumeViewer.cpp:273, 360 and 564-566).
NoSignalFeedsItself ==
    \A i, j \in DOMAIN calls :
        LET c == calls[i]
            d == calls[j] IN
        c.call \in {"shown", "listen"} /\ d.call = c.call /\ d.view = c.view => i = j
=============================================================================
