---------------------------- MODULE SliceViewer -----------------------------
(***************************************************************************)
(* The slice viewers of vc_canny and vc_projection: controls for the slice *)
(* and the settings, a thread that fetches the slice, a thread that draws  *)
(* an overlay on it, and a widget that shows one image.                    *)
(*                                                                         *)
(* Both threads are instances of RestartThread. Their signals reach the    *)
(* GUI thread through its event queue, in the order they were emitted,     *)
(* while the controls act on the threads at once. The threads' destructors *)
(* are left to RestartThread.                                              *)
(***************************************************************************)
EXTENDS Naturals, Sequences

CONSTANTS SliceSet, Settings,
          None,         \* no slice, no settings
          MaxChanges    \* bound: changes of the controls

ASSUME NoneAssumption == None \notin SliceSet \cup Settings
ASSUME ChangesAssumption == MaxChanges \in Nat

VARIABLES viewer,       \* "canny" or "projection"
          slice,        \* value of the slice slider
          settings,     \* CannySettings, ProjectionSettings
          original,     \* originalSliceMat_: the slice fetched last
          shown,        \* the pixmap of the ImageScrollArea
          events,       \* signals waiting in the GUI thread's queue
          changes,       \* changes of the controls so far
          fPc, fJob, fCur, fRestart, fServed,   \* fetchSliceThread_
          oPc, oJob, oCur, oRestart, oServed    \* cannyThread_, projectionThread_

fetchVars == <<fPc, fJob, fCur, fRestart, fServed>>
overlayVars == <<oPc, oJob, oCur, oRestart, oServed>>
controls == <<viewer, slice, settings, changes>>
viewerVars == <<controls, original, shown, events, fetchVars, overlayVars>>

\* The windows outlive the model: the threads are in use, neither aborted nor missed.
Fetch == INSTANCE RestartThread
         WITH wpc <- fPc, job <- fJob, cur <- fCur, restart <- fRestart, served <- fServed,
              gui <- "using", abort <- "using" = "gone", missed <- "using" = "gone", MaxJobs <- 0

Overlay == INSTANCE RestartThread
           WITH wpc <- oPc, job <- oJob, cur <- oCur, restart <- oRestart, served <- oServed,
                gui <- "using", abort <- "using" = "gone", missed <- "using" = "gone", MaxJobs <- 0

\* An image: slice i with the overlay that settings x give for slice c. For Canny
\* c is i; the projection cuts the mesh at the slice the slider shows.
Image(i, x, c) == [image |-> i, params |-> x, cut |-> c]
Plain(i) == Image(i, None, None)

Images == [image : SliceSet \cup {None}, params : Settings \cup {None}, cut : SliceSet \cup {None}]

\* The constructors have asked for the first slice. runCanny ignored their call for
\* an overlay, there being no image; ProjectionSettingsWidget made none.
ViewerInit ==
    /\ viewer \in {"canny", "projection"}
    /\ slice \in SliceSet
    /\ settings \in Settings
    /\ original = None
    /\ shown = Plain(None)
    /\ events = <<>>
    /\ changes = 0
    /\ fPc = "top" /\ fJob = slice /\ fCur = None /\ fRestart = FALSE /\ fServed = None
    /\ Overlay!InitWith(Plain(None))

-----------------------------------------------------------------------------
\* handleSettingsChange of the viewer widget, with the settings and the slider's
\* slice of the caller: runCanny refuses an empty image, runProjection does not.
RequestOverlay(i, x) ==
    \/ /\ viewer = "canny"
       /\ i = None
       /\ UNCHANGED overlayVars
    \/ /\ viewer = "canny"
       /\ i # None
       /\ Overlay!Request(Image(i, x, i))
    \/ /\ viewer = "projection"
       /\ Overlay!Request(Image(i, x, slice))

Change ==
    /\ changes < MaxChanges
    /\ changes' = changes + 1

\* handle_slice_change_, handleSliceChange.
MoveSlider(s) ==
    /\ Change
    /\ slice' = s
    /\ Fetch!Request(s)
    /\ UNCHANGED <<viewer, settings, original, shown, events, overlayVars>>

\* Mutant of ChangeSettings: the overlay is not redrawn.
ChangeSettingsSilently(x) ==
    /\ Change
    /\ settings' = x
    /\ UNCHANGED <<viewer, slice, original, shown, events, fetchVars, overlayVars>>

\* handle_settings_change_.
ChangeSettings(x) ==
    /\ Change
    /\ settings' = x
    /\ RequestOverlay(original, x)
    /\ UNCHANGED <<viewer, slice, original, shown, events, fetchVars>>

Receive(signal) ==
    /\ events # <<>>
    /\ Head(events).signal = signal
    /\ events' = Tail(events)

\* update_slice_image_: shows the slice and, by sliceLoaded, asks for its overlay
\* with the settings of the moment.
FetchedSlice ==
    /\ Receive("fetchedSlice")
    /\ original' = Head(events).arg
    /\ shown' = Plain(original')
    /\ RequestOverlay(original', settings)
    /\ UNCHANGED <<controls, fetchVars>>

\* updatePixmap with the overlay.
RanOverlay ==
    /\ Receive("ranOverlay")
    /\ shown' = Head(events).arg
    /\ UNCHANGED <<controls, original, fetchVars, overlayVars>>

Gui == FetchedSlice \/ RanOverlay

-----------------------------------------------------------------------------
\* A signal emitted by a worker thread is queued for the GUI thread.
Post(signal, arg) == events' = Append(events, [signal |-> signal, arg |-> arg])

FetchRun ==
    /\ \/ Fetch!Turn /\ UNCHANGED events
       \/ Fetch!Emit /\ Post("fetchedSlice", fCur)
    /\ UNCHANGED <<controls, original, shown, overlayVars>>

OverlayRun ==
    /\ \/ Overlay!Turn /\ UNCHANGED events
       \/ Overlay!Emit /\ Post("ranOverlay", oCur)
    /\ UNCHANGED <<controls, original, shown, fetchVars>>

\* Nothing is left to do until the user acts.
Quiet == fPc = "asleep" /\ oPc = "asleep" /\ events = <<>>

Idle == Quiet /\ UNCHANGED viewerVars

ViewerNext ==
    \/ \E s \in SliceSet : MoveSlider(s)
    \/ \E x \in Settings : ChangeSettings(x)
    \/ Gui
    \/ FetchRun
    \/ OverlayRun
    \/ Idle

ViewerSpec == ViewerInit /\ [][ViewerNext]_viewerVars

\* The event loop handles queued signals and the scheduler runs both threads.
FairViewerSpec ==
    /\ ViewerSpec
    /\ WF_viewerVars(Gui)
    /\ WF_viewerVars(FetchRun)
    /\ WF_viewerVars(OverlayRun)

-----------------------------------------------------------------------------
(***************************************************************************)
(* Properties.                                                             *)
(***************************************************************************)
\* Type invariant. A fetched slice is shown before anything is drawn on it, so
\* only a projection asked for too early has no image.
ViewerTypeOK ==
    /\ viewer \in {"canny", "projection"}
    /\ slice \in SliceSet
    /\ settings \in Settings
    /\ original \in SliceSet \cup {None}
    /\ shown \in Images
    /\ \A n \in DOMAIN events :
           \/ events[n].signal = "fetchedSlice" /\ events[n].arg \in SliceSet
           \/ events[n].signal = "ranOverlay" /\ events[n].arg \in Images
    /\ viewer = "canny" => oJob.image = oJob.cut
    /\ changes \in 0..MaxChanges

\* When nothing is left to do, the image shown is the one the controls call for: the
\* slice of the slider, with the overlay of the settings, drawn on that slice
\* (CannyViewerWindow.cpp, SliceProjectionViewerWidget.cpp).
AtRestShowsControls == Quiet => shown = Image(slice, settings, slice)

\* Once the user stops, the viewer gets there: restarts do not starve the worker
\* and no request is lost between the threads.
EventuallyShowsControls == <>[](shown = Image(slice, settings, slice))
=============================================================================
