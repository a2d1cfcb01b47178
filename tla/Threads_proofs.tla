---------------------------- MODULE Threads_proofs ----------------------------
(***************************************************************************)
(* The threads that read slices for a window: those of the slice viewers,  *)
(* for any slices and settings and any number of changes; and the          *)
(* prefetcher of VC, for any number of slices, any steps and widths and    *)
(* any number of inputs.                                                   *)
(***************************************************************************)
EXTENDS SliceViewer, Prefetch, TLAPS

-----------------------------------------------------------------------------
(***************************************************************************)
(* The slice viewers: the queue of events.                                 *)
(***************************************************************************)
Signals == [signal : {"fetchedSlice"}, arg : SliceSet] \cup [signal : {"ranOverlay"}, arg : Images]

Waits(q, s) == \E n \in 1..Len(q) : q[n].signal = s

\* The last signal s waiting carries v.
Brings(q, s, v) ==
    \E n \in 1..Len(q) :
        /\ q[n].signal = s /\ q[n].arg = v
        /\ \A m \in (n + 1)..Len(q) : q[m].signal # s

\* What is shown now becomes v with the last of the signals s, or is v if there is none.
Settles(q, s, now, v) == Brings(q, s, v) \/ (~Waits(q, s) /\ now = v)

\* A signal emitted is the last of its kind and leaves the other kind as it was.
LEMMA Posted ==
    ASSUME NEW q \in Seq(Signals), NEW e \in Signals
    PROVE  /\ Append(q, e) \in Seq(Signals)
           /\ Brings(Append(q, e), e.signal, e.arg)
           /\ \A s, now, v : s # e.signal =>
                  /\ Waits(Append(q, e), s) <=> Waits(q, s)
                  /\ Settles(q, s, now, v) => Settles(Append(q, e), s, now, v)
  <1> DEFINE p == Append(q, e)
  <1>1. /\ p \in Seq(Signals) /\ Len(q) \in Nat /\ Len(p) = Len(q) + 1
        /\ p[Len(q) + 1] = e /\ \A n \in 1..Len(q) : p[n] = q[n]
    OBVIOUS
  <1> HIDE DEF p
  <1>2. Brings(p, e.signal, e.arg)
    BY <1>1 DEF Brings
  <1>3. ASSUME NEW s, s # e.signal PROVE Waits(p, s) <=> Waits(q, s)
    BY <1>1, <1>3 DEF Waits
  <1>4. ASSUME NEW s, NEW v, s # e.signal, Brings(q, s, v) PROVE Brings(p, s, v)
    <2>1. PICK n \in 1..Len(q) : /\ q[n].signal = s /\ q[n].arg = v
                                 /\ \A m \in (n + 1)..Len(q) : q[m].signal # s
      BY <1>4 DEF Brings
    <2>2. \A m \in (n + 1)..Len(p) : p[m].signal # s
      BY <1>1, <1>4, <2>1
    <2> QED
      BY <1>1, <2>1, <2>2 DEF Brings
  <1> QED
    BY <1>1, <1>2, <1>3, <1>4 DEF Settles, p

\* The signal received shows what it carries, the rest of the queue what it did.
LEMMA Received ==
    ASSUME NEW q \in Seq(Signals), q # <<>>
    PROVE  /\ Tail(q) \in Seq(Signals) /\ Head(q) \in Signals
           /\ \A now, v : Settles(q, Head(q).signal, now, v)
                            => Settles(Tail(q), Head(q).signal, Head(q).arg, v)
           /\ \A s, now, v : s # Head(q).signal =>
                  /\ Waits(Tail(q), s) <=> Waits(q, s)
                  /\ Settles(q, s, now, v) => Settles(Tail(q), s, now, v)
  <1> DEFINE t == Tail(q)
  <1>1. /\ t \in Seq(Signals) /\ Head(q) \in Signals /\ Head(q) = q[1]
        /\ Len(q) \in Nat \ {0} /\ Len(t) = Len(q) - 1
        /\ \A n \in 1..Len(t) : t[n] = q[n + 1]
    OBVIOUS
  <1>2. \A n \in 2..Len(q) : n - 1 \in 1..Len(t) /\ t[n - 1] = q[n]
    BY <1>1
  <1> HIDE DEF t
  <1>3. ASSUME NEW s, NEW v, NEW n \in 2..Len(q), q[n].signal = s, q[n].arg = v,
               \A m \in (n + 1)..Len(q) : q[m].signal # s
        PROVE  Brings(t, s, v)
    <2>1. \A m \in ((n - 1) + 1)..Len(t) : t[m].signal # s
      BY <1>1, <1>3
    <2>2. n - 1 \in 1..Len(t) /\ t[n - 1] = q[n]
      BY <1>2
    <2> QED
      BY <1>3, <2>1, <2>2 DEF Brings
  <1>4. ASSUME NEW s, s # Head(q).signal PROVE Waits(t, s) <=> Waits(q, s)
    <2>1. ASSUME Waits(t, s) PROVE Waits(q, s)
      <3>1. PICK n \in 1..Len(t) : t[n].signal = s
        BY <2>1 DEF Waits
      <3>2. n + 1 \in 1..Len(q) /\ q[n + 1].signal = s
        BY <1>1, <3>1
      <3> QED
        BY <3>2 DEF Waits
    <2>2. ASSUME Waits(q, s) PROVE Waits(t, s)
      <3>1. PICK n \in 1..Len(q) : q[n].signal = s
        BY <2>2 DEF Waits
      <3>2. n \in 2..Len(q)
        BY <1>1, <1>4, <3>1
      <3> QED
        BY <1>2, <3>1, <3>2 DEF Waits
    <2> QED
      BY <2>1, <2>2
  <1>5. ASSUME NEW s, NEW v, s # Head(q).signal, Brings(q, s, v) PROVE Brings(t, s, v)
    <2>1. PICK n \in 1..Len(q) : /\ q[n].signal = s /\ q[n].arg = v
                                 /\ \A m \in (n + 1)..Len(q) : q[m].signal # s
      BY <1>5 DEF Brings
    <2>2. n \in 2..Len(q)
      BY <1>1, <1>5, <2>1
    <2> QED
      BY <1>3, <2>1, <2>2
  <1>6. ASSUME NEW now, NEW v, Settles(q, Head(q).signal, now, v)
        PROVE  Settles(t, Head(q).signal, Head(q).arg, v)
    <2> DEFINE s == Head(q).signal
    <2>1. Waits(q, s)
      BY <1>1 DEF Waits
    <2>2. PICK n \in 1..Len(q) : /\ q[n].signal = s /\ q[n].arg = v
                                 /\ \A m \in (n + 1)..Len(q) : q[m].signal # s
      BY <1>6, <2>1 DEF Settles, Brings
    <2>3. CASE n = 1
      <3>1. \A m \in 1..Len(t) : t[m].signal # s
        BY <1>1, <2>2, <2>3
      <3> QED
        BY <1>1, <2>2, <2>3, <3>1 DEF Settles, Waits
    <2>4. CASE n # 1
      <3>1. n \in 2..Len(q)
        BY <1>1, <2>4
      <3> HIDE DEF s
      <3>2. Brings(t, s, v)
        BY <1>3, <2>2, <3>1
      <3> QED
        BY <3>2 DEF Settles, s
    <2> QED
      BY <2>3, <2>4
  <1> QED
    BY <1>1, <1>4, <1>5, <1>6 DEF Settles, t

-----------------------------------------------------------------------------
(***************************************************************************)
(* The slice viewers: a thread.                                            *)
(***************************************************************************)
\* The worker will emit for the job asked for last before it sleeps.
Due(pc, restart) == pc \in {"top", "read", "check", "work", "woken"} \/ (pc = "end" /\ restart)

\* A worker that has copied its job has copied the last one, or will start anew.
ThreadOK(pc, job, own, restart, J) ==
    /\ pc \in {"off", "top", "read", "check", "work", "end", "asleep", "woken"}
    /\ restart \in BOOLEAN
    /\ job \in J /\ own \in J \cup {None}
    /\ pc \in {"check", "work"} => own \in J /\ (restart \/ own = job)

FetchOK == ThreadOK(fPc, fJob, fCur, fRestart, SliceSet)
OverlayOK == ThreadOK(oPc, oJob, oCur, oRestart, Images)

FetchDue == Due(fPc, fRestart)
OverlayDue == Due(oPc, oRestart)

\* A request makes its job due, wherever the worker is.
LEMMA FetchRequested ==
    ASSUME NEW j \in SliceSet, FetchOK, Fetch!Request(j)
    PROVE  FetchOK' /\ FetchDue' /\ fJob' = j
  BY DEF FetchOK, ThreadOK, FetchDue, Due, Fetch!Request, Fetch!IsRunning, Fetch!Goto, Fetch!WakeOne

LEMMA OverlayRequested ==
    ASSUME NEW j \in Images, OverlayOK, Overlay!Request(j)
    PROVE  OverlayOK' /\ OverlayDue' /\ oJob' = j
  BY DEF OverlayOK, ThreadOK, OverlayDue, Due, Overlay!Request, Overlay!IsRunning, Overlay!Goto,
         Overlay!WakeOne

\* No step of a turn but the signal makes a job due or loses it.
LEMMA FetchTurns ==
    ASSUME FetchOK, Fetch!Turn
    PROVE  FetchOK' /\ (FetchDue' <=> FetchDue) /\ fJob' = fJob
  BY DEF FetchOK, ThreadOK, FetchDue, Due, Fetch!Turn, Fetch!Top, Fetch!Read, Fetch!Check,
         Fetch!EndTurn, Fetch!Wake, Fetch!Goto

LEMMA OverlayTurns ==
    ASSUME OverlayOK, Overlay!Turn
    PROVE  OverlayOK' /\ (OverlayDue' <=> OverlayDue) /\ oJob' = oJob
  BY DEF OverlayOK, ThreadOK, OverlayDue, Due, Overlay!Turn, Overlay!Top, Overlay!Read,
         Overlay!Check, Overlay!EndTurn, Overlay!Wake, Overlay!Goto

\* After the signal the job is due still, or it was the job asked for last.
LEMMA FetchEmits ==
    ASSUME FetchOK, Fetch!Emit
    PROVE  FetchOK' /\ fJob' = fJob /\ fCur \in SliceSet /\ (FetchDue' \/ fCur = fJob)
  BY DEF FetchOK, ThreadOK, FetchDue, Due, Fetch!Emit, Fetch!Goto

LEMMA OverlayEmits ==
    ASSUME OverlayOK, Overlay!Emit
    PROVE  OverlayOK' /\ oJob' = oJob /\ oCur \in Images /\ (OverlayDue' \/ oCur = oJob)
  BY DEF OverlayOK, ThreadOK, OverlayDue, Due, Overlay!Emit, Overlay!Goto

-----------------------------------------------------------------------------
(***************************************************************************)
(* The slice viewers: the invariant.                                       *)
(***************************************************************************)
Wanted == Image(slice, settings, slice)

\* The slice of the slider will be fetched, or is on its way, or is there.
FetchInv ==
    /\ fJob = slice
    /\ FetchDue \/ Settles(events, "fetchedSlice", original, slice)

\* A slice is still to come, with which its overlay is asked for; or the overlay of
\* the controls is asked for, and will be drawn, or is on its way, or is shown.
OverlayInv ==
    \/ FetchDue
    \/ Waits(events, "fetchedSlice")
    \/ oJob = Wanted /\ (OverlayDue \/ Settles(events, "ranOverlay", shown, Wanted))

ViewerInv ==
    /\ viewer \in {"canny", "projection"}
    /\ slice \in SliceSet
    /\ settings \in Settings
    /\ original \in SliceSet \cup {None}
    /\ shown \in Images
    /\ changes \in 0..MaxChanges
    /\ events \in Seq(Signals)
    /\ FetchOK /\ OverlayOK
    /\ viewer = "canny" => oJob.image = oJob.cut
    /\ FetchInv
    /\ OverlayInv

\* Images of what there is, or of nothing yet.
LEMMA ImageType ==
    \A i, c \in SliceSet \cup {None}, x \in Settings \cup {None} :
        /\ Image(i, x, c) \in Images
        /\ Image(i, x, c).image = i /\ Image(i, x, c).cut = c
  BY DEF Image, Images

LEMMA InitViewerInv == ViewerInit => ViewerInv
  <1> SUFFICES ASSUME ViewerInit PROVE ViewerInv
    OBVIOUS
  <1>1. Plain(None) \in Images /\ Plain(None).image = Plain(None).cut
    BY ImageType DEF Plain
  <1>2. FetchOK /\ FetchDue /\ fJob = slice
    BY DEF ViewerInit, FetchOK, ThreadOK, FetchDue, Due
  <1>3. OverlayOK /\ oJob = Plain(None)
    BY <1>1 DEF ViewerInit, OverlayOK, ThreadOK, Overlay!InitWith
  <1> QED
    BY <1>1, <1>2, <1>3, ChangesAssumption DEF ViewerInit, ViewerInv, FetchInv, OverlayInv

\* A slice that is there, with settings x, gives the overlay the controls call for; for
\* none, canny asks for nothing.
LEMMA OverlayAsked ==
    ASSUME ViewerInv, NEW i \in SliceSet \cup {None}, NEW x \in Settings, RequestOverlay(i, x)
    PROVE  /\ OverlayOK'
           /\ viewer = "canny" => oJob'.image = oJob'.cut
           /\ i = slice => oJob' = Image(slice, x, slice) /\ OverlayDue'
  <1> USE DEF ViewerInv
  <1>1. CASE viewer = "canny" /\ i = None /\ UNCHANGED overlayVars
    BY <1>1, NoneAssumption DEF overlayVars, OverlayOK, ThreadOK
  <1>2. CASE viewer = "canny" /\ i # None /\ Overlay!Request(Image(i, x, i))
    BY <1>2, ImageType, OverlayRequested
  <1>3. CASE viewer = "projection" /\ Overlay!Request(Image(i, x, slice))
    BY <1>3, ImageType, OverlayRequested
  <1> QED
    BY <1>1, <1>2, <1>3 DEF RequestOverlay

LEMMA MoveSliderKeeps == ASSUME ViewerInv, NEW s \in SliceSet, MoveSlider(s) PROVE ViewerInv'
  <1>1. FetchOK' /\ FetchDue' /\ fJob' = s
    BY FetchRequested DEF ViewerInv, MoveSlider
  <1>2. OverlayOK' /\ oJob' = oJob
    BY DEF ViewerInv, MoveSlider, overlayVars, OverlayOK
  <1> QED
    BY <1>1, <1>2, ChangesAssumption DEF ViewerInv, MoveSlider, Change, FetchInv, OverlayInv

LEMMA ChangeSettingsKeeps == ASSUME ViewerInv, NEW x \in Settings, ChangeSettings(x) PROVE ViewerInv'
  <1>1. /\ slice' = slice /\ settings' = x /\ viewer' = viewer /\ original' = original
        /\ shown' = shown /\ events' = events /\ changes' \in 0..MaxChanges
    BY ChangesAssumption DEF ChangeSettings, Change, ViewerInv
  <1>2. FetchOK' /\ FetchInv' /\ (FetchDue' <=> FetchDue)
    BY <1>1 DEF ChangeSettings, fetchVars, ViewerInv, FetchOK, FetchInv, FetchDue
  <1>3. /\ OverlayOK' /\ (viewer = "canny" => oJob'.image = oJob'.cut)
        /\ original = slice => oJob' = Image(slice, x, slice) /\ OverlayDue'
    BY OverlayAsked DEF ChangeSettings, ViewerInv
  <1>4. OverlayInv'
    <2>1. CASE FetchDue \/ Waits(events, "fetchedSlice")
      BY <1>1, <1>2, <2>1 DEF OverlayInv
    <2>2. CASE ~FetchDue /\ ~Waits(events, "fetchedSlice")
      <3>1. original = slice
        BY <2>2 DEF ViewerInv, FetchInv, Settles, Brings, Waits
      <3> QED
        BY <1>1, <1>3, <3>1 DEF OverlayInv, Wanted
    <2> QED
      BY <2>1, <2>2
  <1> QED
    BY <1>1, <1>2, <1>3, <1>4 DEF ViewerInv

LEMMA FetchedSliceKeeps == ASSUME ViewerInv, FetchedSlice PROVE ViewerInv'
  <1>1. /\ events # <<>> /\ events' = Tail(events) /\ Head(events).signal = "fetchedSlice"
        /\ original' = Head(events).arg /\ shown' = Plain(original')
        /\ slice' = slice /\ settings' = settings /\ viewer' = viewer /\ changes' = changes
    BY DEF FetchedSlice, Receive, controls
  <1>2. events \in Seq(Signals)
    BY DEF ViewerInv
  <1>3. events' \in Seq(Signals) /\ original' \in SliceSet
    <2>1. Head(events) \in Signals /\ Tail(events) \in Seq(Signals)
      BY <1>1, <1>2, Received
    <2> QED
      BY <1>1, <2>1 DEF Signals
  <1>4. shown' \in Images
    BY <1>1, <1>3, ImageType DEF Plain
  <1>5. FetchOK' /\ fJob' = fJob /\ (FetchDue' <=> FetchDue)
    BY DEF FetchedSlice, fetchVars, ViewerInv, FetchOK, FetchDue
  <1>6. FetchDue \/ Settles(events', "fetchedSlice", original', slice)
    <2>1. FetchDue \/ Settles(events, "fetchedSlice", original, slice)
      BY DEF ViewerInv, FetchInv
    <2> QED
      BY <1>1, <1>2, <2>1, Received
  <1>7. /\ OverlayOK' /\ (viewer = "canny" => oJob'.image = oJob'.cut)
        /\ original' = slice => oJob' = Wanted /\ OverlayDue'
    <2>1. PICK i \in SliceSet : i = original'
      BY <1>3
    <2>2. RequestOverlay(i, settings)
      BY <2>1 DEF FetchedSlice
    <2> QED
      BY <2>1, <2>2, OverlayAsked DEF ViewerInv, Wanted
  <1>8. OverlayInv'
    <2>1. CASE FetchDue \/ Waits(events', "fetchedSlice")
      BY <1>5, <2>1 DEF OverlayInv
    <2>2. CASE ~FetchDue /\ ~Waits(events', "fetchedSlice")
      <3>1. original' = slice
        BY <1>6, <2>2 DEF Settles, Brings, Waits
      <3> QED
        BY <1>1, <1>7, <3>1 DEF OverlayInv, Wanted
    <2> QED
      BY <2>1, <2>2
  <1> QED
    BY <1>1, <1>3, <1>4, <1>5, <1>6, <1>7, <1>8 DEF ViewerInv, FetchInv

LEMMA RanOverlayKeeps == ASSUME ViewerInv, RanOverlay PROVE ViewerInv'
  <1>1. /\ events # <<>> /\ events' = Tail(events) /\ Head(events).signal = "ranOverlay"
        /\ shown' = Head(events).arg /\ original' = original
        /\ slice' = slice /\ settings' = settings /\ viewer' = viewer /\ changes' = changes
    BY DEF RanOverlay, Receive, controls
  <1>2. events \in Seq(Signals)
    BY DEF ViewerInv
  <1>3. events' \in Seq(Signals) /\ shown' \in Images
    <2>1. Head(events) \in Signals /\ Tail(events) \in Seq(Signals)
      BY <1>1, <1>2, Received
    <2> QED
      BY <1>1, <2>1 DEF Signals
  <1>4. FetchOK' /\ fJob' = fJob /\ (FetchDue' <=> FetchDue)
    BY DEF RanOverlay, fetchVars, ViewerInv, FetchOK, FetchDue
  <1>5. OverlayOK' /\ oJob' = oJob /\ (OverlayDue' <=> OverlayDue)
    BY DEF RanOverlay, overlayVars, ViewerInv, OverlayOK, OverlayDue
  <1>6. /\ Waits(events', "fetchedSlice") <=> Waits(events, "fetchedSlice")
        /\ Settles(events, "fetchedSlice", original, slice)
             => Settles(events', "fetchedSlice", original, slice)
    BY <1>1, <1>2, Received
  <1>7. Settles(events, "ranOverlay", shown, Wanted) => Settles(events', "ranOverlay", shown', Wanted)
    <2>1. PICK w : w = Wanted
      OBVIOUS
    <2>2. Settles(events, "ranOverlay", shown, w) => Settles(events', "ranOverlay", shown', w)
      BY <1>1, <1>2, Received
    <2> QED
      BY <2>1, <2>2
  <1>8. Wanted' = Wanted
    BY <1>1 DEF Wanted
  <1>9. FetchInv'
    BY <1>1, <1>4, <1>6 DEF ViewerInv, FetchInv
  <1>10. OverlayInv'
    BY <1>4, <1>5, <1>6, <1>7, <1>8 DEF ViewerInv, OverlayInv
  <1> QED
    BY <1>1, <1>3, <1>4, <1>5, <1>9, <1>10 DEF ViewerInv

LEMMA FetchRunKeeps == ASSUME ViewerInv, FetchRun PROVE ViewerInv'
  <1>1. /\ original' = original /\ shown' = shown /\ Wanted' = Wanted
        /\ slice' = slice /\ settings' = settings /\ viewer' = viewer /\ changes' = changes
    BY DEF FetchRun, controls, Wanted
  <1>2. OverlayOK' /\ oJob' = oJob /\ (OverlayDue' <=> OverlayDue)
    BY DEF FetchRun, overlayVars, ViewerInv, OverlayOK, OverlayDue
  <1>3. CASE Fetch!Turn /\ UNCHANGED events
    <2>1. FetchOK' /\ (FetchDue' <=> FetchDue) /\ fJob' = fJob
      BY <1>3, FetchTurns DEF ViewerInv
    <2>2. FetchInv' /\ OverlayInv'
      BY <1>1, <1>2, <1>3, <2>1 DEF ViewerInv, FetchInv, OverlayInv
    <2> QED
      BY <1>1, <1>2, <1>3, <2>1, <2>2 DEF ViewerInv
  <1>4. CASE Fetch!Emit /\ Post("fetchedSlice", fCur)
    <2>1. FetchOK' /\ fJob' = fJob /\ fCur \in SliceSet /\ (FetchDue' \/ fCur = fJob)
      BY <1>4, FetchEmits DEF ViewerInv
    <2>2. PICK e \in Signals : e = [signal |-> "fetchedSlice", arg |-> fCur]
      BY <2>1 DEF Signals
    <2>3. e.signal = "fetchedSlice" /\ e.arg = fCur /\ events' = Append(events, e)
      BY <1>4, <2>2 DEF Post
    <2>4. events' \in Seq(Signals) /\ Brings(events', "fetchedSlice", fCur)
      BY <2>3, Posted DEF ViewerInv
    <2>5. Waits(events', "fetchedSlice")
      BY <2>4 DEF Brings, Waits
    <2>6. FetchInv' /\ OverlayInv'
      BY <1>1, <2>1, <2>4, <2>5 DEF ViewerInv, FetchInv, OverlayInv, Settles
    <2> QED
      BY <1>1, <1>2, <2>1, <2>4, <2>6 DEF ViewerInv
  <1> QED
    BY <1>3, <1>4 DEF FetchRun

LEMMA OverlayRunKeeps == ASSUME ViewerInv, OverlayRun PROVE ViewerInv'
  <1>1. /\ original' = original /\ shown' = shown /\ Wanted' = Wanted
        /\ slice' = slice /\ settings' = settings /\ viewer' = viewer /\ changes' = changes
    BY DEF OverlayRun, controls, Wanted
  <1>2. FetchOK' /\ fJob' = fJob /\ (FetchDue' <=> FetchDue)
    BY DEF OverlayRun, fetchVars, ViewerInv, FetchOK, FetchDue
  <1>3. CASE Overlay!Turn /\ UNCHANGED events
    <2>1. OverlayOK' /\ (OverlayDue' <=> OverlayDue) /\ oJob' = oJob
      BY <1>3, OverlayTurns DEF ViewerInv
    <2>2. FetchInv' /\ OverlayInv'
      BY <1>1, <1>2, <1>3, <2>1 DEF ViewerInv, FetchInv, OverlayInv
    <2> QED
      BY <1>1, <1>2, <1>3, <2>1, <2>2 DEF ViewerInv
  <1>4. CASE Overlay!Emit /\ Post("ranOverlay", oCur)
    <2>1. OverlayOK' /\ oJob' = oJob /\ oCur \in Images /\ (OverlayDue' \/ oCur = oJob)
      BY <1>4, OverlayEmits DEF ViewerInv
    <2>2. PICK e \in Signals : e = [signal |-> "ranOverlay", arg |-> oCur]
      BY <2>1 DEF Signals
    <2>3. e.signal = "ranOverlay" /\ e.arg = oCur /\ events' = Append(events, e)
      BY <1>4, <2>2 DEF Post
    <2>4. events' \in Seq(Signals) /\ Brings(events', "ranOverlay", oCur)
      BY <2>3, Posted DEF ViewerInv
    <2>5. /\ Waits(events', "fetchedSlice") <=> Waits(events, "fetchedSlice")
          /\ Settles(events, "fetchedSlice", original, slice)
               => Settles(events', "fetchedSlice", original, slice)
      BY <2>3, Posted DEF ViewerInv
    <2>6. FetchInv' /\ OverlayInv'
      BY <1>1, <1>2, <2>1, <2>4, <2>5 DEF ViewerInv, FetchInv, OverlayInv, Settles
    <2> QED
      BY <1>1, <1>2, <2>1, <2>4, <2>6 DEF ViewerInv
  <1> QED
    BY <1>3, <1>4 DEF OverlayRun

LEMMA NextViewerInv == ViewerInv /\ [ViewerNext]_viewerVars => ViewerInv'
  <1> SUFFICES ASSUME ViewerInv, [ViewerNext]_viewerVars PROVE ViewerInv'
    OBVIOUS
  <1>1. ASSUME UNCHANGED viewerVars PROVE ViewerInv'
    BY <1>1 DEF viewerVars, controls, fetchVars, overlayVars, ViewerInv, FetchOK, OverlayOK, FetchInv,
                OverlayInv, FetchDue, OverlayDue, Wanted
  <1> QED
    BY <1>1, MoveSliderKeeps, ChangeSettingsKeeps, FetchedSliceKeeps, RanOverlayKeeps, FetchRunKeeps,
       OverlayRunKeeps DEF ViewerNext, Gui, Idle

\* At every step the image the controls call for is shown or on its way: through the
\* fetching thread, the queue of events, the drawing thread, and the queue again
\* (CannyViewerWindow.cpp, ProjectionViewerWindow.cpp and their threads).
THEOREM ViewerInvariant == ViewerSpec => []ViewerInv
  <1> QED
    BY InitViewerInv, NextViewerInv, PTL DEF ViewerSpec

\* Type correctness: no thread is given an image, a slice or settings that there are not, and
\* canny's overlay is always asked for the image it is drawn on.
THEOREM ViewerTypes == ViewerSpec => []ViewerTypeOK
  <1>1. ViewerInv => ViewerTypeOK
    <2> SUFFICES ASSUME ViewerInv PROVE ViewerTypeOK
      OBVIOUS
    <2>1. \A n \in DOMAIN events : events[n] \in Signals
      BY DEF ViewerInv
    <2> QED
      BY <2>1 DEF ViewerInv, ViewerTypeOK, Signals
  <1> QED
    BY <1>1, ViewerInvariant, PTL

\* When both threads sleep and no signal waits, a viewer shows the slider's slice with the
\* overlay of its settings, in whatever order requests, restarts and signals came.
THEOREM ViewersSettle == ViewerSpec => []AtRestShowsControls
  <1>1. ViewerInv => AtRestShowsControls
    <2> SUFFICES ASSUME ViewerInv, Quiet PROVE shown = Wanted
      BY DEF AtRestShowsControls, Wanted
    <2>1. ~FetchDue /\ ~OverlayDue
      BY DEF Quiet, FetchDue, OverlayDue, Due
    <2>2. ~Waits(events, "fetchedSlice") /\ ~Brings(events, "ranOverlay", Wanted)
      BY DEF Quiet, Waits, Brings
    <2> QED
      BY <2>1, <2>2 DEF ViewerInv, OverlayInv, Settles
  <1> QED
    BY <1>1, ViewerInvariant, PTL

-----------------------------------------------------------------------------
(***************************************************************************)
(* The prefetcher.                                                         *)
(***************************************************************************)
USE NumSlicesAssumption, SizeAssumption, StepsAssumption, FetchersAssumption,
    MaxInputsAssumption DEF Nothing, Slices

(***************************************************************************)
(* What a round has read.                                                  *)
(***************************************************************************)
\* The slices at lo to hi steps from the round's index that First and Last admit.
Ring(lo, hi) == {i \in Slices : /\ First <= i /\ i <= Last
                                /\ \E k \in lo..hi : i \in {cur + k * step, cur - k * step}}

RoundType == cur \in Slices \cup {Nothing} /\ step \in Nat \ {0}

LEMMA Limits ==
    ASSUME RoundType
    PROVE  /\ First \in Int /\ Last \in Int
           /\ 0 <= First /\ cur - Size * step <= First
           /\ Last <= NumSlices - 1 /\ Last <= cur + Size * step /\ cur <= Last
           /\ First <= cur \/ (cur = Nothing /\ First = 0)
<1>1. Size * step \in Nat
  BY DEF RoundType
<1> DEFINE p == Size * step
<1>2. First = LargerOf(0, cur - p) /\ Last = SmallerOf(NumSlices - 1, cur + p)
  BY DEF First, Last
<1>3. p \in Nat
  BY <1>1
<1> HIDE DEF p
<1>4. /\ First \in Int /\ Last \in Int
      /\ 0 <= First /\ cur - p <= First
      /\ Last <= NumSlices - 1 /\ Last <= cur + p /\ cur <= Last
      /\ First <= cur \/ (cur = Nothing /\ First = 0)
  <2>1. cur \in Int /\ cur <= NumSlices - 1 /\ (0 <= cur \/ cur = Nothing) /\ NumSlices - 1 \in Nat
    BY DEF RoundType
  <2>2. First = (IF 0 > cur - p THEN 0 ELSE cur - p)
    BY <1>2 DEF LargerOf
  <2>3. Last = (IF NumSlices - 1 < cur + p THEN NumSlices - 1 ELSE cur + p)
    BY <1>2 DEF SmallerOf
  <2> QED
    BY <1>3, <2>1, <2>2, <2>3
<1> QED
  BY <1>4 DEF p

\* A batch reads one ring: the offset and the widths count in steps. The first batch
\* of a round with no index reads slice -1 as well.
LEMMA BatchIsRing ==
    ASSUME RoundType, NEW q \in Nat
    PROVE  BatchAt(q * step) = Ring(q, q + Fetchers) \cup IF q = 0 THEN Strays ELSE {}
<1> DEFINE D == {q * step + i * step : i \in 0..Fetchers}
<1>1. cur \in Int /\ step \in Nat \ {0} /\ First \in Int /\ Last \in Int
  BY Limits DEF RoundType
<1>2. D = {k * step : k \in q..(q + Fetchers)}
  <2>1. ASSUME NEW i \in 0..Fetchers
        PROVE  q + i \in q..(q + Fetchers) /\ q * step + i * step = (q + i) * step
    BY <1>1
  <2>2. ASSUME NEW k \in q..(q + Fetchers)
        PROVE  k - q \in 0..Fetchers /\ q * step + (k - q) * step = k * step
    BY <1>1
  <2> QED
    BY <2>1, <2>2
<1>3. \A k \in q..(q + Fetchers) : k * step \in Nat /\ (k = 0 \/ k * step > 0)
  <2>1. ASSUME NEW k \in q..(q + Fetchers), k # 0
        PROVE  k * step > 0
    BY <1>1, <2>1
  <2>2. \A k \in q..(q + Fetchers) : k * step \in Nat
    BY <1>1
  <2> QED
    BY <2>1, <2>2
<1>4. ASSUME NEW x \in BatchAt(q * step)
      PROVE  x \in Ring(q, q + Fetchers) \/ (q = 0 /\ x \in Strays)
  <2>1. PICK k \in q..(q + Fetchers) :
            \/ x = cur + k * step /\ x <= Last
            \/ x = cur - k * step /\ x >= First
    BY <1>2, <1>4 DEF BatchAt
  <2>2. k * step \in Nat /\ (k = 0 \/ k * step > 0)
    BY <1>3
  <2>3. CASE x \in Slices
    <3>1. First <= x /\ x <= Last
      BY <1>1, <2>1, <2>2, <2>3, Limits
    <3> QED
      BY <2>1, <2>3, <3>1 DEF Ring
  <2>4. CASE x \notin Slices
    <3>1. x \in Int /\ x <= NumSlices - 1
      BY <1>1, <2>1, <2>2, Limits
    <3>2. x < 0
      BY <2>4, <3>1
    <3>3. x = cur + k * step
      BY <1>1, <2>1, <2>2, <3>1, <3>2, Limits
    <3>4. cur = -1 /\ k * step = 0
      BY <1>1, <2>2, <3>2, <3>3 DEF RoundType
    <3>5. k = 0 /\ q = 0 /\ x = cur
      BY <1>1, <2>2, <3>3, <3>4
    <3> QED
      BY <2>4, <3>5 DEF Strays
  <2> QED
    BY <2>3, <2>4
<1>5. ASSUME NEW x \in Ring(q, q + Fetchers)
      PROVE  x \in BatchAt(q * step)
  <2>1. PICK k \in q..(q + Fetchers) : x \in {cur + k * step, cur - k * step}
    BY <1>5 DEF Ring
  <2>2. k * step \in Nat /\ k * step \in D
    BY <1>2, <1>3
  <2>3. x <= Last /\ First <= x
    BY <1>5 DEF Ring
  <2>4. CASE x = cur + k * step
    BY <2>2, <2>3, <2>4 DEF BatchAt
  <2>5. CASE x = cur - k * step
    BY <1>1, <2>2, <2>3, <2>5 DEF BatchAt
  <2> QED
    BY <2>1, <2>4, <2>5
<1>6. ASSUME q = 0, NEW x \in Strays
      PROVE  x \in BatchAt(q * step)
  <2>1. 0 \in q..(q + Fetchers)
    BY <1>6
  <2>2. 0 * step \in D /\ 0 * step = 0
    BY <1>1, <1>2, <2>1
  <2>3. x = cur /\ cur <= Last
    BY <1>6, Limits DEF Strays
  <2>4. x = cur + 0
    BY <1>1, <2>3
  <2> QED
    BY <2>2, <2>3, <2>4 DEF BatchAt
<1> QED
  BY <1>4, <1>5, <1>6

\* Rings that follow one another make up what lies within the last distance.
LEMMA RingsAddUp ==
    ASSUME RoundType, NEW q \in Nat
    PROVE  /\ Ring(0, Fetchers) = Around(Fetchers)
           /\ Around(q) \cup Ring(q, q + Fetchers) = Around(q + Fetchers)
<1>1. \A k : k \in 0..(q + Fetchers) <=> k \in 0..q \/ k \in q..(q + Fetchers)
  OBVIOUS
<1> QED
  BY <1>1 DEF Ring, Around

\* First and Last end a round after Size steps.
LEMMA NothingBeyond ==
    ASSUME RoundType, NEW q \in Nat, q >= Size
    PROVE  Around(q) = Around(Size)
<1>1. ASSUME NEW k \in 0..q, NEW i \in {cur + k * step, cur - k * step},
             First <= i, i <= Last
      PROVE  \E j \in 0..Size : i \in {cur + j * step, cur - j * step}
  <2>1. cur \in Int /\ step \in Nat \ {0} /\ k * step \in Nat /\ Size * step \in Nat
    BY DEF RoundType
  <2>2. k * step <= Size * step \/ i = cur
    BY <1>1, <2>1, Limits
  <2>3. CASE i = cur
    <3>1. 0 \in 0..Size /\ i = cur + 0 * step
      BY <2>1, <2>3
    <3> QED
      BY <3>1
  <2>4. CASE k * step <= Size * step
    <3>1. k <= Size
      <4>1. ASSUME k > Size PROVE FALSE
        <5>1. (k - Size) * step > 0 /\ (k - Size) * step = k * step - Size * step
          BY <2>1, <4>1
        <5> QED
          BY <2>1, <2>4, <5>1
      <4> QED
        BY <4>1
    <3> QED
      BY <3>1
  <2> QED
    BY <2>2, <2>3, <2>4
<1>2. 0..Size \subseteq 0..q
  OBVIOUS
<1> QED
  BY <1>1, <1>2 DEF Around
-----------------------------------------------------------------------------
(***************************************************************************)
(* The invariant.                                                          *)
(***************************************************************************)
\* Between two batches a round has read what lies within so many steps of its index,
\* and its offset is as many steps.
RoundInv ==
    /\ wpc = "batch" => \E q \in 0..Size : /\ offset = q * step
                                           /\ fetched = IF q = 0 THEN {}
                                                        ELSE Around(q) \cup Strays
    /\ wpc = "after" => \E q \in 0..Size : /\ offset = q * step
                                           /\ fetched = Around(q + Fetchers) \cup Strays
    /\ wpc = "reset" => offset <= Size * step \/ fetched = Around(Size) \cup Strays
    /\ wpc \in {"batch", "after", "reset"} => fetched \subseteq Slices \cup Strays

\* Once a volume is closed quietly, no round starts and no index is stored before
\* another is opened; a worker that is woken then has been told to stop.
QuietInv ==
    ~volume /\ ~closedBusy =>
        /\ index = Nothing
        /\ wpc \notin {"load", "batch", "after", "crashed"}
        /\ wpc = "begin" => stop

CrashInv == wpc = "crashed" => closedBusy /\ ~volume

\* The worker goes on without an index only when that was cleared since its wait.
ClearedInv ==
    /\ wpc = "begin" /\ index = Nothing => stop \/ cleared
    /\ wpc = "load" /\ index = Nothing => cleared
    /\ wpc \in {"batch", "after", "reset"} /\ cur = Nothing => cleared

IInv == TypeOK /\ RoundInv /\ QuietInv /\ CrashInv /\ ClearedInv

LEMMA InitInv == Init => IInv
<1> SUFFICES ASSUME Init PROVE IInv
  OBVIOUS
<1>1. TypeOK
  <2>1. /\ wpc = "off" /\ gui = "open" /\ index = Nothing /\ cur = Nothing /\ step = 1
        /\ offset = 0 /\ fetched = {} /\ wanted = Nothing /\ inputs = 0
        /\ ~stop /\ {stop, volume, tool, begun, closedBusy, cleared, missed} \subseteq BOOLEAN
    BY DEF Init
  <2> QED
    BY <2>1 DEF TypeOK
<1>2. RoundInv /\ QuietInv /\ CrashInv /\ ClearedInv
  BY DEF Init, RoundInv, QuietInv, CrashInv, ClearedInv
<1> QED
  BY <1>1, <1>2 DEF IInv

\* The GUI thread leaves the round alone.
LEMMA GuiStep ==
    ASSUME IInv,
           \/ \E i \in Slices : ToggleOn(i)
           \/ ToggleOff \/ OpenSlice \/ CloseVolume \/ OpenVolume \/ Exit \/ Join
           \/ SpuriousWake \/ UNCHANGED vars
    PROVE  IInv'
<1> USE DEF IInv, TypeOK, QuietInv, CrashInv, ClearedInv, Over, watch
<1>1. ASSUME UNCHANGED round, wpc' = wpc \/ (wpc' \notin {"batch", "after", "reset"})
      PROVE  RoundInv'
  <2>1. UNCHANGED <<cur, step, offset, fetched>>
    BY <1>1 DEF round
  <2>2. (\A q : Around(q)' = Around(q)) /\ Strays' = Strays
    BY <2>1 DEF Around, First, Last, Strays
  <2> QED
    BY <1>1, <2>1, <2>2 DEF RoundInv
<1>2. ASSUME NEW i \in Slices, ToggleOn(i) PROVE IInv'
  <2>1. TypeOK' /\ QuietInv' /\ CrashInv' /\ ClearedInv'
    BY <1>2 DEF ToggleOn, Input, Notify, round
  <2> QED
    BY <1>1, <1>2, <2>1 DEF ToggleOn, Notify
<1>3. CASE ToggleOff
  <2>1. TypeOK' /\ QuietInv' /\ CrashInv' /\ ClearedInv'
    <3>1. /\ index' = Nothing /\ volume' = volume /\ volume /\ tool' \in BOOLEAN
          /\ wanted' = Nothing /\ wpc # "crashed" /\ inputs' = inputs + 1 /\ inputs < MaxInputs
          /\ UNCHANGED <<begun, gui, stop, cur, step, offset, fetched, closedBusy, missed>>
          /\ wpc' = wpc \/ wpc' = "test"
          /\ cleared' \in BOOLEAN /\ (cleared \/ wpc \in {"begin", "load"} => cleared')
      BY <1>3 DEF ToggleOff, Input, StopPrefetching, Notify, round
    <3>2. TypeOK'
      BY <3>1
    <3>3. QuietInv' /\ CrashInv'
      BY <3>1
    <3>4. ClearedInv'
      BY <3>1
    <3> QED
      BY <3>2, <3>3, <3>4
  <2> QED
    BY <1>1, <1>3, <2>1 DEF ToggleOff, StopPrefetching, Notify
<1>4. CASE OpenSlice
  <2>1. TypeOK' /\ QuietInv' /\ CrashInv' /\ ClearedInv'
    <3>1. /\ index' = Nothing /\ volume' = volume /\ volume /\ tool' = tool
          /\ wanted' = Nothing /\ wpc # "crashed" /\ inputs' = inputs + 1 /\ inputs < MaxInputs
          /\ UNCHANGED <<begun, gui, stop, cur, step, offset, fetched, closedBusy, missed>>
          /\ wpc' = wpc \/ wpc' = "test"
          /\ cleared' \in BOOLEAN /\ (cleared \/ wpc \in {"begin", "load"} => cleared')
      BY <1>4 DEF OpenSlice, Input, StopPrefetching, Notify, round
    <3>2. TypeOK'
      BY <3>1
    <3>3. QuietInv' /\ CrashInv'
      BY <3>1
    <3>4. ClearedInv'
      BY <3>1
    <3> QED
      BY <3>2, <3>3, <3>4
  <2> QED
    BY <1>1, <1>4, <2>1 DEF OpenSlice, StopPrefetching, Notify
<1>5. CASE CloseVolume
  <2>1. TypeOK' /\ QuietInv' /\ CrashInv' /\ ClearedInv'
    <3>1. /\ volume' \in BOOLEAN /\ tool' \in BOOLEAN /\ closedBusy' \in BOOLEAN
          /\ wpc # "crashed" /\ inputs' = inputs + 1 /\ inputs < MaxInputs
          /\ UNCHANGED <<wpc, gui, index, stop, cur, step, offset, fetched, wanted, begun>>
          /\ UNCHANGED <<cleared, missed>>
      BY <1>5 DEF CloseVolume, Input, round, history
    <3>2. ~closedBusy' => index = Nothing /\ wpc \notin {"begin", "load", "batch", "after"}
      BY <1>5 DEF CloseVolume, InRound
    <3>3. TypeOK'
      BY <3>1
    <3>4. QuietInv' /\ CrashInv' /\ ClearedInv'
      BY <3>1, <3>2
    <3> QED
      BY <3>3, <3>4
  <2> QED
    BY <1>1, <1>5, <2>1 DEF CloseVolume
<1>6. CASE OpenVolume
  <2>1. TypeOK' /\ QuietInv' /\ CrashInv' /\ ClearedInv'
    BY <1>6 DEF OpenVolume, StopPrefetching, Notify, round
  <2> QED
    BY <1>1, <1>6, <2>1 DEF OpenVolume, StopPrefetching, Notify
<1>7. CASE Exit
  <2>1. TypeOK' /\ QuietInv' /\ CrashInv' /\ ClearedInv'
    BY <1>7 DEF Exit, Notify, round, history
  <2> QED
    BY <1>1, <1>7, <2>1 DEF Exit, Notify
<1>8. CASE Join
  <2>1. TypeOK' /\ QuietInv' /\ CrashInv' /\ ClearedInv'
    BY <1>8 DEF Join, round, history
  <2> QED
    BY <1>1, <1>8, <2>1 DEF Join
<1>9. CASE SpuriousWake
  <2>1. TypeOK' /\ QuietInv' /\ CrashInv' /\ ClearedInv'
    BY <1>9 DEF SpuriousWake, Goto, round, history
  <2> QED
    BY <1>1, <1>9, <2>1 DEF SpuriousWake, Goto
<1>10. CASE UNCHANGED vars
  <2>1. TypeOK' /\ QuietInv' /\ CrashInv' /\ ClearedInv'
    BY <1>10 DEF vars, round, history
  <2> QED
    BY <1>1, <1>10, <2>1 DEF vars
<1> QED
  BY <1>2, <1>3, <1>4, <1>5, <1>6, <1>7, <1>8, <1>9, <1>10

LEMMA WorkerStep ==
    ASSUME IInv, Worker
    PROVE  IInv'
<1> USE DEF IInv, TypeOK, QuietInv, CrashInv, ClearedInv, Goto, history, round, watch
<1>t. RoundType
  BY DEF RoundType
<1>a. ASSUME UNCHANGED <<cur, step>>
      PROVE  (\A q : Around(q)' = Around(q)) /\ Strays' = Strays
  BY <1>a DEF Around, First, Last, Strays
<1>1. CASE Test
  BY <1>1 DEF Test, RoundInv
<1>2. CASE FallAsleep
  BY <1>2 DEF FallAsleep, RoundInv
<1>3. CASE Begin
  BY <1>3 DEF Begin, RoundInv
<1>4. CASE Load
  <2>1. step' \in Nat \ {0} /\ cur' \in Slices \cup {Nothing} /\ cur' \in Int
    BY <1>4 DEF Load
  <2>2. TypeOK' /\ QuietInv' /\ CrashInv' /\ ClearedInv'
    <3>1. /\ offset' = 0 /\ fetched' = {} /\ wpc = "load" /\ begun' \in BOOLEAN
          /\ wpc' = IF volume THEN "batch" ELSE "crashed"
          /\ UNCHANGED <<gui, index, stop, volume, tool, wanted, closedBusy, cleared, missed, inputs>>
      BY <1>4 DEF Load
    <3>2. TypeOK'
      BY <2>1, <3>1
    <3>3. QuietInv' /\ CrashInv'
      BY <3>1
    <3>4. ClearedInv'
      <4>1. cur' = index /\ wpc' \notin {"begin", "load"} /\ cleared' = cleared
        BY <3>1, <1>4 DEF Load
      <4> QED
        BY <3>1, <4>1
    <3> QED
      BY <3>2, <3>3, <3>4
  <2>3. wpc' \in {"batch", "crashed"}
    BY <1>4 DEF Load
  <2>4. offset' = 0 /\ fetched' = {}
    BY <1>4 DEF Load
  <2>5. 0 \in 0..Size /\ offset' = 0 * step'
    <3>1. \A s : s \in Nat => 0 = 0 * s
      OBVIOUS
    <3>2. step' \in Nat
      BY <2>1
    <3>3. 0 = 0 * step'
      BY <3>1, <3>2, Zenon
    <3>4. 0 \in 0..Size
      OBVIOUS
    <3> QED
      BY <2>4, <3>3, <3>4
  <2> QED
    BY <2>2, <2>3, <2>4, <2>5 DEF RoundInv
<1>5. CASE Batch
  <2>1. PICK q \in 0..Size : /\ offset = q * step
                             /\ fetched = IF q = 0 THEN {} ELSE Around(q) \cup Strays
    BY <1>5 DEF Batch, RoundInv
  <2>2. q \in Nat /\ q + Fetchers \in Nat
    OBVIOUS
  <2>3. BatchAt(offset) = Ring(q, q + Fetchers) \cup IF q = 0 THEN Strays ELSE {}
    BY <1>t, <2>1, <2>2, BatchIsRing
  <2>4. fetched' = Around(q + Fetchers) \cup Strays
    <3>1. CASE q = 0
      BY <1>5, <1>t, <2>1, <2>2, <2>3, <3>1, RingsAddUp DEF Batch
    <3>2. CASE q # 0
      BY <1>5, <1>t, <2>1, <2>2, <2>3, <3>2, RingsAddUp DEF Batch
    <3> QED
      BY <3>1, <3>2
  <2>5. /\ fetched' \subseteq Slices \cup Strays
        /\ fetched' \subseteq Slices \cup {Nothing}
    BY <1>t, <2>4 DEF Around, Strays, RoundType
  <2>6. TypeOK' /\ QuietInv' /\ CrashInv' /\ ClearedInv'
    BY <1>5, <2>5 DEF Batch
  <2>7. UNCHANGED <<cur, step, offset>> /\ wpc' \notin {"batch", "reset"}
    BY <1>5 DEF Batch
  <2> QED
    BY <1>a, <2>1, <2>4, <2>5, <2>6, <2>7 DEF RoundInv
<1>6. CASE After
  <2>1. PICK q \in 0..Size : offset = q * step /\ fetched = Around(q + Fetchers) \cup Strays
    BY <1>6 DEF After, RoundInv
  <2>2. UNCHANGED <<cur, step, fetched>> /\ Strays' = Strays /\ fetched \subseteq Slices \cup Strays
    BY <1>6, <1>a DEF After, RoundInv
  <2>3. q * step <= Size * step /\ Size * step \in Nat
    <3>1. Size - q \in Nat /\ (Size - q) * step = Size * step - q * step
      OBVIOUS
    <3>2. (Size - q) * step \in Nat /\ Size * step \in Nat /\ q * step \in Nat
      BY <3>1
    <3> QED
      BY <3>1, <3>2
  <2>4. offset + Fetchers * step = (q + Fetchers) * step /\ q + Fetchers \in Nat
    BY <2>1
  <2>5. offset + Fetchers * step \in Nat
    BY <2>4
  <2>6. TypeOK' /\ QuietInv' /\ CrashInv' /\ ClearedInv'
    BY <1>6, <2>5 DEF After
  <2>7. CASE stop \/ index # cur
    <3>1. wpc' = "reset" /\ offset' = offset
      BY <1>6, <2>7 DEF After
    <3> QED
      BY <2>1, <2>2, <2>3, <2>6, <3>1 DEF RoundInv
  <2>8. CASE ~stop /\ index = cur /\ offset + Fetchers * step <= Size * step
    <3>1. wpc' = "batch" /\ offset' = offset + Fetchers * step
      BY <1>6, <2>8 DEF After
    <3>2. q + Fetchers <= Size
      <4>1. ASSUME q + Fetchers > Size PROVE FALSE
        <5>1. (q + Fetchers - Size) * step > 0
          BY <4>1
        <5>2. (q + Fetchers - Size) * step = (q + Fetchers) * step - Size * step
          OBVIOUS
        <5> QED
          BY <2>3, <2>4, <2>5, <2>8, <5>1, <5>2
      <4> QED
        BY <4>1
    <3>3. q + Fetchers \in 0..Size /\ q + Fetchers # 0
      BY <3>2
    <3> QED
      BY <1>a, <2>1, <2>2, <2>4, <2>6, <3>1, <3>3 DEF RoundInv
  <2>9. CASE ~stop /\ index = cur /\ ~(offset + Fetchers * step <= Size * step)
    <3>1. wpc' = "reset" /\ offset' = offset + Fetchers * step
      BY <1>6, <2>9 DEF After
    <3>2. q + Fetchers >= Size
      <4>1. ASSUME q + Fetchers < Size PROVE FALSE
        <5>1. (Size - (q + Fetchers)) * step > 0
          BY <4>1
        <5>2. (Size - (q + Fetchers)) * step = Size * step - (q + Fetchers) * step
          OBVIOUS
        <5> QED
          BY <2>3, <2>4, <2>5, <2>9, <5>1, <5>2
      <4> QED
        BY <4>1
    <3>3. Around(q + Fetchers) = Around(Size)
      BY <1>t, <2>4, <3>2, NothingBeyond
    <3> QED
      BY <1>a, <2>1, <2>2, <2>6, <3>1, <3>3 DEF RoundInv
  <2> QED
    BY <2>7, <2>8, <2>9
<1>7. CASE Reset
  BY <1>7 DEF Reset, RoundInv
<1> QED
  BY <1>1, <1>2, <1>3, <1>4, <1>5, <1>6, <1>7 DEF Worker

\* The invariant holds of every behaviour of the window and its prefetching thread.
THEOREM PrefetchInvariant == Spec => []IInv
<1>1. IInv /\ [Next]_vars => IInv'
  <2> SUFFICES ASSUME IInv, [Next]_vars PROVE IInv'
    OBVIOUS
  <2>1. CASE UNCHANGED vars
    BY <2>1, GuiStep
  <2>2. CASE Next
    BY <2>2, GuiStep, WorkerStep DEF Next, Rest
  <2> QED
    BY <2>1, <2>2
<1> QED
  BY <1>1, InitInv, PTL DEF Spec

\* The types of the two threads' state.
THEOREM PrefetchTypes == Spec => []TypeOK
BY PrefetchInvariant, PTL DEF IInv

\* However wide batches and rounds are and whatever the step, a round reads outwards from
\* its index without gaps, and in the end all that its limits admit; what it reads outside
\* the volume is slice -1, after the index was cleared between its wait and its start.
THEOREM RoundsReadOutwards == Spec => []OutwardsFromIndex
<1>1. IInv => OutwardsFromIndex
  <2> SUFFICES ASSUME IInv PROVE OutwardsFromIndex
    OBVIOUS
  <2>1. ASSUME wpc = "after"
        PROVE  \E d \in 0..(Size + Fetchers) : fetched = Around(d) \cup Strays
    <3>1. PICK q \in 0..Size : fetched = Around(q + Fetchers) \cup Strays
      BY <2>1 DEF IInv, RoundInv
    <3>2. q + Fetchers \in 0..(Size + Fetchers)
      OBVIOUS
    <3> QED
      BY <3>1, <3>2
  <2>2. ASSUME wpc = "reset", offset > Size * step PROVE fetched = Around(Size) \cup Strays
    <3>1. offset \in Int /\ Size * step \in Int
      BY DEF IInv, TypeOK
    <3> QED
      BY <2>2, <3>1 DEF IInv, RoundInv
  <2>3. ASSUME wpc \in {"after", "reset"}, ~(fetched \subseteq Slices) PROVE cleared
    <3>1. fetched \subseteq Slices \cup Strays
      BY <2>3 DEF IInv, RoundInv
    <3>2. cur \notin Slices /\ cur \in Slices \cup {Nothing}
      BY <2>3, <3>1 DEF Strays, IInv, TypeOK
    <3> QED
      BY <2>3, <3>2 DEF IInv, ClearedInv
  <2> QED
    BY <2>1, <2>2, <2>3 DEF OutwardsFromIndex
<1> QED
  BY <1>1, PrefetchInvariant, PTL

\* The worker touches a missing volume only if that was closed under a round or a request.
THEOREM CrashesComeFromBusyCloses == Spec => []CrashMeansClosedBusy
<1>1. IInv => CrashMeansClosedBusy
  BY DEF IInv, CrashInv, CrashMeansClosedBusy
<1> QED
  BY <1>1, PrefetchInvariant, PTL
=============================================================================
