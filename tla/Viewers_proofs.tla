---------------------------- MODULE Viewers_proofs ----------------------------
(***************************************************************************)
(* The viewers: the worker threads behind those of VC, for any number of   *)
(* jobs, and the views of VC3D, for any number of them, of packages and of *)
(* segmentations - how their signals nest, when a level is missing, and    *)
(* that what they show is what is set when nothing is left to run.         *)
(***************************************************************************)
EXTENDS RestartThread, SurfaceViews, TLAPS

-----------------------------------------------------------------------------
(***************************************************************************)
(* The worker threads.                                                     *)
(***************************************************************************)
\* Where the worker is bound to look at a newer job before it sleeps: nothing has
\* been emitted for the job that is asked for, and a worker past its copy of the
\* job knows of a newer one by restart_.
Tracks ==
    /\ wpc = "off" => job = 0 /\ served = 0 /\ ~restart
    /\ wpc = "top" => served < job \/ abort
    /\ wpc = "read" => served < job
    /\ wpc = "check" => served < cur /\ (~restart => cur = job)
    /\ wpc = "work" => served < cur /\ (restart <=> cur < job)
    /\ wpc = "end" => (restart <=> served < job)
    /\ wpc = "asleep" => ~restart /\ served = job
    /\ wpc = "woken" => served < job \/ abort
    /\ gui = "gone" => ~IsRunning

ThreadInv == TypeOK /\ Tracks

-----------------------------------------------------------------------------
\* The object starts in the invariant.
LEMMA InitThreadInv == ThreadInit => ThreadInv
  <1> SUFFICES ASSUME ThreadInit PROVE ThreadInv
    OBVIOUS
  <1>1. TypeOK
    <2>1. job \in 0..MaxJobs /\ cur \in 0..job /\ served \in 0..cur
      BY MaxJobsAssumption DEF ThreadInit, InitWith
    <2> QED
      BY <2>1 DEF ThreadInit, InitWith, TypeOK, Places
  <1>2. Tracks
    BY DEF ThreadInit, InitWith, Tracks, IsRunning
  <1> QED
    BY <1>1, <1>2 DEF ThreadInv

\* Every step of either thread keeps the invariant.
LEMMA NextThreadInv == ThreadInv /\ [ThreadNext]_threadVars => ThreadInv'
  <1> SUFFICES ASSUME ThreadInv, [ThreadNext]_threadVars PROVE ThreadInv'
    OBVIOUS
  <1> USE MaxJobsAssumption DEF ThreadInv, TypeOK, Tracks, Places, Goto, IsRunning
  <1>1. ASSUME job < MaxJobs, Request(job + 1) PROVE ThreadInv'
    <2>1. TypeOK'
      <3>1. job' \in 0..MaxJobs /\ cur' \in 0..job' /\ served' \in 0..cur'
        BY <1>1 DEF Request
      <3> QED
        BY <1>1, <3>1 DEF Request, WakeOne
    <2>2. Tracks'
      BY <1>1 DEF Request, WakeOne
    <2> QED
      BY <2>1, <2>2
  <1>2. ASSUME Destroy PROVE ThreadInv'
    BY <1>2 DEF Destroy, WakeOne, WillWait
  <1>3. ASSUME Join PROVE ThreadInv'
    BY <1>3 DEF Join
  <1>4. ASSUME Top PROVE ThreadInv'
    BY <1>4 DEF Top
  <1>5. ASSUME Read PROVE ThreadInv'
    BY <1>5 DEF Read
  <1>6. ASSUME Check PROVE ThreadInv'
    BY <1>6 DEF Check
  <1>7. ASSUME Emit PROVE ThreadInv'
    BY <1>7 DEF Emit
  <1>8. ASSUME EndTurn PROVE ThreadInv'
    <2>1. TypeOK'
      BY <1>8 DEF EndTurn
    <2>2. Tracks'
      BY <1>8 DEF EndTurn
    <2> QED
      BY <2>1, <2>2
  <1>9. ASSUME Wake PROVE ThreadInv'
    BY <1>9 DEF Wake
  <1>10. ASSUME UNCHANGED threadVars PROVE ThreadInv'
    BY <1>10 DEF threadVars
  <1> QED
    BY <1>1, <1>2, <1>3, <1>4, <1>5, <1>6, <1>7, <1>8, <1>9, <1>10
       DEF ThreadNext, Run, Turn, Rest

\* The invariant holds in every reachable state of FetchSliceThread, CannyThread
\* and the projection threads.
THEOREM ThreadInvariant == ThreadSpec => []ThreadInv
  <1> QED
    BY InitThreadInv, NextThreadInv, PTL DEF ThreadSpec

\* Type correctness of a worker thread.
THEOREM ThreadTypeCorrect == ThreadSpec => []TypeOK
  <1>1. ThreadInv => TypeOK
    BY DEF ThreadInv
  <1> QED
    BY <1>1, ThreadInvariant, PTL

\* A worker that sleeps has served the last job asked for.
THEOREM SleepsOnlyWhenServed == ThreadSpec => []AsleepMeansServed
  <1>1. ThreadInv => AsleepMeansServed
    BY DEF ThreadInv, Tracks, AsleepMeansServed
  <1> QED
    BY <1>1, ThreadInvariant, PTL

\* No signal is repeated, for any number of jobs.
THEOREM SignalsAreNew == ThreadSpec => ServesNewer
  <1>1. ASSUME ThreadInv, [ThreadNext]_threadVars, wpc = "work", wpc' = "end"
        PROVE  served' > served
    <2>1. Emit
      BY <1>1 DEF ThreadNext, Request, Destroy, Join, Run, Turn, Top, Read, Check, Emit, EndTurn,
                  Wake, Rest, threadVars, Goto, WakeOne
    <2>2. served < cur
      BY <1>1 DEF ThreadInv, Tracks
    <2>3. cur \in Nat /\ served \in Nat
      BY <1>1, MaxJobsAssumption DEF ThreadInv, TypeOK
    <2> QED
      BY <2>1, <2>2, <2>3 DEF Emit
  <1> QED
    BY <1>1, ThreadInvariant, PTL DEF ThreadSpec, ServesNewer

-----------------------------------------------------------------------------
\* Every step of the thread is a step of the job server or changes nothing there.
LEMMA NextRefines ==
    ThreadInv /\ [ThreadNext]_threadVars => [Server!JobNext]_(Server!jobVars)
  <1> SUFFICES ASSUME ThreadInv, [ThreadNext]_threadVars
               PROVE  [Server!JobNext]_(Server!jobVars)
    OBVIOUS
  <1> USE DEF Server!JobNext, Server!jobVars
  <1>1. ASSUME Request(job + 1) PROVE Server!Ask
    BY <1>1 DEF Request, Server!Ask
  <1>2. ASSUME Destroy PROVE Server!Leave
    BY <1>2 DEF Destroy, Server!Leave
  <1>3. ASSUME Join PROVE Server!Leave
    BY <1>3 DEF Join, Server!Leave
  <1>4. ASSUME Emit PROVE Server!Serve
    <2>1. gui # "gone"
      BY <1>4 DEF ThreadInv, Tracks, Emit, IsRunning
    <2>2. cur \in (served + 1)..job
      BY <1>4 DEF ThreadInv, Tracks, TypeOK, Emit
    <2> QED
      BY <1>4, <2>1, <2>2 DEF Emit, Server!Serve
  <1>5. ASSUME Turn PROVE UNCHANGED Server!jobVars
    BY <1>5 DEF Turn, Top, Read, Check, EndTurn, Wake
  <1>6. ASSUME UNCHANGED threadVars PROVE UNCHANGED Server!jobVars
    BY <1>6 DEF threadVars
  <1> QED
    BY <1>1, <1>2, <1>3, <1>4, <1>5, <1>6 DEF ThreadNext, Run, Rest

\* A worker thread implements the job server: jobs are served in the order they
\* are asked for, none once the destructor has returned.
THEOREM ThreadImplementsLatestJob == ThreadSpec => ImplementsLatestJob
  <1>1. ThreadInit => Server!JobInit
    BY DEF ThreadInit, InitWith, Server!JobInit
  <1> QED
    BY <1>1, ThreadInvariant, NextRefines, PTL
       DEF ThreadSpec, ImplementsLatestJob, Server!JobSpec

-----------------------------------------------------------------------------
(***************************************************************************)
(* The views of VC3D: their invariant.                                     *)
(***************************************************************************)
\* A view is a record of its twelve fields, its volume is one of the volumes or none.
IsView(w) ==
    /\ w = [surf |-> w.surf, vol |-> w.vol, zoom |-> w.zoom, level |-> w.level,
            zoff |-> w.zoff, place |-> w.place, bar |-> w.bar, from |-> w.from,
            area |-> w.area,
            image |-> w.image, lines |-> w.lines, ignoring |-> w.ignoring]
    /\ w.vol \in Volumes \cup {None}
    /\ w.level \in Int

ViewTypes == DOMAIN view = ViewSet /\ \A v \in ViewSet : IsView(view[v])

IsSeq(q) == \E S : q \in Seq(S)

\* Slots of viewers are called on views, the crop is shown by the segmentation and
\* lines are published by planes.
CallOK(c) ==
    /\ c.call \in {"onSurfaceChanged", "renderVisible", "redraw", "onPOIChanged",
                   "onIntersectionChanged", "OnVolumeChanged",
                   "scrollContentsBy"} => c.view \in ViewSet
    /\ c.call = "shown" => c.view = Segmentation
    /\ c.call = "listen" => c.view \in Planes
    /\ c.call \in {"setVolume", "OnVolumeChanged"} => c.vol \in Volumes

QueueOK(q) == IsSeq(q) /\ \A i \in 1..Len(q) : CallOK(q[i])

\* The calls that publishing lines leads to, and those that publishing the crop
\* leads to.
OnLines(c) == c.call \in {"setIntersection", "onIntersectionChanged", "listen"}
OnCrop(c) ==
    OnLines(c) \/ (c.call \in {"setSurface", "onSurfaceChanged"} /\ c.name = Crop)

\* A view that publishes lines hears of no lines of its own, and has drawn them.
Publishing(w) == w.ignoring /\ Crop \in DOMAIN w.lines

ListensTo(c, v) == c.call = "listen" /\ c.view = v

\* Before the segmentation goes on with its image only the crop is heard of, and
\* before a view listens again only lines are.
Nested(q, views) ==
    \A i \in 1..Len(q) :
        /\ q[i].call = "shown" => \A j \in 1..(i - 1) : OnCrop(q[j])
        /\ q[i].call = "listen" =>
            /\ Publishing(views[q[i].view])
            /\ \A j \in 1..(i - 1) : OnLines(q[j]) /\ ~ListensTo(q[j], q[i].view)

\* The level of a plane's view is one of the volume of its image.
LevelFits(w) ==
    /\ w.image.vol \in Volumes
    /\ Scales[w.image.vol] > 1 /\ w.level < Scales[w.image.vol]

HalfOrLess(w) == w.level # 0 /\ (w.image = None \/ LevelFits(w))

\* What can be drawn was drawn from the volume that is set, or is the next to be.
Drawn(w) == CanDraw(w) => LevelFits(w) /\ w.image.vol = w.vol
Waits(v, w, q) ==
    /\ Len(q) > 0 /\ q[1].call = "renderVisible" /\ q[1].view = v
    /\ q[1].force \/ w.area = None

DrawnInv ==
    \A v \in Planes :
        /\ HalfOrLess(view[v])
        /\ broken = None => Drawn(view[v]) \/ Waits(v, view[v], calls)

ViewsInv ==
    /\ ViewTypes
    /\ vpkg \in Packages \cup {None}
    /\ QueueOK(calls)
    /\ Nested(calls, view)
    /\ DrawnInv

-----------------------------------------------------------------------------
(***************************************************************************)
(* Sequences.                                                              *)
(***************************************************************************)
\* Two sequences are sequences of one set.
LEMMA CommonSet ==
  ASSUME NEW q, NEW r, IsSeq(q), IsSeq(r)
  PROVE  \E S : q \in Seq(S) /\ r \in Seq(S)
  <1>1. PICK S : q \in Seq(S)
    BY DEF IsSeq
  <1>2. PICK T : r \in Seq(T)
    BY DEF IsSeq
  <1>3. q \in Seq(S \cup T) /\ r \in Seq(S \cup T)
    BY <1>1, <1>2
  <1> QED
    BY <1>3

\* The list of calls after a handler: its own before the rest.
IsPushed(r, todo, q) ==
    /\ IsSeq(r)
    /\ Len(todo) \in Nat /\ Len(q) \in Nat
    /\ Len(r) = Len(todo) + Len(q) - 1
    /\ \A i \in 1..Len(todo) : r[i] = todo[i]
    /\ \A i \in 1..Len(r) : i > Len(todo) =>
            /\ i - Len(todo) + 1 \in 2..Len(q)
            /\ r[i] = q[i - Len(todo) + 1]

LEMMA Pushed ==
  ASSUME NEW todo, NEW q, NEW r, IsSeq(todo), IsSeq(q), q # <<>>,
         r = todo \o Tail(q)
  PROVE  IsPushed(r, todo, q)
  <1>1. PICK S : todo \in Seq(S) /\ q \in Seq(S)
    BY CommonSet
  <1>2. Tail(q) \in Seq(S) /\ Len(Tail(q)) = Len(q) - 1
    BY <1>1
  <1>3. r \in Seq(S) /\ Len(r) = Len(todo) + Len(Tail(q))
    BY <1>1, <1>2
  <1>4. ASSUME NEW i \in 1..Len(todo) PROVE r[i] = todo[i]
    BY <1>1, <1>2, <1>4
  <1>5. ASSUME NEW i \in 1..Len(r), i > Len(todo)
        PROVE  i - Len(todo) + 1 \in 2..Len(q) /\ r[i] = q[i - Len(todo) + 1]
    <2>1. i - Len(todo) \in 1..Len(Tail(q))
      BY <1>1, <1>2, <1>3, <1>5
    <2>2. r[i] = Tail(q)[i - Len(todo)]
      BY <1>1, <1>2, <1>5, <2>1
    <2> QED
      BY <1>1, <1>2, <2>1, <2>2
  <1> QED
    BY <1>1, <1>2, <1>3, <1>4, <1>5 DEF IsSeq, IsPushed

\* The viewers are the views, in their order.
LEMMA ViewsSeq == Len(Views) \in Nat /\ \A i \in 1..Len(Views) : Views[i] \in ViewSet
  BY ViewsAssumption DEF ViewSet

\* A slot for each of a number of viewers is a sequence of calls.
LEMMA OnesSeq ==
  ASSUME NEW n \in Nat, NEW q, q = [i \in 1..n |-> q[i]]
  PROVE  IsSeq(q) /\ Len(q) = n
  <1> DEFINE S == {q[i] : i \in 1..n}
  <1>1. q \in [1..n -> S]
    OBVIOUS
  <1>2. q \in Seq(S)
    BY <1>1
  <1>3. Len(q) = n
    BY <1>1, <1>2
  <1>4. IsSeq(q)
    BY <1>2 DEF IsSeq
  <1> QED
    BY <1>3, <1>4

-----------------------------------------------------------------------------
(***************************************************************************)
(* What a handler leaves to run.                                           *)
(***************************************************************************)
\* No crop is shown after a call that is not about the crop, and nothing published
\* after one that is not about lines.
LEMMA HeadOnly ==
  ASSUME NEW q, NEW views, Nested(q, views), NEW i \in 2..Len(q), Len(q) \in Nat
  PROVE  /\ ~OnCrop(q[1]) => q[i].call # "shown"
         /\ ~OnLines(q[1]) => q[i].call # "listen"
  <1>1. 1 \in 1..(i - 1) /\ i \in 1..Len(q)
    OBVIOUS
  <1> QED
    BY <1>1 DEF Nested

\* A handler's calls may come before the rest when those that stay before a shown
\* crop or a published line are about it, and no view that is still publishing
\* publishes again.
LEMMA PushedNested ==
  ASSUME NEW todo, NEW q, NEW r, NEW views, NEW views2,
         QueueOK(q), q # <<>>, r = todo \o Tail(q),
         IsSeq(todo), \A i \in 1..Len(todo) : CallOK(todo[i]),
         Nested(q, views), Nested(todo, views2),
         OnCrop(q[1]) => \A i \in 1..Len(todo) : OnCrop(todo[i]),
         OnLines(q[1]) => \A i \in 1..Len(todo) : OnLines(todo[i]),
         \A i \in 2..Len(q) : q[i].call = "listen" =>
            /\ Publishing(views2[q[i].view])
            /\ \A j \in 1..Len(todo) : ~ListensTo(todo[j], q[i].view)
  PROVE  QueueOK(r) /\ Nested(r, views2)
  <1>1. /\ IsSeq(r)
        /\ Len(todo) \in Nat /\ Len(q) \in Nat
        /\ Len(r) = Len(todo) + Len(q) - 1
        /\ \A i \in 1..Len(todo) : r[i] = todo[i]
        /\ \A i \in 1..Len(r) : i > Len(todo) =>
                /\ i - Len(todo) + 1 \in 2..Len(q)
                /\ r[i] = q[i - Len(todo) + 1]
    <2>1. IsPushed(r, todo, q)
      BY Pushed DEF QueueOK
    <2> QED
      BY <2>1 DEF IsPushed
  <1>2. ASSUME NEW i \in 1..Len(r) PROVE CallOK(r[i])
    <2>1. CASE i \in 1..Len(todo)
      BY <1>1, <2>1
    <2>2. CASE i \notin 1..Len(todo)
      <3>1. i > Len(todo)
        BY <1>1, <2>2
      <3> QED
        BY <1>1, <3>1 DEF QueueOK
    <2> QED
      BY <2>1, <2>2
  <1>3. ASSUME NEW i \in 1..Len(r), r[i].call = "shown", NEW j \in 1..(i - 1)
        PROVE  OnCrop(r[j])
    <2>1. CASE i \in 1..Len(todo)
      BY <1>1, <1>3, <2>1 DEF Nested
    <2>2. CASE i \notin 1..Len(todo)
      <3>1. i > Len(todo)
        BY <1>1, <2>2
      <3>2. PICK k \in 2..Len(q) : k = i - Len(todo) + 1 /\ r[i] = q[k]
        BY <1>1, <3>1
      <3>0. k \in 1..Len(q) /\ q[k].call = "shown"
        BY <1>1, <1>3, <3>2
      <3>3. \A l \in 1..(k - 1) : OnCrop(q[l])
        BY <3>0 DEF Nested
      <3>4. CASE j \in 1..Len(todo)
        <4>1. OnCrop(q[1])
          BY <3>3
        <4> QED
          BY <1>1, <3>4, <4>1
      <3>5. CASE j \notin 1..Len(todo)
        <4>1. j > Len(todo) /\ j \in 1..Len(r)
          BY <1>1, <3>5
        <4>2. PICK l \in 2..Len(q) : l = j - Len(todo) + 1 /\ r[j] = q[l]
          BY <1>1, <4>1
        <4>3. l \in 1..(k - 1)
          BY <1>1, <3>2, <4>2
        <4> QED
          BY <3>3, <4>2, <4>3
      <3> QED
        BY <3>4, <3>5
    <2> QED
      BY <2>1, <2>2
  <1>4. ASSUME NEW i \in 1..Len(r), r[i].call = "listen"
        PROVE  /\ Publishing(views2[r[i].view])
               /\ \A j \in 1..(i - 1) : OnLines(r[j]) /\ ~ListensTo(r[j], r[i].view)
    <2>1. CASE i \in 1..Len(todo)
      <3>1. r[i] = todo[i] /\ \A j \in 1..(i - 1) : r[j] = todo[j]
        BY <1>1, <2>1
      <3> QED
        BY <1>4, <2>1, <3>1 DEF Nested
    <2>2. CASE i \notin 1..Len(todo)
      <3>1. i > Len(todo)
        BY <1>1, <2>2
      <3>2. PICK k \in 2..Len(q) : k = i - Len(todo) + 1 /\ r[i] = q[k]
        BY <1>1, <3>1
      <3>0. k \in 1..Len(q) /\ q[k].call = "listen" /\ q[k].view = r[i].view
        BY <1>1, <1>4, <3>2
      <3>3. \A l \in 1..(k - 1) : OnLines(q[l]) /\ ~ListensTo(q[l], r[i].view)
        BY <3>0 DEF Nested
      <3>4. Publishing(views2[r[i].view])
        BY <1>4, <3>2
      <3>5. ASSUME NEW j \in 1..(i - 1)
            PROVE  OnLines(r[j]) /\ ~ListensTo(r[j], r[i].view)
        <4>1. CASE j \in 1..Len(todo)
          <5>1. OnLines(q[1])
            BY <3>3
          <5>2. OnLines(todo[j]) /\ r[j] = todo[j]
            BY <1>1, <4>1, <5>1
          <5>3. ~ListensTo(todo[j], r[i].view)
            BY <1>4, <3>2, <4>1
          <5> QED
            BY <5>2, <5>3
        <4>2. CASE j \notin 1..Len(todo)
          <5>1. j > Len(todo) /\ j \in 1..Len(r)
            BY <1>1, <4>2
          <5>2. PICK l \in 2..Len(q) : l = j - Len(todo) + 1 /\ r[j] = q[l]
            BY <1>1, <5>1
          <5>3. l \in 1..(k - 1)
            BY <1>1, <3>2, <5>2
          <5> QED
            BY <3>3, <5>2, <5>3
        <4> QED
          BY <4>1, <4>2
      <3> QED
        BY <3>4, <3>5
    <2> QED
      BY <2>1, <2>2
  <1> QED
    BY <1>1, <1>2, <1>3, <1>4 DEF QueueOK, Nested

\* Without calls about lines or of a crop, a list is nested whatever the views are.
LEMMA PlainNested ==
  ASSUME NEW todo, NEW views,
         \A i \in 1..Len(todo) : todo[i].call \notin {"shown", "listen"}
  PROVE  Nested(todo, views)
  BY DEF Nested

\* A handler about anything else than lines leaves no view publishing; what it
\* calls first may be anything that neither shows nor publishes.
LEMMA PushedPlain ==
  ASSUME NEW todo, NEW q, NEW r, NEW views, NEW views2,
         QueueOK(q), q # <<>>, r = todo \o Tail(q),
         IsSeq(todo), Nested(q, views), ~OnLines(q[1]),
         \A i \in 1..Len(todo) :
            CallOK(todo[i]) /\ todo[i].call \notin {"shown", "listen"},
         OnCrop(q[1]) => \A i \in 1..Len(todo) : OnCrop(todo[i])
  PROVE  QueueOK(r) /\ Nested(r, views2)
  <1>1. Nested(todo, views2)
    BY PlainNested
  <1>2. \A i \in 2..Len(q) : q[i].call # "listen"
    <2>1. Len(q) \in Nat
      BY DEF QueueOK, IsSeq
    <2> QED
      BY <2>1, HeadOnly
  <1> QED
    BY <1>1, <1>2, PushedNested

\* A handler that leaves the views as they are.
LEMMA PushedSame ==
  ASSUME NEW todo, NEW q, NEW r, NEW views,
         QueueOK(q), q # <<>>, r = todo \o Tail(q),
         IsSeq(todo), Nested(q, views),
         \A i \in 1..Len(todo) :
            CallOK(todo[i]) /\ todo[i].call \notin {"shown", "listen"},
         OnCrop(q[1]) => \A i \in 1..Len(todo) : OnCrop(todo[i]),
         OnLines(q[1]) => \A i \in 1..Len(todo) : OnLines(todo[i])
  PROVE  QueueOK(r) /\ Nested(r, views)
  <1>1. Nested(todo, views)
    BY PlainNested
  <1>2. ASSUME NEW i \in 2..Len(q), q[i].call = "listen"
        PROVE  Publishing(views[q[i].view])
    <2>1. i \in 1..Len(q)
      BY DEF QueueOK, IsSeq
    <2> QED
      BY <1>2, <2>1 DEF Nested
  <1>3. \A j \in 1..Len(todo) : \A u : ~ListensTo(todo[j], u)
    BY DEF ListensTo
  <1> QED
    BY <1>1, <1>2, <1>3, PushedNested

\* A handler that calls nothing and leaves the views as they are.
LEMMA Popped ==
  ASSUME NEW q, NEW r, NEW views, QueueOK(q), q # <<>>, Nested(q, views),
         r = <<>> \o Tail(q)
  PROVE  QueueOK(r) /\ Nested(r, views)
  <1>0. PICK none : none = <<>>
    OBVIOUS
  <1>1. IsSeq(none) /\ Len(none) = 0 /\ r = none \o Tail(q)
    BY <1>0 DEF IsSeq
  <1>2. \A i \in 1..Len(none) : CallOK(none[i]) /\ OnCrop(none[i]) /\ OnLines(none[i])
                               /\ none[i].call \notin {"shown", "listen"}
    BY <1>1
  <1> QED
    BY <1>1, <1>2, PushedSame

\* Nothing left to run.
LEMMA NoCalls ==
  ASSUME NEW q, q = <<>>, NEW views
  PROVE  QueueOK(q) /\ Nested(q, views)
  <1>1. IsSeq(q) /\ Len(q) = 0
    BY DEF IsSeq
  <1> QED
    BY <1>1 DEF QueueOK, Nested

\* Two lists of calls after each other hold the calls of both.
IsJoin(r, a, b) ==
    /\ IsSeq(r)
    /\ \A i \in 1..Len(r) : \/ \E j \in 1..Len(a) : r[i] = a[j]
                            \/ \E j \in 1..Len(b) : r[i] = b[j]

LEMMA Joined ==
  ASSUME NEW a, NEW b, NEW r, IsSeq(a), IsSeq(b), r = a \o b
  PROVE  IsJoin(r, a, b)
  <1>1. PICK S : a \in Seq(S) /\ b \in Seq(S)
    BY CommonSet
  <1>2. r \in Seq(S) /\ Len(r) = Len(a) + Len(b) /\ Len(a) \in Nat /\ Len(b) \in Nat
    BY <1>1
  <1>3. ASSUME NEW i \in 1..Len(r)
        PROVE  \/ \E j \in 1..Len(a) : r[i] = a[j]
               \/ \E j \in 1..Len(b) : r[i] = b[j]
    <2>1. CASE i <= Len(a)
      BY <1>1, <1>2, <2>1
    <2>2. CASE i > Len(a)
      <3>1. i - Len(a) \in 1..Len(b)
        BY <1>2, <2>2
      <3>2. r[i] = b[i - Len(a)]
        BY <1>1, <1>2, <2>2
      <3> QED
        BY <3>1, <3>2
    <2> QED
      BY <1>2, <2>1, <2>2
  <1> QED
    BY <1>2, <1>3 DEF IsSeq, IsJoin

\* Lists of one and of two calls.
LEMMA ShortSeq ==
  ASSUME NEW a, NEW b
  PROVE  /\ IsSeq(<<a>>) /\ Len(<<a>>) = 1 /\ <<a>>[1] = a
         /\ IsSeq(<<a, b>>) /\ Len(<<a, b>>) = 2
         /\ <<a, b>>[1] = a /\ <<a, b>>[2] = b
  <1>1. <<a>> \in Seq({a}) /\ <<a, b>> \in Seq({a, b})
    OBVIOUS
  <1> QED
    BY <1>1 DEF IsSeq

\* Two calls before a third.
LEMMA Prefixed ==
  ASSUME NEW a, NEW b, NEW c
  PROVE  <<a, b>> \o <<c>> = <<a, b, c>>
  <1>1. PICK S, q, r, s : S = {a, b, c} /\ q = <<a, b>> /\ r = <<c>> /\ s = <<a, b, c>>
    OBVIOUS
  <1>2. /\ q \in Seq(S) /\ Len(q) = 2 /\ q[1] = a /\ q[2] = b
        /\ r \in Seq(S) /\ Len(r) = 1 /\ r[1] = c
    BY <1>1
  <1>3. s \in Seq(S) /\ Len(s) = 3 /\ s[1] = a /\ s[2] = b /\ s[3] = c
    BY <1>1
  <1>4. q \in Seq(S) /\ r \in Seq(S)
    BY <1>2
  <1>5. /\ q \o r \in Seq(S) /\ Len(q \o r) = Len(q) + Len(r)
        /\ \A i \in 1..(Len(q) + Len(r)) :
               (q \o r)[i] = IF i <= Len(q) THEN q[i] ELSE r[i - Len(q)]
    BY <1>4
  <1>6. PICK t : t = q \o r
    OBVIOUS
  <1>7. /\ t \in Seq(S) /\ Len(t) = 3
        /\ \A i \in 1..3 : t[i] = IF i <= 2 THEN q[i] ELSE r[i - 2]
    BY <1>2, <1>5, <1>6
  <1>8. t[1] = a /\ t[2] = b /\ t[3] = c
    BY <1>2, <1>7
  <1>9. t = s
    BY <1>3, <1>7, <1>8
  <1> QED
    BY <1>1, <1>6, <1>9

\* Calls a signal of the window may begin with.
Plain(c) == CallOK(c) /\ c.call \notin {"shown", "listen"}
Fresh(q) == IsSeq(q) /\ \A i \in 1..Len(q) : Plain(q[i])

LEMMA FreshOK ==
  ASSUME NEW q, Fresh(q), NEW views
  PROVE  QueueOK(q) /\ Nested(q, views)
  BY PlainNested DEF Fresh, Plain, QueueOK

LEMMA FreshShort ==
  ASSUME NEW a, NEW b, NEW c
  PROVE  /\ Fresh(<<>>)
         /\ Plain(a) => Fresh(<<a>>)
         /\ Plain(a) /\ Plain(b) => Fresh(<<a, b>>)
         /\ Plain(a) /\ Plain(b) /\ Plain(c) => Fresh(<<a, b, c>>)
  <1>1. Fresh(<<>>)
    <2>1. IsSeq(<<>>) /\ Len(<<>>) = 0
      BY DEF IsSeq
    <2> QED
      BY <2>1 DEF Fresh
  <1>2. ASSUME Plain(a) PROVE Fresh(<<a>>)
    <2>1. PICK q : q = <<a>>
      OBVIOUS
    <2>2. IsSeq(q) /\ Len(q) = 1 /\ q[1] = a
      BY <2>1, ShortSeq
    <2>3. Fresh(q)
      BY <1>2, <2>2 DEF Fresh
    <2> QED
      BY <2>1, <2>3
  <1>3. ASSUME Plain(a), Plain(b) PROVE Fresh(<<a, b>>)
    <2>1. PICK q : q = <<a, b>>
      OBVIOUS
    <2>2. IsSeq(q) /\ Len(q) = 2 /\ q[1] = a /\ q[2] = b
      BY <2>1, ShortSeq
    <2>3. \A i \in 1..Len(q) : i = 1 \/ i = 2
      BY <2>2
    <2>4. Fresh(q)
      BY <1>3, <2>2, <2>3 DEF Fresh
    <2> QED
      BY <2>1, <2>4
  <1>4. ASSUME Plain(a), Plain(b), Plain(c) PROVE Fresh(<<a, b, c>>)
    <2>1. PICK q : q = <<a, b, c>>
      OBVIOUS
    <2>2. q \in Seq({a, b, c}) /\ Len(q) = 3 /\ q[1] = a /\ q[2] = b /\ q[3] = c
      BY <2>1
    <2>3. \A i \in 1..Len(q) : i = 1 \/ i = 2 \/ i = 3
      BY <2>2
    <2>4. Fresh(q)
      BY <1>4, <2>2, <2>3 DEF Fresh, IsSeq
    <2> QED
      BY <2>1, <2>4
  <1> QED
    BY <1>1, <1>2, <1>3, <1>4

-----------------------------------------------------------------------------
(***************************************************************************)
(* What a view keeps.                                                      *)
(***************************************************************************)
\* The parts of a view that drawing lines leaves alone.
SamePicture(w, x) ==
    /\ x.surf = w.surf /\ x.vol = w.vol /\ x.level = w.level
    /\ x.area = w.area /\ x.image = w.image

\* A view that exchanges its lines stays one.
LEMMA LinesExchanged ==
  ASSUME NEW w, IsView(w), NEW l, NEW x, x = [w EXCEPT !.lines = l]
  PROVE  IsView(x) /\ SamePicture(w, x) /\ x.lines = l /\ x.ignoring = w.ignoring
  BY DEF IsView, SamePicture

\* A view that gets a surface stays one.
WithSurface(w, s) == [w EXCEPT !.surf = s, !.area = None]

LEMMA SurfaceGiven ==
  ASSUME NEW w, IsView(w), NEW s
  PROVE  LET x == WithSurface(w, s) IN
         /\ IsView(x) /\ x.area = None /\ x.vol = w.vol
         /\ x.level = w.level /\ x.image = w.image
  <1>1. PICK x : x = WithSurface(w, s)
    OBVIOUS
  <1>2. x = [w EXCEPT !.surf = s, !.area = None]
    BY <1>1 DEF WithSurface
  <1>3. /\ IsView(x) /\ x.area = None /\ x.vol = w.vol
        /\ x.level = w.level /\ x.image = w.image
    BY <1>2 DEF IsView
  <1> QED
    BY <1>1, <1>3

\* A view that covers another area stays one.
LEMMA AreaGiven ==
  ASSUME NEW w, IsView(w), NEW a, NEW x, x = [w EXCEPT !.area = a]
  PROVE  /\ IsView(x) /\ x.area = a /\ x.surf = w.surf /\ x.vol = w.vol
         /\ x.level = w.level /\ x.image = w.image
  BY DEF IsView

\* Lines with another surface are taken away without touching those of the crop.
LEMMA DroppedKeeps ==
  ASSUME NEW v \in ViewSet, NEW w, IsView(w), NEW name
  PROVE  /\ IsView(Dropped(v, w, name)) /\ SamePicture(w, Dropped(v, w, name))
         /\ Publishing(w) /\ name = None => Publishing(Dropped(v, w, name))
  <1>1. CASE name = v
    <2>1. Dropped(v, w, name) = [w EXCEPT !.lines = NoLines]
      BY <1>1 DEF Dropped
    <2>2. name # None
      BY <1>1, ViewsAssumption
    <2> QED
      BY <2>1, <2>2, LinesExchanged
  <1>2. CASE name # v
    <2> DEFINE kept == [k \in DOMAIN w.lines \ {name} |-> w.lines[k]]
    <2>1. Dropped(v, w, name) = [w EXCEPT !.lines = kept]
      BY <1>2 DEF Dropped
    <2>2. DOMAIN kept = DOMAIN w.lines \ {name}
      OBVIOUS
    <2> HIDE DEF kept
    <2>3. IsView(Dropped(v, w, name)) /\ SamePicture(w, Dropped(v, w, name))
          /\ Dropped(v, w, name).lines = kept
          /\ Dropped(v, w, name).ignoring = w.ignoring
      BY <2>1, LinesExchanged
    <2>4. Crop # None
      BY ViewsAssumption
    <2> QED
      BY <2>2, <2>3, <2>4 DEF Publishing
  <1> QED
    BY <1>1, <1>2

\* Drawing lines leaves the image; a plane's view that draws them is publishing, and
\* a view that is publishing goes on to.
LEMMA LinedKeeps ==
  ASSUME NEW v \in ViewSet, NEW w, IsView(w)
  PROVE  /\ IsView(Lined(v, w)) /\ SamePicture(w, Lined(v, w))
         /\ Traces(v, w) => v \in Planes /\ Publishing(Lined(v, w))
         /\ Publishing(w) => Publishing(Lined(v, w)) /\ ~Traces(v, w)
  <1>1. CASE Traces(v, w)
    <2> DEFINE l == [k \in {Crop} |-> Traced(v, w)]
    <2>1. Lined(v, w) = [w EXCEPT !.lines = l, !.ignoring = TRUE]
      BY <1>1 DEF Lined
    <2>2. Crop \in DOMAIN l
      OBVIOUS
    <2> HIDE DEF l
    <2>3. IsView(Lined(v, w)) /\ SamePicture(w, Lined(v, w))
          /\ Lined(v, w).lines = l /\ Lined(v, w).ignoring = TRUE
      BY <2>1 DEF IsView, SamePicture
    <2>4. v \in Planes /\ ~Publishing(w)
      BY <1>1 DEF Traces, Planes, Publishing
    <2> QED
      BY <2>2, <2>3, <2>4 DEF Publishing
  <1>2. CASE ~Traces(v, w)
    <2> DEFINE l == [k \in DOMAIN w.lines \cup Maps(v, w) |->
                        IF k \in DOMAIN w.lines THEN w.lines[k]
                        ELSE [lines |-> inters[k], sheet |-> surfs[Crop], at |-> vis]]
    <2>1. Lined(v, w) = [w EXCEPT !.lines = l]
      BY <1>2 DEF Lined
    <2>2. DOMAIN w.lines \subseteq DOMAIN l
      OBVIOUS
    <2> HIDE DEF l
    <2>3. IsView(Lined(v, w)) /\ SamePicture(w, Lined(v, w))
          /\ Lined(v, w).lines = l /\ Lined(v, w).ignoring = w.ignoring
      BY <2>1, LinesExchanged
    <2> QED
      BY <1>2, <2>2, <2>3 DEF Publishing
  <1> QED
    BY <1>1, <1>2

\* The other views stay when one changes.
LEMMA OneView ==
  ASSUME NEW f, NEW g, NEW v \in ViewSet, NEW w, DOMAIN f = ViewSet,
         \A u \in ViewSet : IsView(f[u]), IsView(w), g = [f EXCEPT ![v] = w]
  PROVE  /\ DOMAIN g = ViewSet /\ \A u \in ViewSet : IsView(g[u])
         /\ g[v] = w
         /\ \A u \in ViewSet \ {v} : g[u] = f[u]
  <1>1. DOMAIN g = ViewSet /\ g[v] = w /\ \A u \in ViewSet \ {v} : g[u] = f[u]
    OBVIOUS
  <1> QED
    BY <1>1

\* A published line is followed by the view listening again.
LEMMA PublishCalls ==
  ASSUME NEW v \in Planes, NEW l, NEW q, NEW views, Publishing(views[v]),
         q = <<SetIntersection(v, l), Listen(v)>> \o <<>>
  PROVE  /\ IsSeq(q) /\ Len(q) = 2
         /\ \A i \in 1..Len(q) : CallOK(q[i]) /\ OnLines(q[i]) /\ OnCrop(q[i])
         /\ \A i \in 1..Len(q) : \A u : ListensTo(q[i], u) => u = v
         /\ Nested(q, views)
  <1> DEFINE a == SetIntersection(v, l)
             b == Listen(v)
  <1>1. a.call = "setIntersection" /\ b.call = "listen" /\ b.view = v
    BY DEF SetIntersection, Listen
  <1> HIDE DEF a, b
  <1>2. <<a, b>> \in Seq({a, b}) /\ <<>> \in Seq({a, b})
    OBVIOUS
  <1>3. q = <<a, b>> \o <<>>
    BY DEF a, b
  <1>4. q \in Seq({a, b}) /\ Len(q) = 2 /\ q[1] = a /\ q[2] = b
    BY <1>2, <1>3
  <1>5. \A i \in 1..Len(q) : (i = 1 /\ q[i] = a) \/ (i = 2 /\ q[i] = b)
    BY <1>4
  <1>6. CallOK(a) /\ CallOK(b) /\ OnLines(a) /\ OnLines(b) /\ OnCrop(a) /\ OnCrop(b)
    BY <1>1 DEF CallOK, OnLines, OnCrop
  <1>7. ~ListensTo(a, v) /\ \A u : (ListensTo(a, u) \/ ListensTo(b, u)) => u = v
    BY <1>1 DEF ListensTo
  <1>8. Nested(q, views)
    BY <1>1, <1>4, <1>5, <1>6, <1>7 DEF Nested
  <1> QED
    BY <1>4, <1>5, <1>6, <1>7, <1>8 DEF IsSeq

\* A view that redraws its lines keeps the views and the nesting of the calls; while
\* lines are heard of, a view that publishes must not have lost its own.
LEMMA RedrawnKeeps ==
  ASSUME ViewTypes, QueueOK(calls), calls # <<>>, Nested(calls, view),
         NEW v \in ViewSet, NEW w, IsView(w), Redrawn(v, w, <<>>),
         OnLines(calls[1]) /\ v \in Planes /\ Publishing(view[v]) => Publishing(w)
  PROVE  /\ ViewTypes' /\ QueueOK(calls') /\ Nested(calls', view')
         /\ SamePicture(w, view'[v])
         /\ \A u \in ViewSet \ {v} : view'[u] = view[u]
  <1> DEFINE x == Lined(v, w)
  <1>1. view' = [view EXCEPT ![v] = x]
    BY DEF Redrawn
  <1>2. /\ IsView(x) /\ SamePicture(w, x)
        /\ Traces(v, w) => v \in Planes /\ Publishing(x)
        /\ Publishing(w) => Publishing(x) /\ ~Traces(v, w)
    BY LinedKeeps
  <1> HIDE DEF x
  <1>3. /\ DOMAIN view' = ViewSet /\ \A u \in ViewSet : IsView(view'[u])
        /\ view'[v] = x
        /\ \A u \in ViewSet \ {v} : view'[u] = view[u]
    BY <1>1, <1>2, OneView DEF ViewTypes
  <1>4. ASSUME NEW i \in 2..Len(calls), calls[i].call = "listen"
        PROVE  /\ Publishing(view'[calls[i].view])
               /\ Traces(v, w) => calls[i].view # v
    <2>1. OnLines(calls[1]) /\ i \in 1..Len(calls)
      BY <1>4, HeadOnly DEF QueueOK, IsSeq
    <2>2. Publishing(view[calls[i].view]) /\ calls[i].view \in Planes
          /\ calls[i].view \in ViewSet
      BY <1>4, <2>1 DEF Nested, QueueOK, CallOK, Planes
    <2>3. CASE calls[i].view = v
      BY <1>2, <1>3, <2>1, <2>2, <2>3
    <2>4. CASE calls[i].view # v
      BY <1>3, <2>2, <2>4
    <2> QED
      BY <2>3, <2>4
  <1>5. CASE Traces(v, w)
    <2>1. PICK todo : todo = <<SetIntersection(v, Traced(v, w)), Listen(v)>> \o <<>>
      OBVIOUS
    <2>2. calls' = todo \o Tail(calls)
      BY <1>5, <2>1 DEF Redrawn, Then
    <2>3. v \in Planes /\ Publishing(view'[v])
      BY <1>2, <1>3, <1>5
    <2>4. /\ IsSeq(todo)
          /\ \A i \in 1..Len(todo) : CallOK(todo[i]) /\ OnLines(todo[i]) /\ OnCrop(todo[i])
          /\ \A i \in 1..Len(todo) : \A u : ListensTo(todo[i], u) => u = v
          /\ Nested(todo, view')
      BY <2>1, <2>3, PublishCalls
    <2>5. QueueOK(calls') /\ Nested(calls', view')
      BY <1>4, <1>5, <2>2, <2>4, PushedNested
    <2> QED
      BY <1>2, <1>3, <2>5 DEF ViewTypes
  <1>6. CASE ~Traces(v, w)
    <2>0. PICK none : none = <<>>
      OBVIOUS
    <2>1. calls' = none \o Tail(calls)
      BY <1>6, <2>0 DEF Redrawn, Then
    <2>2. IsSeq(none) /\ Len(none) = 0
      BY <2>0 DEF IsSeq
    <2>3. /\ Nested(none, view') /\ \A i \in 1..Len(none) : CallOK(none[i])
          /\ \A i \in 1..Len(none) : OnCrop(none[i]) /\ OnLines(none[i])
          /\ \A u : \A i \in 1..Len(none) : ~ListensTo(none[i], u)
      BY <2>2 DEF Nested
    <2>4. QueueOK(calls') /\ Nested(calls', view')
      BY <1>4, <2>1, <2>2, <2>3, PushedNested
    <2> QED
      BY <1>2, <1>3, <2>4 DEF ViewTypes
  <1> QED
    BY <1>5, <1>6

-----------------------------------------------------------------------------
(***************************************************************************)
(* What a step leaves of the images.                                       *)
(***************************************************************************)
\* A plane's view that is not next to draw shows the volume that is set.
LEMMA SettledDrawn ==
  ASSUME DrawnInv, broken = None, NEW v \in Planes, ~Waits(v, view[v], calls)
  PROVE  Drawn(view[v])
  BY DEF DrawnInv

\* A view with the same image of the same surface and volume is as far as before.
LEMMA SamePictureDrawn ==
  ASSUME NEW w, NEW x, SamePicture(w, x)
  PROVE  /\ HalfOrLess(w) => HalfOrLess(x)
         /\ Drawn(w) => Drawn(x)
  BY DEF SamePicture, HalfOrLess, Drawn, LevelFits, CanDraw

\* A step that draws nothing and waits for no image keeps the images.
LEMMA PicturesStay ==
  ASSUME DrawnInv, broken' = broken,
         \A v \in Planes : SamePicture(view[v], view'[v]),
         Len(calls) > 0 => calls[1].call # "renderVisible"
  PROVE  DrawnInv'
  <1>1. ASSUME NEW v \in Planes PROVE HalfOrLess(view'[v])
    BY SamePictureDrawn DEF DrawnInv
  <1>2. ASSUME NEW v \in Planes, broken' = None PROVE Drawn(view'[v])
    <2>1. ~Waits(v, view[v], calls)
      BY DEF Waits
    <2>2. Drawn(view[v])
      BY <1>2, <2>1 DEF DrawnInv
    <2> QED
      BY <2>2, SamePictureDrawn
  <1> QED
    BY <1>1, <1>2 DEF DrawnInv

\* A program that went down leaves the images as they were.
LEMMA BrokenDrawn ==
  ASSUME DrawnInv, broken' # None, view' = view
  PROVE  DrawnInv'
  BY DEF DrawnInv

-----------------------------------------------------------------------------
(***************************************************************************)
(* The handlers.                                                           *)
(***************************************************************************)
\* The call that is handled is the first of the list, and a proper one.
LEMMA FirstCall ==
  ASSUME QueueOK(calls), calls # <<>>
  PROVE  Head(calls) = calls[1] /\ CallOK(calls[1]) /\ Len(calls) > 0
  <1>1. PICK S : calls \in Seq(S)
    BY DEF QueueOK, IsSeq
  <1>2. Head(calls) = calls[1] /\ 1 \in 1..Len(calls)
    BY <1>1
  <1> QED
    BY <1>2 DEF QueueOK

LEMMA SetSurfaceKeeps == ViewsInv /\ DoSetSurface => ViewsInv'
  <1> SUFFICES ASSUME ViewsInv, DoSetSurface PROVE ViewsInv'
    OBVIOUS
  <1> DEFINE c == Head(calls)
  <1>1. /\ calls # <<>> /\ c.call = "setSurface"
        /\ UNCHANGED <<view, vpkg, broken>>
    BY DEF DoSetSurface, Running, window
  <1>2. c = calls[1] /\ CallOK(c) /\ Len(calls) > 0
    BY <1>1, FirstCall DEF ViewsInv
  <1>3. PICK todo : todo = [i \in 1..Len(Views) |-> SurfaceChanged(Views[i], c.name, c.surf)]
    OBVIOUS
  <1>4. calls' = todo \o Tail(calls)
    BY <1>3 DEF DoSetSurface, Then, ToAll
  <1>5. IsSeq(todo) /\ Len(todo) = Len(Views)
    BY <1>3, ViewsSeq, OnesSeq
  <1>6. \A i \in 1..Len(todo) : todo[i].call = "onSurfaceChanged"
            /\ todo[i].view \in ViewSet /\ todo[i].name = c.name
    BY <1>3, <1>5, ViewsSeq DEF SurfaceChanged
  <1> HIDE DEF c
  <1>7. \A i \in 1..Len(todo) : CallOK(todo[i]) /\ todo[i].call \notin {"shown", "listen"}
    BY <1>6 DEF CallOK
  <1>8. ~OnLines(c) /\ (OnCrop(c) => \A i \in 1..Len(todo) : OnCrop(todo[i]))
    BY <1>1, <1>6 DEF OnCrop, OnLines
  <1>9. QueueOK(calls') /\ Nested(calls', view)
    BY <1>1, <1>2, <1>4, <1>5, <1>7, <1>8, PushedPlain DEF ViewsInv
  <1>10. DrawnInv'
    BY <1>1, <1>2, PicturesStay DEF ViewsInv, SamePicture
  <1> QED
    BY <1>1, <1>9, <1>10 DEF ViewsInv, ViewTypes

LEMMA SetIntersectionKeeps == ViewsInv /\ DoSetIntersection => ViewsInv'
  <1> SUFFICES ASSUME ViewsInv, DoSetIntersection PROVE ViewsInv'
    OBVIOUS
  <1> DEFINE c == Head(calls)
  <1>1. /\ calls # <<>> /\ c.call = "setIntersection"
        /\ UNCHANGED <<view, vpkg, broken>>
    BY DEF DoSetIntersection, Running, window
  <1>2. c = calls[1] /\ CallOK(c) /\ Len(calls) > 0
    BY <1>1, FirstCall DEF ViewsInv
  <1>3. PICK todo : todo = [i \in 1..Len(Views) |-> IntersectionChanged(Views[i], c.view)]
    OBVIOUS
  <1>4. calls' = todo \o Tail(calls)
    BY <1>3 DEF DoSetIntersection, Then, ToAll
  <1>5. IsSeq(todo) /\ Len(todo) = Len(Views)
    BY <1>3, ViewsSeq, OnesSeq
  <1>6. \A i \in 1..Len(todo) : todo[i].call = "onIntersectionChanged"
            /\ todo[i].view \in ViewSet
    BY <1>3, <1>5, ViewsSeq DEF IntersectionChanged
  <1> HIDE DEF c
  <1>7. \A i \in 1..Len(todo) : CallOK(todo[i]) /\ todo[i].call \notin {"shown", "listen"}
            /\ OnLines(todo[i]) /\ OnCrop(todo[i])
    BY <1>6 DEF CallOK, OnLines, OnCrop
  <1>8. QueueOK(calls') /\ Nested(calls', view)
    BY <1>1, <1>4, <1>5, <1>7, PushedSame DEF ViewsInv
  <1>9. DrawnInv'
    BY <1>1, <1>2, PicturesStay DEF ViewsInv, SamePicture
  <1> QED
    BY <1>1, <1>8, <1>9 DEF ViewsInv, ViewTypes

\* The focus, a plane's move, the tree and the operations leave the views alone.
LEMMA SetPOIKeeps == ViewsInv /\ DoSetPOI => ViewsInv'
  <1> SUFFICES ASSUME ViewsInv, DoSetPOI PROVE ViewsInv'
    OBVIOUS
  <1>1. /\ calls # <<>> /\ Head(calls).call = "setPOI"
        /\ UNCHANGED <<view, vpkg, broken>>
    BY DEF DoSetPOI, Running, window
  <1>2. Head(calls) = calls[1] /\ Len(calls) > 0
    BY <1>1, FirstCall DEF ViewsInv
  <1>3. PICK todo : todo = [i \in 1..Len(Views) |-> FocusChanged(Views[i])]
    OBVIOUS
  <1>4. calls' = todo \o Tail(calls)
    BY <1>3 DEF DoSetPOI, Then, ToAll
  <1>5. IsSeq(todo) /\ Len(todo) = Len(Views)
    BY <1>3, ViewsSeq, OnesSeq
  <1>6. \A i \in 1..Len(todo) : todo[i].call = "onPOIChanged" /\ todo[i].view \in ViewSet
    BY <1>3, <1>5, ViewsSeq DEF FocusChanged
  <1>7. \A i \in 1..Len(todo) : CallOK(todo[i]) /\ todo[i].call \notin {"shown", "listen"}
    BY <1>6 DEF CallOK
  <1>8. ~OnLines(calls[1]) /\ ~OnCrop(calls[1])
    BY <1>1, <1>2 DEF OnCrop, OnLines
  <1>9. QueueOK(calls') /\ Nested(calls', view)
    BY <1>1, <1>4, <1>5, <1>7, <1>8, PushedSame DEF ViewsInv
  <1>10. DrawnInv'
    BY <1>1, <1>2, PicturesStay DEF ViewsInv, SamePicture
  <1> QED
    BY <1>1, <1>9, <1>10 DEF ViewsInv, ViewTypes

LEMMA MovePlaneKeeps == ViewsInv /\ DoMovePlane => ViewsInv'
  <1> SUFFICES ASSUME ViewsInv, DoMovePlane PROVE ViewsInv'
    OBVIOUS
  <1> DEFINE v == Head(calls).view
  <1>1. /\ calls # <<>> /\ Head(calls).call = "movePlane"
        /\ UNCHANGED <<view, vpkg, broken>>
    BY DEF DoMovePlane, Running, window
  <1>2. Head(calls) = calls[1] /\ Len(calls) > 0
    BY <1>1, FirstCall DEF ViewsInv
  <1>3. ASSUME calls' = <<>> \o Tail(calls)
        PROVE  QueueOK(calls') /\ Nested(calls', view)
    BY <1>1, <1>3, Popped DEF ViewsInv
  <1>4. ASSUME calls' = <<SetSurface(v, v)>> \o Tail(calls)
        PROVE  QueueOK(calls') /\ Nested(calls', view)
    <2>1. PICK todo : todo = <<SetSurface(v, v)>>
      OBVIOUS
    <2>2. IsSeq(todo) /\ Len(todo) = 1 /\ todo[1].call = "setSurface"
      BY <2>1, ShortSeq DEF SetSurface
    <2>3. \A i \in 1..Len(todo) : CallOK(todo[i]) /\ todo[i].call \notin {"shown", "listen"}
      BY <2>2 DEF CallOK
    <2>4. ~OnLines(calls[1]) /\ ~OnCrop(calls[1])
      BY <1>1, <1>2 DEF OnCrop, OnLines
    <2>5. calls' = todo \o Tail(calls)
      BY <1>4, <2>1
    <2>6. QueueOK(calls') /\ Nested(calls', view)
      BY <1>1, <2>2, <2>3, <2>4, <2>5, PushedSame DEF ViewsInv
    <2> QED
      BY <2>6
  <1>5. QueueOK(calls') /\ Nested(calls', view)
    <2>1. calls' = <<>> \o Tail(calls) \/ calls' = <<SetSurface(v, v)>> \o Tail(calls)
      BY DEF DoMovePlane, Then
    <2> QED
      BY <1>3, <1>4, <2>1
  <1>6. DrawnInv'
    BY <1>1, <1>2, PicturesStay DEF ViewsInv, SamePicture
  <1> QED
    BY <1>1, <1>5, <1>6 DEF ViewsInv, ViewTypes

LEMMA ChainSelectedKeeps == ViewsInv /\ DoChainSelected => ViewsInv'
  <1> SUFFICES ASSUME ViewsInv, DoChainSelected PROVE ViewsInv'
    OBVIOUS
  <1>1. /\ calls # <<>> /\ Head(calls).call = "onOpChainSelected"
        /\ UNCHANGED <<view, vpkg, broken>> /\ calls' = <<>> \o Tail(calls)
    BY DEF DoChainSelected, Running, Then
  <1>2. Head(calls) = calls[1] /\ Len(calls) > 0
    BY <1>1, FirstCall DEF ViewsInv
  <1>3. QueueOK(calls') /\ Nested(calls', view)
    BY <1>1, Popped DEF ViewsInv
  <1>4. DrawnInv'
    BY <1>1, <1>2, PicturesStay DEF ViewsInv, SamePicture
  <1> QED
    BY <1>1, <1>3, <1>4 DEF ViewsInv, ViewTypes

LEMMA ReasonsAreSome == \A r \in Reasons : r # None
  BY ViewsAssumption

LEMMA ClearTreeKeeps == ViewsInv /\ DoClearTree => ViewsInv'
  <1> SUFFICES ASSUME ViewsInv, DoClearTree PROVE ViewsInv'
    OBVIOUS
  <1>1. /\ calls # <<>> /\ Head(calls).call = "clearTree"
        /\ UNCHANGED <<view, vpkg>>
    BY DEF DoClearTree, Running, window
  <1>2. Head(calls) = calls[1] /\ Len(calls) > 0
    BY <1>1, FirstCall DEF ViewsInv
  <1>3. ASSUME calls' = <<>> \o Tail(calls), broken' = broken
        PROVE  QueueOK(calls') /\ Nested(calls', view) /\ DrawnInv'
    <2>1. QueueOK(calls') /\ Nested(calls', view)
      BY <1>1, <1>3, Popped DEF ViewsInv
    <2>2. DrawnInv'
      BY <1>1, <1>2, <1>3, PicturesStay DEF ViewsInv, SamePicture
    <2> QED
      BY <2>1, <2>2
  <1>4. ASSUME calls' = <<>>, broken' = "tree"
        PROVE  QueueOK(calls') /\ Nested(calls', view) /\ DrawnInv'
    <2>1. QueueOK(calls') /\ Nested(calls', view)
      BY <1>4, NoCalls
    <2>2. broken' # None
      BY <1>4, ReasonsAreSome DEF Reasons
    <2>3. DrawnInv'
      BY <1>1, <2>2, BrokenDrawn DEF ViewsInv
    <2> QED
      BY <2>1, <2>3
  <1>5. \/ calls' = <<>> \o Tail(calls) /\ broken' = broken
        \/ calls' = <<>> /\ broken' = "tree"
    BY DEF DoClearTree, Then, Break
  <1> QED
    BY <1>1, <1>3, <1>4, <1>5 DEF ViewsInv, ViewTypes

\* setVolume tells the viewers after the manual plane.
LEMMA SetVolumeKeeps == ViewsInv /\ DoSetVolume => ViewsInv'
  <1> SUFFICES ASSUME ViewsInv, DoSetVolume PROVE ViewsInv'
    OBVIOUS
  <1> DEFINE c == Head(calls)
  <1>1. /\ calls # <<>> /\ c.call = "setVolume"
        /\ UNCHANGED <<view, vpkg, broken>>
    BY DEF DoSetVolume, Running
  <1>2. c = calls[1] /\ CallOK(c) /\ Len(calls) > 0
    BY <1>1, FirstCall DEF ViewsInv
  <1>3. c.vol \in Volumes
    BY <1>1, <1>2 DEF CallOK
  <1>4. PICK slots : slots = [i \in 1..Len(Views) |-> VolumeChanged(Views[i], c.vol)]
    OBVIOUS
  <1>5. PICK first : first = <<SetSurface(ManualPlane, ManualPlane)>>
    OBVIOUS
  <1>6. PICK todo : todo = first \o slots
    OBVIOUS
  <1>7. calls' = todo \o Tail(calls)
    BY <1>4, <1>5, <1>6 DEF DoSetVolume, Then, ToAll
  <1>8. IsSeq(slots) /\ Len(slots) = Len(Views)
    BY <1>4, ViewsSeq, OnesSeq
  <1>9. \A i \in 1..Len(slots) : slots[i].call = "OnVolumeChanged"
            /\ slots[i].view \in ViewSet /\ slots[i].vol \in Volumes
    BY <1>3, <1>4, <1>8, ViewsSeq DEF VolumeChanged
  <1>10. IsSeq(first) /\ Len(first) = 1 /\ first[1].call = "setSurface"
    BY <1>5, ShortSeq DEF SetSurface
  <1>11. CallOK(first[1]) /\ \A i \in 1..Len(slots) : CallOK(slots[i])
    BY <1>9, <1>10 DEF CallOK
  <1>12. IsJoin(todo, first, slots)
    BY <1>6, <1>8, <1>10, Joined
  <1>13. /\ IsSeq(todo)
         /\ \A i \in 1..Len(todo) : CallOK(todo[i]) /\ todo[i].call \notin {"shown", "listen"}
    BY <1>9, <1>10, <1>11, <1>12 DEF IsJoin
  <1>14. ~OnLines(calls[1]) /\ ~OnCrop(calls[1])
    BY <1>1, <1>2 DEF OnCrop, OnLines
  <1>15. QueueOK(calls') /\ Nested(calls', view)
    BY <1>1, <1>7, <1>13, <1>14, PushedSame DEF ViewsInv
  <1>16. DrawnInv'
    BY <1>1, <1>2, PicturesStay DEF ViewsInv, SamePicture
  <1> QED
    BY <1>1, <1>15, <1>16 DEF ViewsInv, ViewTypes

\* A view that hears of its own lines while it publishes them does nothing.
LEMMA IgnoreKeeps == ViewsInv /\ IgnoreIntersection => ViewsInv'
  <1> SUFFICES ASSUME ViewsInv, IgnoreIntersection PROVE ViewsInv'
    OBVIOUS
  <1>1. /\ calls # <<>> /\ Head(calls).call = "onIntersectionChanged"
        /\ UNCHANGED <<view, vpkg, broken>> /\ calls' = <<>> \o Tail(calls)
    BY DEF IgnoreIntersection, Running, Then, window
  <1>2. Head(calls) = calls[1] /\ Len(calls) > 0
    BY <1>1, FirstCall DEF ViewsInv
  <1>3. QueueOK(calls') /\ Nested(calls', view)
    BY <1>1, Popped DEF ViewsInv
  <1>4. DrawnInv'
    BY <1>1, <1>2, PicturesStay DEF ViewsInv, SamePicture
  <1> QED
    BY <1>1, <1>3, <1>4 DEF ViewsInv, ViewTypes

\* renderVisible returns early when nothing can be drawn or the image is there.
LEMMA SkipRenderKeeps == ViewsInv /\ SkipRender => ViewsInv'
  <1> SUFFICES ASSUME ViewsInv, SkipRender PROVE ViewsInv'
    OBVIOUS
  <1>1. /\ calls # <<>> /\ Head(calls).call = "renderVisible" /\ ~Renders(Head(calls))
        /\ UNCHANGED <<view, vpkg, broken>> /\ calls' = <<>> \o Tail(calls)
    BY DEF SkipRender, Running, Then, window
  <1>2. Head(calls) = calls[1] /\ Len(calls) > 0
    BY <1>1, FirstCall DEF ViewsInv
  <1>3. QueueOK(calls') /\ Nested(calls', view)
    BY <1>1, Popped DEF ViewsInv
  <1>4. ASSUME NEW v \in Planes, broken = None PROVE Drawn(view[v])
    <2>1. CASE Waits(v, view[v], calls)
      <3>1. ~CanDraw(view[v])
        BY <1>1, <1>2, <2>1 DEF Waits, Renders, Covered, Covers
      <3> QED
        BY <3>1 DEF Drawn
    <2>2. CASE ~Waits(v, view[v], calls)
      BY <1>4, <2>2, SettledDrawn DEF ViewsInv
    <2> QED
      BY <2>1, <2>2
  <1>5. DrawnInv'
    BY <1>1, <1>4 DEF ViewsInv, DrawnInv
  <1> QED
    BY <1>1, <1>3, <1>5 DEF ViewsInv, ViewTypes

\* A view hears its own surface: it gets it, and is the next to draw.
LEMMA OwnSurfaceKeeps == ViewsInv /\ OwnSurfaceChanged => ViewsInv'
  <1> SUFFICES ASSUME ViewsInv, OwnSurfaceChanged PROVE ViewsInv'
    OBVIOUS
  <1> DEFINE c == Head(calls)
             v == c.view
             w == WithSurface(view[v], c.surf)
  <1>1. /\ calls # <<>> /\ c.call = "onSurfaceChanged" /\ c.name = v
        /\ UNCHANGED <<vpkg, broken>>
    BY DEF OwnSurfaceChanged, Running, window
  <1>2. c = calls[1] /\ CallOK(c) /\ Len(calls) > 0
    BY <1>1, FirstCall DEF ViewsInv
  <1>3. v \in ViewSet
    BY <1>1, <1>2 DEF CallOK
  <1>4. view' = [view EXCEPT ![v] = w]
    BY <1>3 DEF OwnSurfaceChanged, ViewsInv, ViewTypes, WithSurface
  <1>5. IsView(view[v])
    BY <1>3 DEF ViewsInv, ViewTypes
  <1>6. /\ IsView(w) /\ w.area = None /\ w.vol = view[v].vol
        /\ w.level = view[v].level /\ w.image = view[v].image
    BY <1>5, SurfaceGiven
  <1>7. PICK todo : todo = <<Render(v, FALSE), Redraw(v, c.name)>>
    OBVIOUS
  <1>8. calls' = todo \o Tail(calls)
    BY <1>7 DEF OwnSurfaceChanged, Then
  <1> HIDE DEF w, c, v
  <1>9. IsSeq(todo) /\ Len(todo) = 2
        /\ todo[1].call = "renderVisible" /\ todo[1].view = v
        /\ todo[2].call = "redraw" /\ todo[2].view = v
    BY <1>7, ShortSeq DEF Render, Redraw
  <1>10. CallOK(todo[1]) /\ CallOK(todo[2])
    BY <1>3, <1>9 DEF CallOK
  <1>11. \A i \in 1..Len(todo) : CallOK(todo[i]) /\ todo[i].call \notin {"shown", "listen"}
    BY <1>9, <1>10
  <1>12. ~OnLines(calls[1]) /\ ~OnCrop(calls[1])
    BY <1>1, <1>2, <1>3, ViewsAssumption DEF OnCrop, OnLines
  <1>13. QueueOK(calls') /\ Nested(calls', view')
    BY <1>1, <1>8, <1>9, <1>11, <1>12, PushedPlain DEF ViewsInv
  <1>14. /\ DOMAIN view' = ViewSet /\ \A u \in ViewSet : IsView(view'[u])
         /\ view'[v] = w /\ \A u \in ViewSet \ {v} : view'[u] = view[u]
    BY <1>3, <1>4, <1>6, OneView DEF ViewsInv, ViewTypes
  <1>15. Len(calls') > 0 /\ calls'[1] = todo[1]
    <2>1. IsPushed(calls', todo, calls)
      BY <1>1, <1>8, <1>9, Pushed DEF ViewsInv, QueueOK
    <2>2. Len(calls) \in Nat /\ Len(calls) > 0
      BY <1>2, <2>1 DEF IsPushed
    <2> QED
      BY <1>9, <2>1, <2>2 DEF IsPushed
  <1>16. ASSUME NEW u \in Planes
         PROVE  /\ HalfOrLess(view'[u])
                /\ broken' = None => Drawn(view'[u]) \/ Waits(u, view'[u], calls')
    <2>1. HalfOrLess(view[u])
      BY DEF ViewsInv, DrawnInv
    <2>2. CASE u = v
      <3>1. HalfOrLess(view'[u])
        BY <1>6, <1>14, <2>1, <2>2 DEF HalfOrLess, LevelFits
      <3>2. Waits(u, view'[u], calls')
        BY <1>6, <1>9, <1>14, <1>15, <2>2 DEF Waits
      <3> QED
        BY <3>1, <3>2
    <2>3. CASE u # v
      <3>1. view'[u] = view[u]
        BY <1>14, <2>3 DEF Planes
      <3>2. broken = None => Drawn(view[u])
        BY <1>1, <1>2, SettledDrawn DEF ViewsInv, Waits
      <3> QED
        BY <1>1, <2>1, <3>1, <3>2
    <2> QED
      BY <2>2, <2>3
  <1>17. DrawnInv'
    BY <1>16 DEF DrawnInv
  <1> QED
    BY <1>1, <1>13, <1>14, <1>17 DEF ViewsInv, ViewTypes

\* A view hears of the new volume, and is the next to draw.
LEMMA VolumeKeeps == ViewsInv /\ DoVolumeChanged => ViewsInv'
  <1> SUFFICES ASSUME ViewsInv, DoVolumeChanged PROVE ViewsInv'
    OBVIOUS
  <1> DEFINE c == Head(calls)
             v == c.view
             w == [view[v] EXCEPT !.vol = c.vol]
  <1>1. /\ calls # <<>> /\ c.call = "OnVolumeChanged"
        /\ UNCHANGED <<vpkg, broken>>
    BY DEF DoVolumeChanged, Running, window
  <1>2. c = calls[1] /\ CallOK(c) /\ Len(calls) > 0
    BY <1>1, FirstCall DEF ViewsInv
  <1>3. v \in ViewSet /\ c.vol \in Volumes
    BY <1>1, <1>2 DEF CallOK
  <1>4. view' = [view EXCEPT ![v] = w]
    BY <1>3 DEF DoVolumeChanged, ViewsInv, ViewTypes
  <1>5. IsView(view[v])
    BY <1>3 DEF ViewsInv, ViewTypes
  <1>6. IsView(w) /\ w.level = view[v].level /\ w.image = view[v].image
    BY <1>3, <1>5 DEF IsView
  <1>7. PICK todo : todo = <<Render(v, TRUE)>>
    OBVIOUS
  <1>8. calls' = todo \o Tail(calls)
    BY <1>7 DEF DoVolumeChanged, Then
  <1> HIDE DEF w, c, v
  <1>9. IsSeq(todo) /\ Len(todo) = 1 /\ todo[1].call = "renderVisible"
        /\ todo[1].view = v /\ todo[1].force
    BY <1>7, ShortSeq DEF Render
  <1>10. CallOK(todo[1])
    BY <1>3, <1>9 DEF CallOK
  <1>11. \A i \in 1..Len(todo) : CallOK(todo[i]) /\ todo[i].call \notin {"shown", "listen"}
    BY <1>9, <1>10
  <1>12. ~OnLines(calls[1]) /\ ~OnCrop(calls[1])
    BY <1>1, <1>2 DEF OnCrop, OnLines
  <1>13. QueueOK(calls') /\ Nested(calls', view')
    BY <1>1, <1>8, <1>9, <1>11, <1>12, PushedPlain DEF ViewsInv
  <1>14. /\ DOMAIN view' = ViewSet /\ \A u \in ViewSet : IsView(view'[u])
         /\ view'[v] = w /\ \A u \in ViewSet \ {v} : view'[u] = view[u]
    BY <1>3, <1>4, <1>6, OneView DEF ViewsInv, ViewTypes
  <1>15. Len(calls') > 0 /\ calls'[1] = todo[1]
    <2>1. IsPushed(calls', todo, calls)
      BY <1>1, <1>8, <1>9, Pushed DEF ViewsInv, QueueOK
    <2>2. Len(calls) \in Nat /\ Len(calls) > 0
      BY <1>2, <2>1 DEF IsPushed
    <2> QED
      BY <1>9, <2>1, <2>2 DEF IsPushed
  <1>16. ASSUME NEW u \in Planes
         PROVE  /\ HalfOrLess(view'[u])
                /\ broken' = None => Drawn(view'[u]) \/ Waits(u, view'[u], calls')
    <2>1. HalfOrLess(view[u])
      BY DEF ViewsInv, DrawnInv
    <2>2. CASE u = v
      <3>1. HalfOrLess(view'[u])
        BY <1>6, <1>14, <2>1, <2>2 DEF HalfOrLess, LevelFits
      <3>2. Waits(u, view'[u], calls')
        BY <1>6, <1>9, <1>14, <1>15, <2>2 DEF Waits
      <3> QED
        BY <3>1, <3>2
    <2>3. CASE u # v
      <3>1. view'[u] = view[u]
        BY <1>14, <2>3 DEF Planes
      <3>2. broken = None => Drawn(view[u])
        BY <1>1, <1>2, SettledDrawn DEF ViewsInv, Waits
      <3> QED
        BY <1>1, <2>1, <3>1, <3>2
    <2> QED
      BY <2>2, <2>3
  <1>17. DrawnInv'
    BY <1>16 DEF DrawnInv
  <1> QED
    BY <1>1, <1>13, <1>14, <1>17 DEF ViewsInv, ViewTypes

\* A view takes the lines with one surface away and draws what is missing; while
\* lines are heard of, a plane's view that publishes keeps its own.
LEMMA DropRedrawKeeps ==
  ASSUME ViewsInv, calls # <<>>, calls[1].call # "renderVisible",
         UNCHANGED <<vpkg, broken>>,
         NEW v \in ViewSet, NEW name, Redrawn(v, Dropped(v, view[v], name), <<>>),
         OnLines(calls[1]) /\ v \in Planes /\ Publishing(view[v]) => name = None
  PROVE  ViewsInv'
  <1>0. PICK w : w = Dropped(v, view[v], name)
    OBVIOUS
  <1>1. IsView(view[v])
    BY DEF ViewsInv, ViewTypes
  <1>2. /\ IsView(w) /\ SamePicture(view[v], w)
        /\ Publishing(view[v]) /\ name = None => Publishing(w)
    BY <1>0, <1>1, DroppedKeeps
  <1>3. Redrawn(v, w, <<>>)
    BY <1>0
  <1>4. /\ ViewTypes' /\ QueueOK(calls') /\ Nested(calls', view')
        /\ SamePicture(w, view'[v])
        /\ \A u \in ViewSet \ {v} : view'[u] = view[u]
    BY <1>2, <1>3, RedrawnKeeps DEF ViewsInv
  <1>5. SamePicture(view[v], view'[v])
    BY <1>2, <1>4 DEF SamePicture
  <1>6. \A u \in Planes : SamePicture(view[u], view'[u])
    BY <1>4, <1>5 DEF Planes, SamePicture
  <1>7. DrawnInv'
    BY <1>6, PicturesStay DEF ViewsInv
  <1> QED
    BY <1>4, <1>7 DEF ViewsInv

LEMMA OtherSurfaceKeeps == ViewsInv /\ OtherSurfaceChanged => ViewsInv'
  <1> SUFFICES ASSUME ViewsInv, OtherSurfaceChanged PROVE ViewsInv'
    OBVIOUS
  <1> DEFINE c == Head(calls)
  <1>1. /\ calls # <<>> /\ c.call = "onSurfaceChanged"
        /\ UNCHANGED <<vpkg, broken>>
        /\ Redrawn(c.view, Dropped(c.view, view[c.view], c.name), <<>>)
    BY DEF OtherSurfaceChanged, Running, window
  <1>2. c = calls[1] /\ CallOK(c)
    BY <1>1, FirstCall DEF ViewsInv
  <1> HIDE DEF c
  <1>3. c.view \in ViewSet /\ ~OnLines(calls[1]) /\ calls[1].call # "renderVisible"
    BY <1>1, <1>2 DEF CallOK, OnLines
  <1> QED
    BY <1>1, <1>3, DropRedrawKeeps

LEMMA RedrawKeeps == ViewsInv /\ DoRedraw => ViewsInv'
  <1> SUFFICES ASSUME ViewsInv, DoRedraw PROVE ViewsInv'
    OBVIOUS
  <1> DEFINE c == Head(calls)
  <1>1. /\ calls # <<>> /\ c.call = "redraw"
        /\ UNCHANGED <<vpkg, broken>>
        /\ Redrawn(c.view, Dropped(c.view, view[c.view], c.name), <<>>)
    BY DEF DoRedraw, Running, window
  <1>2. c = calls[1] /\ CallOK(c)
    BY <1>1, FirstCall DEF ViewsInv
  <1> HIDE DEF c
  <1>3. c.view \in ViewSet /\ ~OnLines(calls[1]) /\ calls[1].call # "renderVisible"
    BY <1>1, <1>2 DEF CallOK, OnLines
  <1> QED
    BY <1>1, <1>3, DropRedrawKeeps

\* A plane's view that is publishing hears of other views' lines only, and leaves
\* its own.
LEMMA IntersectionKeeps == ViewsInv /\ DoIntersectionChanged => ViewsInv'
  <1> SUFFICES ASSUME ViewsInv, DoIntersectionChanged PROVE ViewsInv'
    OBVIOUS
  <1> DEFINE v == Head(calls).view
             by == Head(calls).by
             key == IF by = v THEN Crop ELSE IF v = Segmentation THEN by ELSE None
  <1>1. /\ calls # <<>> /\ Head(calls).call = "onIntersectionChanged"
        /\ UNCHANGED <<vpkg, broken>>
        /\ ~Ignores(v, by)
        /\ Redrawn(v, Dropped(v, view[v], key), <<>>)
    BY DEF DoIntersectionChanged, Running, window
  <1>2. Head(calls) = calls[1] /\ CallOK(Head(calls))
    BY <1>1, FirstCall DEF ViewsInv
  <1>3. v \in ViewSet /\ calls[1].call # "renderVisible"
    BY <1>1, <1>2 DEF CallOK
  <1>4. ASSUME v \in Planes, Publishing(view[v]) PROVE key = None
    BY <1>1, <1>4 DEF Publishing, Ignores, Planes
  <1> HIDE DEF v, by, key
  <1> QED
    BY <1>1, <1>3, <1>4, DropRedrawKeeps

\* A view listens again: nobody else's publishing ends, and none of its own is left.
LEMMA ListenKeeps == ViewsInv /\ DoListen => ViewsInv'
  <1> SUFFICES ASSUME ViewsInv, DoListen PROVE ViewsInv'
    OBVIOUS
  <1>1. PICK v : v = Head(calls).view
    OBVIOUS
  <1>2. /\ calls # <<>> /\ Head(calls).call = "listen"
        /\ UNCHANGED <<vpkg, broken>> /\ calls' = <<>> \o Tail(calls)
        /\ view' = [view EXCEPT ![v].ignoring = FALSE]
    BY <1>1 DEF DoListen, Running, Then, window
  <1>3. Head(calls) = calls[1] /\ CallOK(Head(calls)) /\ Len(calls) > 0
    BY <1>2, FirstCall DEF ViewsInv
  <1>4. v \in ViewSet /\ v \in Planes /\ ListensTo(calls[1], v)
    BY <1>1, <1>2, <1>3 DEF CallOK, Planes, ListensTo
  <1>5. PICK w : w = [view[v] EXCEPT !.ignoring = FALSE]
    OBVIOUS
  <1>6. view' = [view EXCEPT ![v] = w]
    BY <1>2, <1>4, <1>5 DEF ViewsInv, ViewTypes
  <1>7. IsView(w) /\ SamePicture(view[v], w)
    <2>1. PICK old : old = view[v]
      OBVIOUS
    <2>2. IsView(old) /\ w = [old EXCEPT !.ignoring = FALSE]
      BY <1>4, <1>5, <2>1 DEF ViewsInv, ViewTypes
    <2>3. IsView(w) /\ SamePicture(old, w)
      BY <2>2 DEF IsView, SamePicture
    <2> QED
      BY <2>1, <2>3
  <1>8. /\ DOMAIN view' = ViewSet /\ \A u \in ViewSet : IsView(view'[u])
        /\ view'[v] = w /\ \A u \in ViewSet \ {v} : view'[u] = view[u]
    BY <1>4, <1>6, <1>7, OneView DEF ViewsInv, ViewTypes
  <1>9. ASSUME NEW i \in 2..Len(calls), calls[i].call = "listen"
        PROVE  Publishing(view'[calls[i].view])
    <2>1. i \in 1..Len(calls) /\ 1 \in 1..(i - 1)
      BY DEF ViewsInv, QueueOK, IsSeq
    <2>2. Publishing(view[calls[i].view]) /\ ~ListensTo(calls[1], calls[i].view)
      BY <1>9, <2>1 DEF ViewsInv, Nested
    <2>3. calls[i].view \in ViewSet \ {v}
      BY <1>4, <1>9, <2>1, <2>2 DEF ViewsInv, QueueOK, CallOK, Planes
    <2> QED
      BY <1>8, <2>2, <2>3
  <1>10. QueueOK(calls') /\ Nested(calls', view')
    <2>0. PICK none : none = <<>>
      OBVIOUS
    <2>1. IsSeq(none) /\ Len(none) = 0 /\ calls' = none \o Tail(calls)
      BY <1>2, <2>0 DEF IsSeq
    <2>2. /\ Nested(none, view') /\ \A i \in 1..Len(none) : CallOK(none[i])
          /\ \A i \in 1..Len(none) : OnCrop(none[i]) /\ OnLines(none[i])
          /\ \A u : \A i \in 1..Len(none) : ~ListensTo(none[i], u)
      BY <2>1 DEF Nested
    <2>3. QueueOK(calls) /\ Nested(calls, view) /\ calls # <<>>
      BY <1>2 DEF ViewsInv
    <2>4. \A i \in 2..Len(calls) : calls[i].call = "listen" =>
            /\ Publishing(view'[calls[i].view])
            /\ \A j \in 1..Len(none) : ~ListensTo(none[j], calls[i].view)
      BY <1>9, <2>1
    <2> HIDE DEF ViewsInv
    <2> QED
      BY <2>1, <2>2, <2>3, <2>4, PushedNested
  <1>11. \A u \in Planes : SamePicture(view[u], view'[u])
    BY <1>7, <1>8 DEF Planes, SamePicture
  <1>12. DrawnInv'
    BY <1>2, <1>3, <1>11, PicturesStay DEF ViewsInv
  <1> QED
    BY <1>2, <1>8, <1>10, <1>12 DEF ViewsInv, ViewTypes

\* A plane's view goes back to its origin and is drawn before the plane moves.
LEMMA FocusKeeps == ViewsInv /\ DoFocusChanged => ViewsInv'
  <1> SUFFICES ASSUME ViewsInv, DoFocusChanged PROVE ViewsInv'
    OBVIOUS
  <1>1. PICK v : v = Head(calls).view
    OBVIOUS
  <1>2. /\ calls # <<>> /\ Head(calls).call = "onPOIChanged"
        /\ UNCHANGED <<vpkg, broken>>
    BY DEF DoFocusChanged, Running, window
  <1>3. Head(calls) = calls[1] /\ CallOK(Head(calls)) /\ Len(calls) > 0
    BY <1>2, FirstCall DEF ViewsInv
  <1>4. v \in ViewSet /\ ~OnLines(calls[1]) /\ ~OnCrop(calls[1])
    BY <1>1, <1>2, <1>3 DEF CallOK, OnLines, OnCrop
  <1>5. CASE calls' = <<>> \o Tail(calls) /\ view' = view
    <2>1. QueueOK(calls') /\ Nested(calls', view)
      BY <1>2, <1>5, Popped DEF ViewsInv
    <2>2. DrawnInv'
      BY <1>2, <1>3, <1>5, PicturesStay DEF ViewsInv, SamePicture
    <2> QED
      BY <1>2, <1>5, <2>1, <2>2 DEF ViewsInv, ViewTypes
  <1>6. CASE /\ view' = [view EXCEPT ![v].bar = 0]
             /\ \/ calls' = <<MovePlane(v)>> \o Tail(calls)
                \/ calls' = (ScrollCalls(v) \o <<MovePlane(v)>>) \o Tail(calls)
    <2>1. PICK todo : /\ \/ todo = <<MovePlane(v)>>
                         \/ todo = <<Render(v, FALSE), ScrollContentsBy(v), MovePlane(v)>>
                      /\ calls' = todo \o Tail(calls)
      <3>1. ScrollCalls(v) \o <<MovePlane(v)>>
              = <<Render(v, FALSE), ScrollContentsBy(v), MovePlane(v)>>
        BY Prefixed DEF ScrollCalls
      <3> QED
        BY <1>6, <3>1
    <2>2. /\ IsSeq(todo)
          /\ \A i \in 1..Len(todo) : CallOK(todo[i]) /\ todo[i].call \notin {"shown", "listen"}
      <3> DEFINE a == Render(v, FALSE)
                 b == MovePlane(v)
                 c == ScrollContentsBy(v)
      <3>1. Plain(a) /\ Plain(b) /\ Plain(c)
        BY <1>4 DEF Plain, CallOK, Render, MovePlane, ScrollContentsBy
      <3>2. todo = <<b>> \/ todo = <<a, c, b>>
        BY <2>1
      <3> HIDE DEF a, b, c
      <3>3. Fresh(todo)
        BY <3>1, <3>2, FreshShort
      <3> QED
        BY <3>3 DEF Fresh, Plain
    <2>3. PICK w : w = [view[v] EXCEPT !.bar = 0]
      OBVIOUS
    <2>4. view' = [view EXCEPT ![v] = w]
      BY <1>4, <1>6, <2>3 DEF ViewsInv, ViewTypes
    <2>5. IsView(w) /\ SamePicture(view[v], w)
      <3>1. PICK old : old = view[v]
        OBVIOUS
      <3>2. IsView(old) /\ w = [old EXCEPT !.bar = 0]
        BY <1>4, <2>3, <3>1 DEF ViewsInv, ViewTypes
      <3>3. IsView(w) /\ SamePicture(old, w)
        BY <3>2 DEF IsView, SamePicture
      <3> QED
        BY <3>1, <3>3
    <2>6. /\ DOMAIN view' = ViewSet /\ \A u \in ViewSet : IsView(view'[u])
          /\ view'[v] = w /\ \A u \in ViewSet \ {v} : view'[u] = view[u]
      BY <1>4, <2>4, <2>5, OneView DEF ViewsInv, ViewTypes
    <2>7. QueueOK(calls') /\ Nested(calls', view')
      BY <1>2, <1>4, <2>1, <2>2, PushedPlain DEF ViewsInv
    <2>8. \A u \in Planes : SamePicture(view[u], view'[u])
      BY <2>5, <2>6 DEF Planes, SamePicture
    <2>9. DrawnInv'
      BY <1>2, <1>3, <2>8, PicturesStay DEF ViewsInv
    <2> QED
      BY <1>2, <2>6, <2>7, <2>9 DEF ViewsInv, ViewTypes
  <1> QED
    BY <1>1, <1>5, <1>6 DEF DoFocusChanged, Then

\* The view is moved to where its scroll bar is.
LEMMA ScrollContentsKeeps == ViewsInv /\ DoScrollContentsBy => ViewsInv'
  <1> SUFFICES ASSUME ViewsInv, DoScrollContentsBy PROVE ViewsInv'
    OBVIOUS
  <1>1. PICK v : v = Head(calls).view
    OBVIOUS
  <1>2. /\ calls # <<>> /\ Head(calls).call = "scrollContentsBy"
        /\ UNCHANGED <<vpkg, broken>> /\ calls' = <<>> \o Tail(calls)
    BY DEF DoScrollContentsBy, Running, Then, window
  <1>3. Head(calls) = calls[1] /\ CallOK(Head(calls)) /\ Len(calls) > 0
    BY <1>2, FirstCall DEF ViewsInv
  <1>4. v \in ViewSet /\ ~OnLines(calls[1]) /\ ~OnCrop(calls[1])
    BY <1>1, <1>2, <1>3 DEF CallOK, OnLines, OnCrop
  <1>5. PICK old : old = view[v]
    OBVIOUS
  <1>6. PICK w : w = IF old.bar = old.place THEN old
                     ELSE [old EXCEPT !.place = old.bar, !.from = old.place]
    OBVIOUS
  <1>7. IsView(old)
    BY <1>4, <1>5 DEF ViewsInv, ViewTypes
  <1>8. IsView(w) /\ SamePicture(old, w)
    BY <1>6, <1>7 DEF IsView, SamePicture
  <1>9. /\ DOMAIN view' = ViewSet /\ \A u \in ViewSet : IsView(view'[u])
        /\ view'[v] = w /\ \A u \in ViewSet \ {v} : view'[u] = view[u]
    <2>1. CASE old.bar = old.place
      <3>1. UNCHANGED view
        BY <1>1, <1>5, <2>1 DEF DoScrollContentsBy
      <3> QED
        BY <1>5, <1>6, <2>1, <3>1 DEF ViewsInv, ViewTypes
    <2>2. CASE old.bar # old.place
      <3>1. view' = [view EXCEPT ![v] = w]
        BY <1>1, <1>4, <1>5, <1>6, <2>2 DEF DoScrollContentsBy, ViewsInv, ViewTypes
      <3> QED
        BY <1>4, <1>8, <3>1, OneView DEF ViewsInv, ViewTypes
    <2> QED
      BY <2>1, <2>2
  <1>10. PICK none : none = <<>>
    OBVIOUS
  <1>11. /\ IsSeq(none) /\ calls' = none \o Tail(calls)
         /\ \A i \in 1..Len(none) : Plain(none[i])
    BY <1>2, <1>10, FreshShort DEF Fresh
  <1>12. QueueOK(calls') /\ Nested(calls', view')
    BY <1>2, <1>4, <1>11, PushedPlain DEF ViewsInv, Plain
  <1>13. \A u \in Planes : SamePicture(view[u], view'[u])
    BY <1>5, <1>8, <1>9 DEF Planes, SamePicture
  <1>14. DrawnInv'
    BY <1>2, <1>3, <1>13, PicturesStay DEF ViewsInv
  <1> QED
    BY <1>2, <1>9, <1>12, <1>14 DEF ViewsInv, ViewTypes

\* The segmentation goes on with its image once the crop has been heard of.
LEMMA ShowKeeps == ViewsInv /\ DoShow => ViewsInv'
  <1> SUFFICES ASSUME ViewsInv, DoShow PROVE ViewsInv'
    OBVIOUS
  <1>0. PICK v, i : /\ v = Head(calls).view
                    /\ i = [sheet |-> Head(calls).sheet, vol |-> view[v].vol,
                            level |-> view[v].level]
    OBVIOUS
  <1>1. PICK w : w = [view[v] EXCEPT !.image = i, !.lines = NoLines]
    OBVIOUS
  <1>2. /\ calls # <<>> /\ Head(calls).call = "shown"
        /\ UNCHANGED <<vpkg, broken>>
        /\ Redrawn(v, w, <<>>)
    BY <1>0, <1>1 DEF DoShow, Running, window
  <1>3. Head(calls) = calls[1] /\ CallOK(Head(calls)) /\ Len(calls) > 0
    BY <1>2, FirstCall DEF ViewsInv
  <1>4. v = Segmentation /\ v \in ViewSet /\ ~OnLines(calls[1]) /\ v \notin Planes
    BY <1>0, <1>2, <1>3, ViewsAssumption DEF CallOK, OnLines, Planes
  <1>5. IsView(w)
    <2>1. PICK old : old = view[v]
      OBVIOUS
    <2>2. IsView(old) /\ w = [old EXCEPT !.image = i, !.lines = NoLines]
      BY <1>1, <1>4, <2>1 DEF ViewsInv, ViewTypes
    <2> QED
      BY <2>2 DEF IsView
  <1>6. /\ ViewTypes' /\ QueueOK(calls') /\ Nested(calls', view')
        /\ \A u \in ViewSet \ {v} : view'[u] = view[u]
    BY <1>2, <1>4, <1>5, RedrawnKeeps DEF ViewsInv
  <1>7. \A u \in Planes : SamePicture(view[u], view'[u])
    BY <1>4, <1>6 DEF Planes, SamePicture
  <1>8. DrawnInv'
    BY <1>2, <1>3, <1>7, PicturesStay DEF ViewsInv
  <1> QED
    BY <1>2, <1>6, <1>8 DEF ViewsInv

\* The part shown is published before the image is shown.
LEMMA CropCalls ==
  ASSUME NEW s, NEW q, NEW views, q = <<SetSurface(Crop, s), Shown(Segmentation, s)>>
  PROVE  /\ IsSeq(q) /\ \A i \in 1..Len(q) : CallOK(q[i]) /\ ~OnLines(q[i])
         /\ Nested(q, views)
  <1> DEFINE a == SetSurface(Crop, s)
             b == Shown(Segmentation, s)
  <1>1. a.call = "setSurface" /\ a.name = Crop /\ b.call = "shown" /\ b.view = Segmentation
    BY DEF SetSurface, Shown
  <1>2. IsSeq(q) /\ Len(q) = 2 /\ q[1] = a /\ q[2] = b
    BY ShortSeq
  <1> HIDE DEF a, b
  <1>3. \A i \in 1..Len(q) : (i = 1 /\ q[i] = a) \/ (i = 2 /\ q[i] = b)
    BY <1>2
  <1>4. CallOK(a) /\ CallOK(b) /\ OnCrop(a) /\ ~OnLines(a) /\ ~OnLines(b)
    BY <1>1 DEF CallOK, OnCrop, OnLines
  <1>5. Nested(q, views)
    BY <1>1, <1>2, <1>3, <1>4 DEF Nested
  <1> QED
    BY <1>2, <1>3, <1>4, <1>5

LEMMA RenderSegmentationKeeps == ViewsInv /\ RenderSegmentation => ViewsInv'
  <1> SUFFICES ASSUME ViewsInv, RenderSegmentation PROVE ViewsInv'
    OBVIOUS
  <1>0. PICK s : calls' = <<SetSurface(Crop, s), Shown(Segmentation, s)>> \o Tail(calls)
    BY DEF RenderSegmentation, Then
  <1>1. PICK todo : todo = <<SetSurface(Crop, s), Shown(Segmentation, s)>>
    OBVIOUS
  <1>2. /\ calls # <<>> /\ Head(calls).call = "renderVisible"
        /\ UNCHANGED <<vpkg, broken>>
        /\ Head(calls).view = Segmentation
        /\ calls' = todo \o Tail(calls)
    BY <1>0, <1>1 DEF RenderSegmentation, Running, window
  <1>3. Head(calls) = calls[1] /\ CallOK(Head(calls)) /\ Len(calls) > 0
    BY <1>2, FirstCall DEF ViewsInv
  <1>4. Segmentation \in ViewSet /\ ~OnLines(calls[1]) /\ ~OnCrop(calls[1])
    BY <1>2, <1>3, ViewsAssumption DEF OnLines, OnCrop
  <1>5. PICK w : w = [view[Segmentation] EXCEPT !.area = view[Segmentation].place,
                                                 !.lines = NoLines]
    OBVIOUS
  <1>6. view' = [view EXCEPT ![Segmentation] = w]
    BY <1>2, <1>4, <1>5 DEF RenderSegmentation, ViewsInv, ViewTypes
  <1>7. IsView(w)
    <2>1. PICK old : old = view[Segmentation]
      OBVIOUS
    <2>2. IsView(old) /\ w = [old EXCEPT !.area = old.place, !.lines = NoLines]
      BY <1>4, <1>5, <2>1 DEF ViewsInv, ViewTypes
    <2> QED
      BY <2>2 DEF IsView
  <1>8. /\ DOMAIN view' = ViewSet /\ \A u \in ViewSet : IsView(view'[u])
        /\ \A u \in ViewSet \ {Segmentation} : view'[u] = view[u]
    BY <1>4, <1>6, <1>7, OneView DEF ViewsInv, ViewTypes
  <1>9. /\ IsSeq(todo) /\ \A i \in 1..Len(todo) : CallOK(todo[i]) /\ ~OnLines(todo[i])
        /\ Nested(todo, view')
    BY <1>1, CropCalls
  <1>10. \A i \in 2..Len(calls) : calls[i].call # "listen"
    <2>1. Len(calls) \in Nat
      BY DEF ViewsInv, QueueOK, IsSeq
    <2> QED
      BY <1>4, <2>1, HeadOnly DEF ViewsInv
  <1>11. QueueOK(calls') /\ Nested(calls', view')
    BY <1>2, <1>4, <1>9, <1>10, PushedNested DEF ViewsInv
  <1>12. ASSUME NEW u \in Planes
         PROVE  /\ HalfOrLess(view'[u])
                /\ broken' = None => Drawn(view'[u])
    <2>1. view'[u] = view[u]
      BY <1>8 DEF Planes
    <2>2. broken = None => Drawn(view[u])
      BY <1>2, <1>3, SettledDrawn DEF ViewsInv, Waits, Planes
    <2> QED
      BY <1>2, <2>1, <2>2 DEF ViewsInv, DrawnInv
  <1>13. DrawnInv'
    BY <1>12 DEF DrawnInv
  <1> QED
    BY <1>2, <1>8, <1>11, <1>13 DEF ViewsInv, ViewTypes

\* A plane is drawn at a level its volume has, or the program goes down.
LEMMA RenderPlaneKeeps == ViewsInv /\ RenderPlane => ViewsInv'
  <1> SUFFICES ASSUME ViewsInv, RenderPlane PROVE ViewsInv'
    OBVIOUS
  <1>0. PICK v : v = Head(calls).view
    OBVIOUS
  <1>1. PICK w : w = [view[v] EXCEPT !.area = view[v].place]
    OBVIOUS
  <1>2. PICK x : x = [w EXCEPT !.image = Slice(v, w), !.lines = NoLines]
    OBVIOUS
  <1>3. /\ calls # <<>> /\ Head(calls).call = "renderVisible"
        /\ UNCHANGED vpkg /\ v # Segmentation /\ CanDraw(view[v])
    BY <1>0 DEF RenderPlane, Running, window, Renders
  <1>4. \/ HasLevel(w) /\ Redrawn(v, x, <<>>) /\ UNCHANGED broken
        \/ broken' = "level" /\ calls' = <<>> /\ UNCHANGED view
    BY <1>0, <1>1, <1>2 DEF RenderPlane, Break
  <1>5. Head(calls) = calls[1] /\ CallOK(Head(calls)) /\ Len(calls) > 0
    BY <1>3, FirstCall DEF ViewsInv
  <1>6. v \in ViewSet /\ v \in Planes /\ ~OnLines(calls[1])
    BY <1>0, <1>3, <1>5 DEF CallOK, OnLines, Planes
  <1>7. /\ IsView(w) /\ w.surf = view[v].surf /\ w.vol = view[v].vol
        /\ w.level = view[v].level
    <2>1. PICK old : old = view[v]
      OBVIOUS
    <2>2. IsView(old) /\ w = [old EXCEPT !.area = old.place]
      BY <1>1, <1>6, <2>1 DEF ViewsInv, ViewTypes
    <2> QED
      BY <2>1, <2>2, AreaGiven
  <1>8. /\ IsView(x) /\ x.image = Slice(v, w) /\ x.surf = w.surf /\ x.vol = w.vol
        /\ x.level = w.level
    BY <1>2, <1>7 DEF IsView
  <1>9. CASE HasLevel(w) /\ Redrawn(v, x, <<>>) /\ UNCHANGED broken
    <2>1. /\ ViewTypes' /\ QueueOK(calls') /\ Nested(calls', view')
          /\ SamePicture(x, view'[v])
          /\ \A u \in ViewSet \ {v} : view'[u] = view[u]
      BY <1>3, <1>6, <1>8, <1>9, RedrawnKeeps DEF ViewsInv
    <2>2. HalfOrLess(x) /\ Drawn(x)
      <3>1. x.level # 0 /\ x.level \in Int /\ x.vol \in Volumes /\ Scales[x.vol] \in Nat
        BY <1>3, <1>6, <1>7, <1>8, ViewsAssumption
           DEF ViewsInv, DrawnInv, HalfOrLess, IsView, CanDraw
      <3>2. x.level \in 0..(Scales[x.vol] - 1)
        BY <1>8, <1>9 DEF HasLevel
      <3>3. x.image.vol = x.vol
        BY <1>8 DEF Slice
      <3>4. Scales[x.vol] > 1 /\ x.level < Scales[x.vol]
        BY <3>1, <3>2
      <3> QED
        BY <3>1, <3>3, <3>4 DEF HalfOrLess, Drawn, LevelFits
    <2>3. HalfOrLess(view'[v]) /\ Drawn(view'[v])
      BY <2>1, <2>2, SamePictureDrawn
    <2>4. ASSUME NEW u \in Planes
          PROVE  /\ HalfOrLess(view'[u])
                 /\ broken' = None => Drawn(view'[u])
      <3>1. CASE u = v
        BY <2>3, <3>1
      <3>2. CASE u # v
        <4>1. view'[u] = view[u]
          BY <2>1, <3>2 DEF Planes
        <4>2. broken = None => Drawn(view[u])
          BY <1>0, <1>5, <3>2, SettledDrawn DEF ViewsInv, Waits
        <4> QED
          BY <1>9, <4>1, <4>2 DEF ViewsInv, DrawnInv
      <3> QED
        BY <3>1, <3>2
    <2>5. DrawnInv'
      BY <2>4 DEF DrawnInv
    <2> QED
      BY <1>3, <2>1, <2>5 DEF ViewsInv
  <1>10. CASE broken' = "level" /\ calls' = <<>> /\ UNCHANGED view
    <2>1. QueueOK(calls') /\ Nested(calls', view)
      BY <1>10, NoCalls
    <2>2. broken' # None
      BY <1>10, ReasonsAreSome DEF Reasons
    <2>3. DrawnInv'
      BY <1>10, <2>2, BrokenDrawn DEF ViewsInv
    <2> QED
      BY <1>3, <1>10, <2>1, <2>3 DEF ViewsInv, ViewTypes
  <1> QED
    BY <1>4, <1>9, <1>10

-----------------------------------------------------------------------------
(***************************************************************************)
(* The user, who acts when nothing is left to run.                         *)
(***************************************************************************)
\* The calls the window's actions begin with.
LEMMA PlainCalls ==
  /\ \A n, s : Plain(SetSurface(n, s))
  /\ \A v \in ViewSet : \A n : Plain(Redraw(v, n))
  /\ \A v \in ViewSet : \A f : Plain(Render(v, f))
  /\ \A v \in ViewSet : Plain(ScrollContentsBy(v))
  /\ \A x \in Volumes : Plain(SetVolume(x))
  /\ \A p : Plain(ChainSelected(p))
  /\ Plain(ClearTree) /\ Plain(SetFocus)
  BY DEF Plain, CallOK, SetSurface, Redraw, Render, SetVolume, ChainSelected,
         ClearTree, SetFocus, ScrollContentsBy

\* At rest every plane's image is of the volume that is set.
LEMMA RestDrawn ==
  ASSUME ViewsInv, calls = <<>>, broken = None, NEW v \in Planes
  PROVE  HalfOrLess(view[v]) /\ Drawn(view[v])
  <1>1. ~Waits(v, view[v], calls)
    <2>1. Len(calls) = 0
      OBVIOUS
    <2> QED
      BY <2>1 DEF Waits
  <1> QED
    BY <1>1 DEF ViewsInv, DrawnInv

LEMMA FreshKeeps ==
  ASSUME ViewsInv, calls = <<>>, broken = None, UNCHANGED <<view, broken>>,
         vpkg' \in Packages \cup {None}, Fresh(calls')
  PROVE  ViewsInv'
  <1>1. QueueOK(calls') /\ Nested(calls', view)
    BY FreshOK
  <1>2. DrawnInv'
    BY RestDrawn DEF DrawnInv
  <1> QED
    BY <1>1, <1>2 DEF ViewsInv, ViewTypes

LEMMA BrokenKeeps ==
  ASSUME ViewsInv, UNCHANGED <<view, vpkg>>, calls' = <<>>, broken' \in Reasons
  PROVE  ViewsInv'
  <1>1. QueueOK(calls') /\ Nested(calls', view)
    BY NoCalls
  <1>2. DrawnInv'
    BY ReasonsAreSome, BrokenDrawn DEF ViewsInv
  <1> QED
    BY <1>1, <1>2 DEF ViewsInv, ViewTypes

LEMMA SameKeeps ==
  ASSUME ViewsInv, UNCHANGED <<view, vpkg, calls, broken>>
  PROVE  ViewsInv'
  BY DEF ViewsInv, ViewTypes, DrawnInv

LEMMA OneViewKeeps ==
  ASSUME ViewsInv, calls = <<>>, broken = None, UNCHANGED <<vpkg, broken>>,
         NEW v \in ViewSet, NEW w, IsView(w), view' = [view EXCEPT ![v] = w],
         v \in Planes => HalfOrLess(w) /\ Drawn(w), Fresh(calls')
  PROVE  ViewsInv'
  <1>1. /\ DOMAIN view' = ViewSet /\ \A u \in ViewSet : IsView(view'[u])
        /\ view'[v] = w /\ \A u \in ViewSet \ {v} : view'[u] = view[u]
    BY OneView DEF ViewsInv, ViewTypes
  <1>2. QueueOK(calls') /\ Nested(calls', view')
    BY FreshOK
  <1>3. ASSUME NEW u \in Planes PROVE HalfOrLess(view'[u]) /\ Drawn(view'[u])
    <2>1. CASE u = v
      BY <1>1, <2>1
    <2>2. CASE u # v
      <3>1. view'[u] = view[u]
        BY <1>1, <2>2 DEF Planes
      <3> QED
        BY <3>1, RestDrawn
    <2> QED
      BY <2>1, <2>2
  <1>4. DrawnInv'
    BY <1>3 DEF DrawnInv
  <1> QED
    BY <1>1, <1>2, <1>4 DEF ViewsInv, ViewTypes

LEMMA OpenKeeps ==
  ASSUME ViewsInv, NEW p \in Packages \cup {None}, Open(p)
  PROVE  ViewsInv'
  <1>1. calls = <<>> /\ broken = None /\ vpkg' = p /\ UNCHANGED <<view, broken>>
    BY DEF Open, Input
  <1>2. Fresh(calls')
    <2>1. CASE p = None
      BY <2>1, FreshShort DEF Open
    <2>2. CASE p # None
      <3>1. p \in Seq(Volumes) /\ p # <<>>
        BY <2>2, ViewsAssumption
      <3>2. p[1] \in Volumes
        BY <3>1
      <3>3. calls' = <<SetVolume(p[1]), SetVolume(p[1]), ClearTree>>
        BY <2>2 DEF Open, OpenCalls
      <3> QED
        BY <3>2, <3>3, PlainCalls, FreshShort
    <2> QED
      BY <2>1, <2>2
  <1> QED
    BY <1>1, <1>2, FreshKeeps

LEMMA SelectVolumeKeeps ==
  ASSUME ViewsInv, NEW i \in 1..Cardinality(Volumes), SelectVolume(i)
  PROVE  ViewsInv'
  <1>1. calls = <<>> /\ broken = None /\ UNCHANGED <<view, vpkg, broken>>
    BY DEF SelectVolume, Input, window
  <1>2. vpkg \in Seq(Volumes) /\ i \in 1..Len(vpkg)
    BY ViewsAssumption DEF SelectVolume, ViewsInv
  <1>3. vpkg[i] \in Volumes
    BY <1>2
  <1>4. calls' = <<SetVolume(vpkg[i])>>
    BY DEF SelectVolume
  <1>5. Fresh(calls')
    BY <1>3, <1>4, PlainCalls, FreshShort
  <1>6. vpkg' \in Packages \cup {None}
    BY <1>1 DEF ViewsInv
  <1> QED
    BY <1>1, <1>5, <1>6, FreshKeeps

LEMMA SelectSurfaceKeeps ==
  ASSUME ViewsInv, NEW p, SelectSurface(p)
  PROVE  ViewsInv'
  <1>1. calls = <<>> /\ broken = None /\ UNCHANGED <<view, vpkg>>
    BY DEF SelectSurface, Input
  <1>2. CASE Break("file")
    BY <1>1, <1>2, BrokenKeeps DEF Break, Reasons
  <1>3. CASE /\ UNCHANGED broken
             /\ \/ calls' = <<SetSurface(Segmentation, p), ChainSelected(p)>>
                \/ calls' = <<>>
    <2>1. Fresh(calls')
      BY <1>3, PlainCalls, FreshShort
    <2>2. vpkg' \in Packages \cup {None}
      BY <1>1 DEF ViewsInv
    <2> QED
      BY <1>1, <1>3, <2>1, <2>2, FreshKeeps
  <1> QED
    BY <1>1, <1>2, <1>3 DEF SelectSurface

\* The operations of a chain: each change sets the segmentation anew.
LEMMA ChainActionsKeep ==
  ASSUME ViewsInv,
         \/ \E i \in 0..MaxOps : SelectOp(i)
         \/ AppendOp \/ ToggleOp
         \/ \E m \in Modes : ChangeSource(m)
  PROVE  ViewsInv'
  <1>1. CASE \E i \in 0..MaxOps : SelectOp(i)
    <2>1. UNCHANGED <<view, vpkg, calls, broken>>
      BY <1>1 DEF SelectOp
    <2> QED
      BY <2>1, SameKeeps
  <1>2. CASE AppendOp
    <2>1. calls = <<>> /\ broken = None /\ UNCHANGED <<view, vpkg>>
      BY <1>2 DEF AppendOp, Input, window
    <2>2. CASE Break("dataset")
      BY <2>1, <2>2, BrokenKeeps DEF Break, Reasons
    <2>3. CASE calls' = <<ChainSelected(list.chain), SetSurface(Segmentation, list.chain)>>
               /\ UNCHANGED broken
      <3>1. Fresh(calls') /\ vpkg' \in Packages \cup {None}
        BY <2>1, <2>3, PlainCalls, FreshShort DEF ViewsInv
      <3> QED
        BY <2>1, <2>3, <3>1, FreshKeeps
    <2> QED
      BY <1>2, <2>2, <2>3 DEF AppendOp
  <1>3. CASE ToggleOp
    <2>1. calls = <<>> /\ broken = None /\ UNCHANGED <<view, vpkg>>
      BY <1>3 DEF ToggleOp, Input, window
    <2>2. CASE Break("chain")
      BY <2>1, <2>2, BrokenKeeps DEF Break, Reasons
    <2>3. CASE calls' = <<SetSurface(Segmentation, settings.chain)>> /\ UNCHANGED broken
      <3>1. Fresh(calls') /\ vpkg' \in Packages \cup {None}
        BY <2>1, <2>3, PlainCalls, FreshShort DEF ViewsInv
      <3> QED
        BY <2>1, <2>3, <3>1, FreshKeeps
    <2> QED
      BY <1>3, <2>2, <2>3 DEF ToggleOp
  <1>4. CASE \E m \in Modes : ChangeSource(m)
    <2>1. calls = <<>> /\ broken = None /\ UNCHANGED <<view, vpkg, broken>>
          /\ calls' = <<SetSurface(Segmentation, settings.chain)>>
      BY <1>4 DEF ChangeSource, Input, window
    <2>2. Fresh(calls') /\ vpkg' \in Packages \cup {None}
      BY <2>1, PlainCalls, FreshShort DEF ViewsInv
    <2> QED
      BY <2>1, <2>2, FreshKeeps
  <1> QED
    BY <1>1, <1>2, <1>3, <1>4

LEMMA ChangeNormalKeeps ==
  ASSUME ViewsInv, NEW n, ChangeNormal(n)
  PROVE  ViewsInv'
  <1>1. calls = <<>> /\ broken = None /\ UNCHANGED <<view, vpkg, broken>>
        /\ calls' = <<SetSurface(ManualPlane, ManualPlane)>>
    BY DEF ChangeNormal, Input
  <1>2. Fresh(calls') /\ vpkg' \in Packages \cup {None}
    BY <1>1, PlainCalls, FreshShort DEF ViewsInv
  <1> QED
    BY <1>1, <1>2, FreshKeeps

\* A click moves the focus, one on the segmentation the planes across it first.
LEMMA ClickPlaneKeeps ==
  ASSUME ViewsInv, NEW v, NEW p, ClickPlane(v, p)
  PROVE  ViewsInv'
  <1>1. calls = <<>> /\ broken = None /\ UNCHANGED <<view, vpkg, broken>>
        /\ calls' = <<SetFocus>>
    BY DEF ClickPlane, Input, window
  <1>2. Fresh(calls') /\ vpkg' \in Packages \cup {None}
    BY <1>1, PlainCalls, FreshShort DEF ViewsInv
  <1> QED
    BY <1>1, <1>2, FreshKeeps

LEMMA ClickSegmentationKeeps ==
  ASSUME ViewsInv, NEW p, ClickSegmentation(p)
  PROVE  ViewsInv'
  <1>1. calls = <<>> /\ broken = None /\ UNCHANGED <<view, vpkg>>
    BY DEF ClickSegmentation, Input, window
  <1>2. CASE Break("crop")
    BY <1>1, <1>2, BrokenKeeps DEF Break, Reasons
  <1>3. CASE /\ UNCHANGED broken
             /\ calls' = [i \in 1..Len(SegPlanes) |-> SetSurface(SegPlanes[i], SegPlanes[i])]
                         \o <<SetFocus>>
    <2>1. PICK planes : planes = [i \in 1..Len(SegPlanes) |->
                                    SetSurface(SegPlanes[i], SegPlanes[i])]
      OBVIOUS
    <2>2. PICK last : last = <<SetFocus>>
      OBVIOUS
    <2>3. Len(SegPlanes) \in Nat
      BY ViewsAssumption
    <2>4. IsSeq(planes) /\ Len(planes) = Len(SegPlanes)
      BY <2>1, <2>3, OnesSeq
    <2>5. IsSeq(last) /\ Len(last) = 1 /\ last[1] = SetFocus
      BY <2>2, ShortSeq
    <2>6. calls' = planes \o last
      BY <1>3, <2>1, <2>2
    <2>7. IsJoin(calls', planes, last)
      BY <2>4, <2>5, <2>6, Joined
    <2>8. /\ \A j \in 1..Len(planes) : Plain(planes[j])
          /\ \A j \in 1..Len(last) : Plain(last[j])
      BY <2>1, <2>4, <2>5, PlainCalls
    <2>9. Fresh(calls')
      BY <2>7, <2>8 DEF Fresh, IsJoin
    <2>10. vpkg' \in Packages \cup {None}
      BY <1>1 DEF ViewsInv
    <2> QED
      BY <1>1, <1>3, <2>9, <2>10, FreshKeeps
  <1> QED
    BY <1>2, <1>3 DEF ClickSegmentation

\* Scrolling and shifting leave the image to renderVisible.
LEMMA ScrollKeeps ==
  ASSUME ViewsInv, NEW v \in ViewSet, NEW x, Scroll(v, x)
  PROVE  ViewsInv'
  <1>0. PICK w : w = [view[v] EXCEPT !.bar = x]
    OBVIOUS
  <1>1. calls = <<>> /\ broken = None /\ UNCHANGED <<vpkg, broken>>
        /\ calls' = <<Render(v, FALSE), ScrollContentsBy(v)>>
    BY DEF Scroll, ScrollCalls, Input, window
  <1>2. view' = [view EXCEPT ![v] = w]
    BY <1>0 DEF Scroll, ViewsInv, ViewTypes
  <1>3. IsView(w) /\ SamePicture(view[v], w)
    <2>1. PICK old : old = view[v]
      OBVIOUS
    <2>2. IsView(old) /\ w = [old EXCEPT !.bar = x]
      BY <1>0, <2>1 DEF ViewsInv, ViewTypes
    <2>3. IsView(w) /\ SamePicture(old, w)
      BY <2>2 DEF IsView, SamePicture
    <2> QED
      BY <2>1, <2>3
  <1>4. v \in Planes => HalfOrLess(w) /\ Drawn(w)
    BY <1>1, <1>3, RestDrawn, SamePictureDrawn
  <1>5. Fresh(calls')
    BY <1>1, PlainCalls, FreshShort
  <1> QED
    BY <1>1, <1>2, <1>3, <1>4, <1>5, OneViewKeeps

LEMMA ShiftKeeps ==
  ASSUME ViewsInv, NEW v \in ViewSet, NEW z, Shift(v, z)
  PROVE  ViewsInv'
  <1>0. PICK w : w = [view[v] EXCEPT !.zoff = z, !.lines = NoLines]
    OBVIOUS
  <1>1. calls = <<>> /\ broken = None /\ UNCHANGED <<vpkg, broken>>
        /\ calls' = <<Render(v, TRUE), Redraw(v, None)>>
    BY DEF Shift, Input, window
  <1>2. view' = [view EXCEPT ![v] = w]
    BY <1>0 DEF Shift, ViewsInv, ViewTypes
  <1>3. IsView(w) /\ SamePicture(view[v], w)
    <2>1. PICK old : old = view[v]
      OBVIOUS
    <2>2. IsView(old) /\ w = [old EXCEPT !.zoff = z, !.lines = NoLines]
      BY <1>0, <2>1 DEF ViewsInv, ViewTypes
    <2>3. IsView(w) /\ SamePicture(old, w)
      BY <2>2 DEF IsView, SamePicture
    <2> QED
      BY <2>1, <2>3
  <1>4. v \in Planes => HalfOrLess(w) /\ Drawn(w)
    BY <1>1, <1>3, RestDrawn, SamePictureDrawn
  <1>5. Fresh(calls')
    BY <1>1, PlainCalls, FreshShort
  <1> QED
    BY <1>1, <1>2, <1>3, <1>4, <1>5, OneViewKeeps

\* Zooming chooses a level of the volume shown, or one that fits no less.
LEMMA ZoomKeeps ==
  ASSUME ViewsInv, NEW v \in ViewSet, NEW z \in 0..MaxZoom, Zoom(v, z)
  PROVE  ViewsInv'
  <1>0. PICK w : w = [view[v] EXCEPT !.zoom = z, !.level = LevelOf(v, z),
                                     !.area = None, !.lines = NoLines]
    OBVIOUS
  <1>1. calls = <<>> /\ broken = None /\ UNCHANGED vpkg /\ view[v].surf # None
    BY DEF Zoom, Input, window
  <1>2. CASE view[v].vol = None
    <2>1. UNCHANGED view /\ calls' = <<>> /\ broken' \in Reasons
      BY <1>2 DEF Zoom, Break, Reasons
    <2> QED
      BY <1>1, <2>1, BrokenKeeps
  <1>3. CASE view[v].vol # None
    <2>1. UNCHANGED broken /\ calls' = <<Render(v, FALSE), Redraw(v, None)>>
      BY <1>3 DEF Zoom
    <2>2. view' = [view EXCEPT ![v] = w]
      BY <1>0, <1>3 DEF Zoom, ViewsInv, ViewTypes
    <2>3. IsView(view[v]) /\ view[v].vol \in Volumes
      BY <1>3 DEF ViewsInv, ViewTypes, IsView
    <2>4. PICK l : l = LevelOf(v, z)
      OBVIOUS
    <2>5. Scales[view[v].vol] \in Nat /\ z \in Int
      BY <2>3, ViewsAssumption, BoundsAssumption
    <2>6. l \in Int
      BY <2>4, <2>5 DEF LevelOf
    <2>7. /\ IsView(w) /\ w.surf = view[v].surf /\ w.vol = view[v].vol
          /\ w.level = l /\ w.image = view[v].image
      <3>1. PICK old : old = view[v]
        OBVIOUS
      <3>2. IsView(old) /\ w = [old EXCEPT !.zoom = z, !.level = l,
                                           !.area = None, !.lines = NoLines]
        BY <1>0, <2>3, <2>4, <3>1
      <3>3. /\ IsView(w) /\ w.surf = old.surf /\ w.vol = old.vol
            /\ w.level = l /\ w.image = old.image
        BY <2>6, <3>2 DEF IsView
      <3> QED
        BY <3>1, <3>3
    <2>8. ASSUME v \in Planes PROVE HalfOrLess(w) /\ Drawn(w)
      <3> DEFINE top == Scales[view[v].vol]
      <3>1. l = IF z <= 1 THEN 1 ELSE IF z > top - 1 THEN top - 1 ELSE z
        BY <2>4, <2>8 DEF LevelOf, Planes
      <3>2. HalfOrLess(view[v]) /\ Drawn(view[v])
        BY <1>1, <2>8, RestDrawn
      <3>3. top \in Nat /\ z \in Int
        BY <2>5
      <3>4. CASE top > 0
        <4>1. LevelFits(view[v]) /\ view[v].image.vol = view[v].vol
          BY <1>1, <1>3, <3>2, <3>4 DEF Drawn, CanDraw
        <4>2. top > 1
          BY <4>1 DEF LevelFits
        <4> HIDE DEF top
        <4>3. l # 0 /\ l < top
          BY <3>1, <3>3, <4>2
        <4>4. LevelFits(w) /\ w.image.vol = w.vol
          BY <2>7, <4>1, <4>3 DEF LevelFits, top
        <4> QED
          BY <2>7, <4>3, <4>4 DEF HalfOrLess, Drawn
      <3>5. CASE ~(top > 0)
        <4>1. ~CanDraw(w)
          BY <2>7, <3>5 DEF CanDraw
        <4> HIDE DEF top
        <4>2. l \in {-1, 1}
          BY <3>1, <3>3, <3>5
        <4>3. LevelFits(view[v]) => LevelFits(w)
          <5>1. SUFFICES ASSUME LevelFits(view[v]) PROVE LevelFits(w)
            OBVIOUS
          <5>2. Scales[view[v].image.vol] \in Nat /\ Scales[view[v].image.vol] > 1
            BY <5>1, ViewsAssumption DEF LevelFits
          <5>3. l < Scales[view[v].image.vol]
            BY <4>2, <5>2
          <5> QED
            BY <2>7, <5>1, <5>3 DEF LevelFits
        <4> QED
          BY <2>7, <3>2, <4>1, <4>2, <4>3 DEF HalfOrLess, Drawn
      <3> QED
        BY <3>4, <3>5
    <2>9. Fresh(calls')
      BY <2>1, PlainCalls, FreshShort
    <2> QED
      BY <1>1, <2>1, <2>2, <2>7, <2>8, <2>9, OneViewKeeps
  <1> QED
    BY <1>2, <1>3

-----------------------------------------------------------------------------
(***************************************************************************)
(* The theorems.                                                           *)
(***************************************************************************)
LEMMA InitViewsInv == Init => ViewsInv
  <1> SUFFICES ASSUME Init PROVE ViewsInv
    OBVIOUS
  <1>1. ViewTypes
    <2>1. DOMAIN view = ViewSet
      BY DEF Init
    <2>2. ASSUME NEW v \in ViewSet PROVE IsView(view[v])
      <3>1. PICK w : w = view[v]
        OBVIOUS
      <3>2. w = [surf |-> surfs[v], vol |-> None, zoom |-> 1, level |-> 1,
                 zoff |-> 0, place |-> 0, bar |-> 0, from |-> 0,
                 area |-> None, image |-> None, lines |-> NoLines,
                 ignoring |-> FALSE]
        BY <3>1 DEF Init
      <3>3. IsView(w)
        BY <3>2 DEF IsView
      <3> QED
        BY <3>1, <3>3
    <2> QED
      BY <2>1, <2>2 DEF ViewTypes
  <1>2. vpkg \in Packages \cup {None}
    BY DEF Init
  <1>3. Fresh(calls)
    <2>1. CASE vpkg = None
      BY <2>1, FreshShort DEF Init
    <2>2. CASE vpkg # None
      <3>1. vpkg \in Seq(Volumes) /\ vpkg # <<>>
        BY <1>2, <2>2, ViewsAssumption
      <3>2. vpkg[1] \in Volumes
        BY <3>1
      <3>3. calls = <<SetVolume(vpkg[1]), SetVolume(vpkg[1]), ClearTree>>
        BY <2>2 DEF Init, OpenCalls
      <3> QED
        BY <3>2, <3>3, PlainCalls, FreshShort
    <2> QED
      BY <2>1, <2>2
  <1>4. QueueOK(calls) /\ Nested(calls, view)
    BY <1>3, FreshOK
  <1>5. DrawnInv
    BY DEF Init, DrawnInv, HalfOrLess, Drawn, CanDraw, Planes
  <1> QED
    BY <1>1, <1>2, <1>4, <1>5 DEF ViewsInv

LEMMA HandleViewsInv == ViewsInv /\ Handle => ViewsInv'
  BY SetSurfaceKeeps, OwnSurfaceKeeps, OtherSurfaceKeeps, RedrawKeeps,
     SkipRenderKeeps, RenderPlaneKeeps, RenderSegmentationKeeps, ShowKeeps,
     SetIntersectionKeeps, IgnoreKeeps, IntersectionKeeps, ListenKeeps,
     ScrollContentsKeeps, SetPOIKeeps, FocusKeeps, MovePlaneKeeps, SetVolumeKeeps, VolumeKeeps,
     ClearTreeKeeps, ChainSelectedKeeps
  DEF Handle

LEMMA UserViewsInv == ViewsInv /\ User => ViewsInv'
  <1> SUFFICES ASSUME ViewsInv, User PROVE ViewsInv'
    OBVIOUS
  <1>1. CASE \E p \in Packages \cup {None} : Open(p)
    BY <1>1, OpenKeeps
  <1>2. CASE \E x \in 1..Cardinality(Volumes) : SelectVolume(x)
    BY <1>2, SelectVolumeKeeps
  <1>3. CASE \E p \in Paths : SelectSurface(p)
    BY <1>3, SelectSurfaceKeeps
  <1>4. CASE \/ \E i \in 0..MaxOps : SelectOp(i)
             \/ AppendOp \/ ToggleOp
             \/ \E m \in Modes : ChangeSource(m)
    BY <1>4, ChainActionsKeep
  <1>5. CASE \E n \in Normals : ChangeNormal(n)
    BY <1>5, ChangeNormalKeeps
  <1>6. ASSUME NEW v \in ViewSet,
               \/ \E x \in Centres : Scroll(v, x)
               \/ \E z \in 0..MaxOffset : Shift(v, z)
               \/ \E z \in 0..MaxZoom : Zoom(v, z)
               \/ \E p \in Points : ClickPlane(v, p)
        PROVE  ViewsInv'
    BY <1>6, ScrollKeeps, ShiftKeeps, ZoomKeeps, ClickPlaneKeeps
  <1>7. CASE \E p \in Points : ClickSegmentation(p)
    BY <1>7, ClickSegmentationKeeps
  <1> QED
    BY <1>1, <1>2, <1>3, <1>4, <1>5, <1>6, <1>7 DEF User

LEMMA NextViewsInv == ViewsInv /\ [Next]_vars => ViewsInv'
  <1>1. ViewsInv /\ UNCHANGED vars => ViewsInv'
    BY SameKeeps DEF vars, window
  <1> QED
    BY <1>1, HandleViewsInv, UserViewsInv DEF Next

\* The calls left to run are nested, and the images are of the volumes set or next
\* to be drawn, in every reachable state.
THEOREM ViewsInvariant == Spec => []ViewsInv
  BY InitViewsInv, NextViewsInv, PTL DEF Spec

\* Signals do not feed themselves, for any number of viewers: while the lines or the
\* crop a viewer publishes are still being heard, it does not publish again.
THEOREM PublishingDoesNotRecur == Spec => []NoSignalFeedsItself
  <1>1. ViewsInv => NoSignalFeedsItself
    <2> SUFFICES ASSUME ViewsInv, NEW i \in DOMAIN calls, NEW j \in DOMAIN calls,
                        calls[i].call \in {"shown", "listen"},
                        calls[j].call = calls[i].call, calls[j].view = calls[i].view
                 PROVE  i = j
      BY DEF NoSignalFeedsItself
    <2>1. i \in 1..Len(calls) /\ j \in 1..Len(calls) /\ Len(calls) \in Nat
      BY DEF ViewsInv, QueueOK, IsSeq
    <2>2. ASSUME NEW k \in 1..Len(calls), NEW l \in 1..(k - 1), l \in 1..Len(calls),
                 calls[k].call \in {"shown", "listen"},
                 calls[l].call = calls[k].call, calls[l].view = calls[k].view
          PROVE  FALSE
      <3>1. CASE calls[k].call = "shown"
        <4>1. OnCrop(calls[l])
          BY <2>2, <3>1 DEF ViewsInv, Nested
        <4> QED
          BY <2>2, <3>1, <4>1 DEF OnCrop, OnLines
      <3>2. CASE calls[k].call = "listen"
        <4>1. ~ListensTo(calls[l], calls[k].view)
          BY <2>2, <3>2 DEF ViewsInv, Nested
        <4> QED
          BY <2>2, <3>2, <4>1 DEF ListensTo
      <3> QED
        BY <2>2, <3>1, <3>2
    <2>3. i < j => i \in 1..(j - 1)
      BY <2>1
    <2>4. j < i => j \in 1..(i - 1)
      BY <2>1
    <2>5. ~(i < j)
      BY <2>1, <2>2, <2>3
    <2>6. ~(j < i)
      BY <2>1, <2>2, <2>4
    <2> QED
      BY <2>1, <2>5, <2>6
  <1> QED
    BY <1>1, ViewsInvariant, PTL

\* A program that went down does nothing more.
DownStops == broken # None => calls = <<>>

\* Who makes the program go down, and why.
LEMMA WhoBreaks ==
  ASSUME DownStops, Next
  PROVE  /\ broken = None
         /\ \/ broken' = None
            \/ calls' = <<>> /\ (broken' = "level" => RenderPlane)
  <1>1. CASE Handle
    <2>1. calls # <<>>
      BY <1>1 DEF Handle, Running, DoSetSurface, OwnSurfaceChanged,
         OtherSurfaceChanged, DoRedraw, SkipRender, RenderPlane,
         RenderSegmentation, DoShow, DoSetIntersection, IgnoreIntersection,
         DoIntersectionChanged, DoListen, DoScrollContentsBy, DoSetPOI, DoFocusChanged, DoMovePlane,
         DoSetVolume, DoVolumeChanged, DoClearTree, DoChainSelected
    <2>2. broken = None
      BY <2>1 DEF DownStops
    <2>3. CASE RenderPlane
      BY <2>2, <2>3 DEF RenderPlane, Break
    <2>4. CASE DoClearTree
      BY <2>2, <2>4 DEF DoClearTree, Break
    <2>5. CASE ~RenderPlane /\ ~DoClearTree
      <3>1. UNCHANGED broken
        BY <1>1, <2>5 DEF Handle, DoSetSurface, OwnSurfaceChanged,
           OtherSurfaceChanged, DoRedraw, SkipRender,
           RenderSegmentation, DoShow, DoSetIntersection, IgnoreIntersection,
           DoIntersectionChanged, DoListen, DoScrollContentsBy, DoSetPOI, DoFocusChanged, DoMovePlane,
           DoSetVolume, DoVolumeChanged, DoChainSelected
      <3> QED
        BY <2>2, <3>1
    <2> QED
      BY <2>2, <2>3, <2>4, <2>5
  <1>2. CASE User
    <2>1. broken = None
      BY <1>2 DEF User, Input, Open, SelectVolume, SelectSurface, SelectOp, AppendOp,
         ToggleOp, ChangeSource, ChangeNormal, Scroll, Shift, Zoom, ClickPlane,
         ClickSegmentation
    <2>2. \/ UNCHANGED broken
          \/ \E why \in {"dataset", "chain", "volume", "crop", "file"} : Break(why)
      BY <1>2 DEF User, Open, SelectVolume, SelectSurface, SelectOp, AppendOp,
         ToggleOp, ChangeSource, ChangeNormal, Scroll, Shift, Zoom, ClickPlane,
         ClickSegmentation
    <2> QED
      BY <2>1, <2>2 DEF Break
  <1> QED
    BY <1>1, <1>2 DEF Next

LEMMA DownStopsAlways == Spec => []DownStops
  <1>1. Init => DownStops
    BY DEF Init, DownStops
  <1>2. DownStops /\ [Next]_vars => DownStops'
    <2>1. DownStops /\ UNCHANGED vars => DownStops'
      BY DEF DownStops, vars
    <2>2. DownStops /\ Next => DownStops'
      BY WhoBreaks DEF DownStops
    <2> QED
      BY <2>1, <2>2
  <1> QED
    BY <1>1, <1>2, PTL DEF Spec

\* A level the volume does not have is only ever asked for by the first image of a
\* volume, or it is the negative level of a zoom while there were no zarr data.
THEOREM ZoomFindsLevels == Spec => OnlyNewVolumesLackLevels
  <1>1. ASSUME ViewsInv, DownStops, Next, broken' = "level"
        PROVE  LET w == view[Head(calls).view] IN
               w.image = None \/ w.image.vol # w.vol \/ w.level < 0
    <2>1. "level" # None
      BY ReasonsAreSome DEF Reasons
    <2>2. RenderPlane
      BY <1>1, <2>1, WhoBreaks
    <2>3. broken' # broken
      BY <1>1, <2>1, WhoBreaks
    <2>4. PICK v : v = Head(calls).view
      OBVIOUS
    <2>5. PICK w : w = [view[v] EXCEPT !.area = view[v].place]
      OBVIOUS
    <2>6. calls # <<>> /\ v # Segmentation /\ CanDraw(view[v]) /\ ~HasLevel(w)
          /\ Head(calls).call = "renderVisible"
      BY <2>2, <2>3, <2>4, <2>5 DEF RenderPlane, Renders, Running
    <2>7. v \in ViewSet /\ v \in Planes
      BY <1>1, <2>4, <2>6, FirstCall DEF ViewsInv, CallOK, Planes
    <2>8. HalfOrLess(view[v]) /\ IsView(view[v])
      BY <1>1, <2>7 DEF ViewsInv, DrawnInv, ViewTypes
    <2>9. w.vol = view[v].vol /\ w.level = view[v].level
      <3>1. PICK old : old = view[v]
        OBVIOUS
      <3>2. IsView(old) /\ w = [old EXCEPT !.area = old.place]
        BY <2>5, <2>8, <3>1
      <3> QED
        BY <3>1, <3>2, AreaGiven
    <2>10. view[v].vol \in Volumes
      BY <2>6, <2>8 DEF IsView, CanDraw
    <2>11. view[v].level \in Int /\ Scales[view[v].vol] \in Nat
      BY <2>8, <2>10, ViewsAssumption DEF IsView
    <2>12. view[v].level < 0 \/ view[v].level >= Scales[view[v].vol]
      BY <2>6, <2>9, <2>11 DEF HasLevel
    <2>13. view[v].image = None \/ view[v].image.vol # view[v].vol \/ view[v].level < 0
      BY <2>8, <2>11, <2>12 DEF HalfOrLess, LevelFits
    <2> QED
      BY <2>4, <2>13
  <1>2. ViewsInv /\ DownStops /\ [Next]_vars =>
          [broken' = "level" =>
              LET w == view[Head(calls).view] IN
              w.image = None \/ w.image.vol # w.vol \/ w.level < 0]_vars
    BY <1>1
  <1> QED
    BY <1>2, ViewsInvariant, DownStopsAlways, PTL DEF Spec, OnlyNewVolumesLackLevels

-----------------------------------------------------------------------------
(***************************************************************************)
(* What is shown: the invariant behind the images and the lines.           *)
(***************************************************************************)
\* The calls that are left to run, whatever their order, and those after the first.
Pending(q) == {q[i] : i \in 1..Len(q)}
Later(q) == {q[i] : i \in 2..Len(q)}
Todo == Pending(calls)

\* Calls after which a view is drawn anew, whatever area its image covers.
Stirs(c, v) ==
    \/ c.call = "setVolume"
    \/ c.call = "OnVolumeChanged" /\ c.view = v
    \/ c.call = "setSurface" /\ c.name = v
    \/ c.call = "onSurfaceChanged" /\ c.view = v /\ c.name = v
    \/ c.call = "renderVisible" /\ c.view = v /\ c.force

Forced(v) == \E c \in Todo : Stirs(c, v)
WillRender(v) == \E c \in Todo : c.call = "renderVisible" /\ c.view = v
WillShow == \E c \in Todo : c.call = "shown"

\* The image of a view as ImagesAreCurrent has it.
IsCurrent(v, w) ==
    w.image = IF v # Segmentation THEN Slice(v, w)
              ELSE [sheet |-> Sheet(w.surf, ptr, w.zoff), vol |-> w.vol, level |-> w.level]

\* Where a view is, and where its scroll bar has it.
Placed(w) == {w.place, w.bar} \subseteq Centres \cup {0}
SamePlace(w, x) == x.place = w.place /\ x.bar = w.bar /\ x.from = w.from
USE DEF Placed, SamePlace

\* An image reaches over what is visible, or did before the last scroll, which is over.
Reached(w) == Covered(w) \/ (w.bar = w.place /\ Covers(w, w.from))

\* A view that can be drawn is as it should be, or will be drawn.
Looks(v) ==
    LET w == view[v] IN
    CanDraw(w) =>
        \/ Forced(v)
        \/ /\ Reached(w) \/ WillRender(v)
           /\ w.area # None => IsCurrent(v, w) \/ (v = Segmentation /\ WillShow)

\* A view has the current volume, or will hear of one.
Renews(c, v) == c.call = "setVolume" \/ (c.call = "OnVolumeChanged" /\ c.view = v)
HasCurrent(v) ==
    current # None => view[v].vol = current \/ \E c \in Todo : Renews(c, v)

\* No volume is set before the viewers have heard of the last one, and what is to
\* be shown is the sheet as it is.
VolumesInTurn(q) ==
    \A i \in 1..Len(q) :
        q[i].call = "OnVolumeChanged" => \A j \in 1..(i - 1) : q[j].call # "setVolume"
HearsCurrent(c) == c.call = "OnVolumeChanged" => c.vol = current
ShowsSheet(c) ==
    c.call = "shown" =>
        c.sheet = Sheet(view[Segmentation].surf, ptr, view[Segmentation].zoff)

ImagesInv ==
    /\ DOMAIN plane = Planes
    /\ \A v \in ViewSet : Placed(view[v])
    /\ VolumesInTurn(calls)
    /\ \A c \in Todo : HearsCurrent(c) /\ ShowsSheet(c)
    /\ \A v \in ViewSet : HasCurrent(v) /\ Looks(v)

\* Lines are published, and the crop set, before anything else runs.
AtHead(c) == c.call = "setIntersection" \/ (c.call = "setSurface" /\ c.name = Crop)
HeadsOnly(q) == \A i \in 2..Len(q) : ~AtHead(q[i])

Hears(c, v, name) == c.call = "onSurfaceChanged" /\ c.view = v /\ c.name = name

\* A plane's lines are those of the crop, or the view will hear of its plane or of
\* the crop; they are published, or the next to be.
Publishes(c, v) == c.call = "setIntersection" /\ c.view = v
PlaneLines(v) ==
    LET w == view[v] IN
    /\ DOMAIN w.lines \subseteq {Crop}
    /\ CanDraw(w) /\ w.zoff = 0 /\ surfs[Crop] # None /\ w.area # None =>
           \/ w.lines = [k \in {Crop} |-> Traced(v, w)]
           \/ \E c \in Todo : Stirs(c, v) \/ Hears(c, v, Crop)
    /\ Crop \in DOMAIN w.lines =>
           inters[v] = w.lines[Crop] \/ \E c \in Todo : Publishes(c, v)

\* The segmentation's lines are those of the collection, on the crop, or the view
\* will hear of them; it has them all, or will draw its lines.
HearsLines(c, k) == c.call = "onIntersectionChanged" /\ c.view = Segmentation /\ c.by = k
Redraws(c) ==
    \/ c.call = "shown"
    \/ c.call = "redraw" /\ c.view = Segmentation
    \/ Hears(c, Segmentation, Crop)
    \/ Stirs(c, Segmentation)
OnCropLine(k) == [lines |-> inters[k], sheet |-> surfs[Crop], at |-> vis]
SegmentationLines ==
    LET w == view[Segmentation] IN
    /\ DOMAIN w.lines \subseteq SegPlaneSet
    /\ \A k \in DOMAIN w.lines :
           \/ inters[k] # None /\ w.lines[k] = OnCropLine(k)
           \/ \E c \in Todo : HearsLines(c, k)
    /\ CanDraw(w) /\ w.zoff = 0 /\ surfs[Crop] # None =>
           \A k \in SegPlaneSet \ DOMAIN w.lines :
               inters[k] # None => \E c \in Todo : Redraws(c) \/ HearsLines(c, k)

\* A call for a plane is one for a plane, lines to be published are drawn, and
\* there are none in the segmentation while its crop is to be set.
LineCall(c) ==
    /\ c.call \in {"movePlane", "setIntersection"} => c.view \in Planes
    /\ c.call = "onIntersectionChanged" => c.by \in Planes
    /\ c.call = "setIntersection" =>
           Crop \in DOMAIN view[c.view].lines /\ c.lines = view[c.view].lines[Crop]
    /\ c.call = "setSurface" /\ c.name = Crop => DOMAIN view[Segmentation].lines = {}

IsFcn(l) == l = [k \in DOMAIN l |-> l[k]]

LinesInv ==
    /\ DOMAIN inters = Planes /\ DOMAIN surfs = ViewSet \cup {Crop}
    /\ \A v \in ViewSet : IsFcn(view[v].lines)
    /\ HeadsOnly(calls)
    /\ \A c \in Todo : LineCall(c)
    /\ \A v \in Planes : PlaneLines(v)
    /\ SegmentationLines

\* While the program is up, what is shown is current, or what makes it so is left
\* to run.
ShownInv == broken = None => ImagesInv /\ LinesInv
-----------------------------------------------------------------------------
(***************************************************************************)
(* What is left to run, as a set.                                          *)
(***************************************************************************)
\* Calls t take the place of the first.
Follows(t) ==
    /\ Todo = {calls[1]} \cup Later(calls)
    /\ Todo' = t \cup Later(calls)

\* The lists of calls that handlers begin with.
LEMMA PendingShort ==
  ASSUME NEW a, NEW b, NEW c
  PROVE  /\ Pending(<<>>) = {} /\ Pending(<<a>>) = {a} /\ Pending(<<a, b>>) = {a, b}
         /\ Pending(<<a, b, c>>) = {a, b, c}
         /\ HeadsOnly(<<>>) /\ HeadsOnly(<<a>>)
         /\ ~AtHead(b) => HeadsOnly(<<a, b>>)
  <1>1. PICK q : q = <<a, b, c>>
    OBVIOUS
  <1>2. Len(q) = 3 /\ q[1] = a /\ q[2] = b /\ q[3] = c
    BY <1>1
  <1>3. 1..3 = {1, 2, 3} /\ 1..2 = {1, 2} /\ 2..2 = {2}
    OBVIOUS
  <1>4. Pending(q) = {a, b, c}
    BY <1>2, <1>3 DEF Pending
  <1>5. PICK r : r = <<a, b>>
    OBVIOUS
  <1>6. Len(r) = 2 /\ r[1] = a /\ r[2] = b
    BY <1>5
  <1>7. Pending(r) = {a, b} /\ (~AtHead(b) => HeadsOnly(r))
    BY <1>3, <1>6 DEF Pending, HeadsOnly
  <1>8. PICK p : p = <<a>>
    OBVIOUS
  <1>9. Len(p) = 1 /\ p[1] = a
    BY <1>8
  <1>10. Pending(p) = {a} /\ HeadsOnly(p)
    BY <1>9 DEF Pending, HeadsOnly
  <1>11. PICK n : n = <<>>
    OBVIOUS
  <1>12. Len(n) = 0
    BY <1>11
  <1>13. Pending(n) = {} /\ HeadsOnly(n)
    BY <1>12 DEF Pending, HeadsOnly
  <1> QED
    BY <1>1, <1>4, <1>5, <1>7, <1>8, <1>10, <1>11, <1>13

\* Three calls, whichever they are.
LEMMA PendingThree == \A x, y, z : Pending(<<x, y, z>>) = {x, y, z}
  <1> SUFFICES ASSUME NEW x, NEW y, NEW z PROVE Pending(<<x, y, z>>) = {x, y, z}
    OBVIOUS
  <1>1. PICK q : q = <<x, y, z>>
    OBVIOUS
  <1>2. Len(q) = 3 /\ q[1] = x /\ q[2] = y /\ q[3] = z
    BY <1>1
  <1>3. 1..3 = {1, 2, 3}
    OBVIOUS
  <1>4. Pending(q) = {x, y, z}
    BY <1>2, <1>3 DEF Pending
  <1> QED
    BY <1>1, <1>4

\* A call for every viewer.
LEMMA PendingAll ==
  ASSUME NEW f, NEW q, q = [i \in 1..Len(Views) |-> f[Views[i]]]
  PROVE  IsSeq(q) /\ Pending(q) = {f[v] : v \in ViewSet}
  <1>1. Len(Views) \in Nat /\ IsSeq(q) /\ Len(q) = Len(Views)
    BY ViewsSeq, OnesSeq
  <1>2. Pending(q) = {f[Views[i]] : i \in 1..Len(Views)}
    BY <1>1 DEF Pending
  <1> QED
    BY <1>1, <1>2 DEF ViewSet

\* What a handler leaves to run: the calls it begins with, and the later ones.
LEMMA Handed ==
  ASSUME ViewsInv, calls # <<>>, NEW todo, IsSeq(todo), calls' = todo \o Tail(calls)
  PROVE  Follows(Pending(todo))
  <1>1. IsPushed(calls', todo, calls) /\ Len(calls) > 0
    BY Pushed, FirstCall DEF ViewsInv, QueueOK
  <1>2. PICK q, r, m, n : q = calls /\ r = calls' /\ m = Len(todo) /\ n = Len(calls)
    OBVIOUS
  <1>3. /\ m \in Nat /\ n \in Nat /\ n > 0 /\ Len(r) = m + n - 1 /\ Len(q) = n
        /\ \A i \in 1..m : r[i] = todo[i]
        /\ \A i \in 1..(m + n - 1) : i > m => i - m + 1 \in 2..n /\ r[i] = q[i - m + 1]
    BY <1>1, <1>2 DEF IsPushed
  <1>4. Pending(q) = {q[1]} \cup Later(q)
    <2>1. 1..n = {1} \cup 2..n
      BY <1>3
    <2> QED
      BY <1>3, <2>1 DEF Pending, Later
  <1>5. ASSUME NEW c \in Pending(r) PROVE c \in Pending(todo) \cup Later(q)
    <2>1. PICK i \in 1..(m + n - 1) : c = r[i]
      BY <1>3, <1>5 DEF Pending
    <2>2. CASE i \in 1..m
      BY <1>2, <1>3, <2>1, <2>2 DEF Pending
    <2>3. CASE i \notin 1..m
      <3>1. i - m + 1 \in 2..n /\ r[i] = q[i - m + 1]
        BY <1>3, <2>1, <2>3
      <3> QED
        BY <1>3, <2>1, <3>1 DEF Later
    <2> QED
      BY <2>2, <2>3
  <1>6. ASSUME NEW c \in Pending(todo) PROVE c \in Pending(r)
    <2>1. PICK i \in 1..m : c = todo[i]
      BY <1>2, <1>6 DEF Pending
    <2>2. i \in 1..(m + n - 1) /\ r[i] = c
      BY <1>3, <2>1
    <2> QED
      BY <1>3, <2>2 DEF Pending
  <1>7. ASSUME NEW c \in Later(q) PROVE c \in Pending(r)
    <2>1. PICK i \in 2..n : c = q[i]
      BY <1>3, <1>7 DEF Later
    <2>2. i + m - 1 \in 1..(m + n - 1) /\ i + m - 1 > m /\ (i + m - 1) - m + 1 = i
      BY <1>3, <2>1
    <2>3. r[i + m - 1] = c
      BY <1>3, <2>1, <2>2
    <2> QED
      BY <1>3, <2>2, <2>3 DEF Pending
  <1>8. Pending(r) = Pending(todo) \cup Later(q)
    BY <1>5, <1>6, <1>7
  <1> QED
    BY <1>2, <1>4, <1>8 DEF Follows, Todo

\* No handler but setVolume's tells the viewers of a volume.
LEMMA TurnsKept ==
  ASSUME ViewsInv, calls # <<>>, NEW todo, IsSeq(todo), calls' = todo \o Tail(calls),
         VolumesInTurn(calls), \A c \in Pending(todo) : c.call # "setVolume"
  PROVE  VolumesInTurn(calls')
  <1>1. IsPushed(calls', todo, calls)
    BY Pushed DEF ViewsInv, QueueOK
  <1>2. PICK q, r, m, n : q = calls /\ r = calls' /\ m = Len(todo) /\ n = Len(calls)
    OBVIOUS
  <1>3. /\ m \in Nat /\ n \in Nat /\ Len(r) = m + n - 1 /\ Len(q) = n
        /\ \A i \in 1..m : r[i] = todo[i]
        /\ \A i \in 1..(m + n - 1) : i > m => i - m + 1 \in 2..n /\ r[i] = q[i - m + 1]
    BY <1>1, <1>2 DEF IsPushed
  <1>4. \A i \in 1..m : r[i].call # "setVolume"
    BY <1>2, <1>3 DEF Pending
  <1>5. ASSUME NEW i \in 1..(m + n - 1), r[i].call = "OnVolumeChanged", NEW j \in 1..(i - 1)
        PROVE  r[j].call # "setVolume"
    <2>1. CASE j \in 1..m
      BY <1>4, <2>1
    <2>2. CASE j \notin 1..m
      <3>1. j \in 1..(m + n - 1) /\ j > m /\ i > m
        BY <1>3, <2>2
      <3>2. PICK a, b : a = i - m + 1 /\ b = j - m + 1
        OBVIOUS
      <3>3. a \in 1..n /\ b \in 1..(a - 1) /\ r[i] = q[a] /\ r[j] = q[b]
        BY <1>3, <3>1, <3>2
      <3>4. q[a].call = "OnVolumeChanged"
        BY <1>5, <3>3
      <3>5. q[b].call # "setVolume"
        BY <1>2, <1>3, <3>3, <3>4 DEF VolumesInTurn
      <3> QED
        BY <3>3, <3>5
    <2> QED
      BY <2>1, <2>2
  <1> QED
    BY <1>2, <1>3, <1>5 DEF VolumesInTurn

\* Lines and the crop are set first.
LEMMA HeadsKept ==
  ASSUME ViewsInv, calls # <<>>, NEW todo, IsSeq(todo), calls' = todo \o Tail(calls),
         HeadsOnly(calls), HeadsOnly(todo)
  PROVE  HeadsOnly(calls')
  <1>1. IsPushed(calls', todo, calls)
    BY Pushed DEF ViewsInv, QueueOK
  <1>2. PICK q, r, m, n : q = calls /\ r = calls' /\ m = Len(todo) /\ n = Len(calls)
    OBVIOUS
  <1>3. /\ m \in Nat /\ n \in Nat /\ Len(r) = m + n - 1 /\ Len(q) = n
        /\ \A i \in 1..m : r[i] = todo[i]
        /\ \A i \in 1..(m + n - 1) : i > m => i - m + 1 \in 2..n /\ r[i] = q[i - m + 1]
    BY <1>1, <1>2 DEF IsPushed
  <1>4. ASSUME NEW i \in 2..(m + n - 1) PROVE ~AtHead(r[i])
    <2>1. CASE i \in 1..m
      <3>1. i \in 2..m /\ r[i] = todo[i]
        BY <1>3, <2>1
      <3> QED
        BY <1>2, <3>1 DEF HeadsOnly
    <2>2. CASE i \notin 1..m
      <3>1. PICK a : a = i - m + 1
        OBVIOUS
      <3>2. a \in 2..n /\ r[i] = q[a]
        BY <1>3, <2>2, <3>1
      <3> QED
        BY <1>2, <3>2 DEF HeadsOnly
    <2> QED
      BY <2>1, <2>2
  <1> QED
    BY <1>2, <1>3, <1>4 DEF HeadsOnly

\* What is known of the later calls.
LEMMA LaterCalls ==
  ASSUME ViewsInv, calls # <<>>, NEW c \in Later(calls)
  PROVE  /\ c \in Todo
         /\ VolumesInTurn(calls) /\ calls[1].call = "setVolume" => c.call # "OnVolumeChanged"
         /\ ~OnCrop(calls[1]) => c.call # "shown"
         /\ HeadsOnly(calls) => ~AtHead(c)
  <1>1. PICK i \in 2..Len(calls) : c = calls[i]
    BY DEF Later
  <1>2. Len(calls) \in Nat
    BY DEF ViewsInv, QueueOK, IsSeq
  <1>3. i \in 1..Len(calls) /\ 1 \in 1..(i - 1)
    BY <1>1, <1>2
  <1>4. c \in Todo
    BY <1>1, <1>3 DEF Todo, Pending
  <1>5. VolumesInTurn(calls) /\ calls[1].call = "setVolume" => c.call # "OnVolumeChanged"
    BY <1>1, <1>3 DEF VolumesInTurn
  <1>6. ~OnCrop(calls[1]) => c.call # "shown"
    BY <1>1, <1>2, HeadOnly DEF ViewsInv
  <1>7. HeadsOnly(calls) => ~AtHead(c)
    BY <1>1 DEF HeadsOnly
  <1> QED
    BY <1>4, <1>5, <1>6, <1>7

\* The first call is one that is left to run.
LEMMA FirstOfTodo ==
  ASSUME ViewsInv, calls # <<>>
  PROVE  Head(calls) = calls[1] /\ CallOK(calls[1]) /\ calls[1] \in Todo
  <1>1. Head(calls) = calls[1] /\ CallOK(calls[1]) /\ Len(calls) > 0
    BY FirstCall DEF ViewsInv
  <1>2. 1 \in 1..Len(calls)
    BY <1>1 DEF ViewsInv, QueueOK, IsSeq
  <1> QED
    BY <1>1, <1>2 DEF Todo, Pending
-----------------------------------------------------------------------------
(***************************************************************************)
(* What stays as it is.                                                    *)
(***************************************************************************)
\* A view with the same image of the same part of the same surface.
SameLook(w, x) == SamePicture(w, x) /\ x.zoff = w.zoff /\ SamePlace(w, x)

\* What a view shows is made of the same plane, or the same sheet.
SameSource(v) ==
    /\ v # Segmentation => plane'[v] = plane[v]
    /\ v = Segmentation => chains' = chains /\ ptr' = ptr

\* Calls that are about a view's image.
Draws(c, v) ==
    \/ Stirs(c, v)
    \/ c.call = "renderVisible" /\ c.view = v
    \/ v = Segmentation /\ c.call = "shown"

\* A view that will be drawn anew looks as it should.
LEMMA ForcedLooks ==
  ASSUME NEW v, NEW c \in Todo, Stirs(c, v)
  PROVE  Looks(v)
  BY DEF Looks, Forced

\* The sheet of a chain that is not touched.
LEMMA SheetStays ==
  ASSUME chains' = chains, NEW p, NEW at, NEW off
  PROVE  Sheet(p, at, off)' = Sheet(p, at, off)
  BY DEF Sheet

\* A view looks as it should when its data are the same, and no call about it has
\* been dropped.
LEMMA LooksStays ==
  ASSUME NEW v \in ViewSet, Looks(v), SameLook(view[v], view'[v]), SameSource(v),
         \A c \in Todo : Draws(c, v) => c \in Todo'
  PROVE  Looks(v)'
  <1>1. PICK w, x : w = view[v] /\ x = view'[v]
    OBVIOUS
  <1>2. /\ x.surf = w.surf /\ x.vol = w.vol /\ x.level = w.level /\ x.area = w.area
        /\ x.image = w.image /\ x.zoff = w.zoff /\ SamePlace(w, x)
    BY <1>1 DEF SameLook, SamePicture
  <1>3. Forced(v) => Forced(v)'
    BY DEF Forced, Draws
  <1>4. WillRender(v) => WillRender(v)'
    BY DEF WillRender, Draws
  <1>5. v = Segmentation /\ WillShow => WillShow'
    BY DEF WillShow, Draws
  <1>6. CanDraw(x) => CanDraw(w)
    BY <1>2 DEF CanDraw
  <1>7. Reached(w) => Reached(x)
    BY <1>2 DEF Reached, Covered, Covers
  <1>8. IsCurrent(v, w) => IsCurrent(v, x)'
    <2>1. CASE v # Segmentation
      BY <1>1, <1>2, <2>1 DEF IsCurrent, Slice, SameSource
    <2>2. CASE v = Segmentation
      <3>1. Sheet(x.surf, ptr, x.zoff)' = Sheet(w.surf, ptr, w.zoff)
        BY <1>1, <1>2, <2>2, SheetStays DEF SameSource
      <3> QED
        BY <1>1, <1>2, <2>2, <3>1 DEF IsCurrent
    <2> QED
      BY <2>1, <2>2
  <1> QED
    BY <1>1, <1>2, <1>3, <1>4, <1>5, <1>6, <1>7, <1>8 DEF Looks

\* A plane's lines stay when they are of the same plane and crop.
LEMMA PlaneLinesStay ==
  ASSUME NEW v \in Planes, PlaneLines(v), SamePicture(view[v], view'[v]),
         view'[v].zoff = view[v].zoff, view'[v].lines = view[v].lines,
         plane'[v] = plane[v], surfs'[Crop] = surfs[Crop], inters'[v] = inters[v],
         \A c \in Todo : Stirs(c, v) \/ Hears(c, v, Crop) \/ Publishes(c, v) => c \in Todo'
  PROVE  PlaneLines(v)'
  <1>1. PICK w, x : w = view[v] /\ x = view'[v]
    OBVIOUS
  <1>2. /\ x.surf = w.surf /\ x.vol = w.vol /\ x.level = w.level /\ x.area = w.area
        /\ x.zoff = w.zoff /\ x.lines = w.lines
    BY <1>1 DEF SamePicture
  <1>3. CanDraw(x) => CanDraw(w)
    BY <1>2 DEF CanDraw
  <1>4. Traced(v, x)' = Traced(v, w)
    BY <1>1, <1>2 DEF Traced
  <1>5. (\E c \in Todo : Stirs(c, v) \/ Hears(c, v, Crop))
            => \E c \in Todo' : Stirs(c, v) \/ Hears(c, v, Crop)
    OBVIOUS
  <1>6. (\E c \in Todo : Publishes(c, v)) => \E c \in Todo' : Publishes(c, v)
    OBVIOUS
  <1>7. x.lines = [k \in {Crop} |-> Traced(v, w)] => x.lines = [k \in {Crop} |-> Traced(v, x)]'
    BY <1>1, <1>4
  <1> QED
    BY <1>1, <1>2, <1>3, <1>5, <1>6, <1>7 DEF PlaneLines

\* The segmentation's lines stay when the collection's and the crop do.
LEMMA SegmentationLinesStay ==
  ASSUME SegmentationLines,
         LET w == view[Segmentation]
             x == view'[Segmentation] IN
         x.lines = w.lines /\ x.surf = w.surf /\ x.vol = w.vol /\ x.zoff = w.zoff,
         surfs'[Crop] = surfs[Crop], vis' = vis,
         \A k \in SegPlaneSet : inters'[k] = inters[k],
         \A c \in Todo : c \in Todo' \/ ~(Redraws(c) \/ \E k \in SegPlaneSet : HearsLines(c, k))
  PROVE  SegmentationLines'
  <1>1. PICK w, x : w = view[Segmentation] /\ x = view'[Segmentation]
    OBVIOUS
  <1>2. x.surf = w.surf /\ x.vol = w.vol /\ x.zoff = w.zoff /\ x.lines = w.lines
    BY <1>1
  <1>3. CanDraw(x) => CanDraw(w)
    BY <1>2 DEF CanDraw
  <1>4. DOMAIN w.lines \subseteq SegPlaneSet
    BY <1>1 DEF SegmentationLines
  <1>5. \A k \in SegPlaneSet : OnCropLine(k)' = OnCropLine(k)
    BY DEF OnCropLine
  <1>6. ASSUME NEW k \in DOMAIN x.lines
        PROVE  \/ inters'[k] # None /\ x.lines[k] = OnCropLine(k)'
               \/ \E c \in Todo' : HearsLines(c, k)
    <2>1. k \in SegPlaneSet /\ k \in DOMAIN w.lines
      BY <1>2, <1>4, <1>6
    <2>2. \/ inters[k] # None /\ w.lines[k] = OnCropLine(k)
          \/ \E c \in Todo : HearsLines(c, k)
      BY <1>1, <2>1 DEF SegmentationLines
    <2> QED
      BY <1>2, <1>5, <2>1, <2>2
  <1>7. ASSUME CanDraw(x), x.zoff = 0, surfs'[Crop] # None,
               NEW k \in SegPlaneSet \ DOMAIN x.lines, inters'[k] # None
        PROVE  \E c \in Todo' : Redraws(c) \/ HearsLines(c, k)
    <2>1. \E c \in Todo : Redraws(c) \/ HearsLines(c, k)
      BY <1>1, <1>2, <1>3, <1>7 DEF SegmentationLines
    <2> QED
      BY <2>1
  <1> QED
    BY <1>1, <1>2, <1>4, <1>6, <1>7 DEF SegmentationLines

\* The images, after a handler that tells of no volume.
LEMMA ImagesStay ==
  ASSUME ViewsInv, ImagesInv, calls # <<>>,
         NEW todo, IsSeq(todo), calls' = todo \o Tail(calls),
         DOMAIN plane' = Planes, UNCHANGED current,
         calls[1].call \notin {"setVolume", "OnVolumeChanged"},
         \A c \in Pending(todo) :
            c.call \notin {"setVolume", "OnVolumeChanged"} /\ ShowsSheet(c)',
         \/ ~OnCrop(calls[1])
         \/ /\ UNCHANGED <<chains, ptr>>
            /\ view'[Segmentation].surf = view[Segmentation].surf
            /\ view'[Segmentation].zoff = view[Segmentation].zoff,
         \A v \in ViewSet :
            /\ Placed(view'[v]) /\ view'[v].vol = view[v].vol
            /\ Looks(v)'
  PROVE  ImagesInv'
  <1>1. Follows(Pending(todo))
    BY Handed
  <1>2. VolumesInTurn(calls')
    BY TurnsKept DEF ImagesInv
  <1>3. ASSUME NEW c \in Later(calls) PROVE HearsCurrent(c)' /\ ShowsSheet(c)'
    <2>1. c \in Todo /\ (~OnCrop(calls[1]) => c.call # "shown")
      BY LaterCalls
    <2>2. HearsCurrent(c) /\ ShowsSheet(c)
      BY <2>1 DEF ImagesInv
    <2>3. HearsCurrent(c)'
      BY <2>2 DEF HearsCurrent
    <2>4. ASSUME c.call = "shown"
          PROVE  c.sheet = Sheet(view[Segmentation].surf, ptr, view[Segmentation].zoff)'
      <3>1. c.sheet = Sheet(view[Segmentation].surf, ptr, view[Segmentation].zoff)
        BY <2>2, <2>4 DEF ShowsSheet
      <3> QED
        BY <2>1, <2>4, <3>1 DEF Sheet
    <2> QED
      BY <2>3, <2>4 DEF ShowsSheet
  <1>4. \A c \in Pending(todo) : HearsCurrent(c)'
    BY DEF HearsCurrent
  <1>5. ASSUME NEW v \in ViewSet PROVE HasCurrent(v)'
    <2>1. ~Renews(calls[1], v)
      BY DEF Renews
    <2> QED
      BY <1>1, <2>1 DEF ImagesInv, HasCurrent, Follows
  <1> QED
    BY <1>1, <1>2, <1>3, <1>4, <1>5 DEF ImagesInv, Follows

\* The lines, after a handler.
LEMMA LinesStay ==
  ASSUME ViewsInv, LinesInv, calls # <<>>,
         NEW todo, IsSeq(todo), calls' = todo \o Tail(calls),
         DOMAIN inters' = Planes, DOMAIN surfs' = ViewSet \cup {Crop},
         HeadsOnly(todo), \A c \in Pending(todo) : LineCall(c)',
         \A v \in ViewSet : IsFcn(view'[v].lines),
         \A v \in Planes : PlaneLines(v)', SegmentationLines'
  PROVE  LinesInv'
  <1>1. Follows(Pending(todo))
    BY Handed
  <1>2. HeadsOnly(calls')
    BY HeadsKept DEF LinesInv
  <1>3. ASSUME NEW c \in Later(calls) PROVE LineCall(c)'
    <2>1. c \in Todo /\ ~AtHead(c)
      BY LaterCalls DEF LinesInv
    <2>2. LineCall(c)
      BY <2>1 DEF LinesInv
    <2> QED
      BY <2>1, <2>2 DEF LineCall, AtHead
  <1> QED
    BY <1>1, <1>2, <1>3 DEF LinesInv, Follows
-----------------------------------------------------------------------------
(***************************************************************************)
(* What a view that redraws its lines shows.                               *)
(***************************************************************************)
\* A view without the lines of one surface, or without any for its own.
IsDropped(v, w, name, x) ==
    /\ IsView(x) /\ SameLook(w, x)
    /\ DOMAIN x.lines = IF name = v THEN {} ELSE DOMAIN w.lines \ {name}
    /\ \A k \in DOMAIN x.lines : x.lines[k] = w.lines[k]
    /\ name # v /\ name \notin DOMAIN w.lines => x.lines = w.lines

LEMMA DroppedShows ==
  ASSUME NEW v \in ViewSet, NEW w, IsView(w), NEW name, IsFcn(w.lines),
         NEW x, x = Dropped(v, w, name)
  PROVE  IsDropped(v, w, name, x)
  <1>1. PICK l : l = IF name = v THEN NoLines
                     ELSE [k \in DOMAIN w.lines \ {name} |-> w.lines[k]]
    OBVIOUS
  <1>2. x = [w EXCEPT !.lines = l]
    BY <1>1 DEF Dropped
  <1>3. IsView(x) /\ SameLook(w, x) /\ x.lines = l
    BY <1>2 DEF IsView, SameLook, SamePicture
  <1>4. /\ DOMAIN l = IF name = v THEN {} ELSE DOMAIN w.lines \ {name}
        /\ \A k \in DOMAIN l : l[k] = w.lines[k]
    BY <1>1 DEF NoLines
  <1>5. ASSUME name # v, name \notin DOMAIN w.lines PROVE l = w.lines
    <2>1. l = [k \in DOMAIN w.lines |-> w.lines[k]]
      BY <1>1, <1>5
    <2> QED
      BY <2>1 DEF IsFcn
  <1> QED
    BY <1>1, <1>3, <1>4, <1>5 DEF IsDropped

\* A view with its lines drawn: a plane's are those of the crop as it is, the
\* segmentation's those it had and those of the collection.
IsLined(v, w, x) ==
    /\ IsView(x) /\ SameLook(w, x) /\ IsFcn(x.lines)
    /\ Traces(v, w) => x.lines = [k \in {Crop} |-> Traced(v, w)]
    /\ ~Traces(v, w) =>
           /\ DOMAIN x.lines = DOMAIN w.lines \cup Maps(v, w)
           /\ \A k \in DOMAIN w.lines : x.lines[k] = w.lines[k]
           /\ \A k \in Maps(v, w) \ DOMAIN w.lines : x.lines[k] = OnCropLine(k)

LEMMA LinedShows ==
  ASSUME NEW v \in ViewSet, NEW w, IsView(w), NEW x, x = Lined(v, w)
  PROVE  IsLined(v, w, x)
  <1>1. CASE Traces(v, w)
    <2>1. PICK l : l = [k \in {Crop} |-> Traced(v, w)]
      OBVIOUS
    <2>2. x = [w EXCEPT !.lines = l, !.ignoring = TRUE]
      BY <1>1, <2>1 DEF Lined
    <2>3. IsView(x) /\ SameLook(w, x) /\ x.lines = l
      BY <2>2 DEF IsView, SameLook, SamePicture
    <2>4. IsFcn(l)
      BY <2>1 DEF IsFcn
    <2> QED
      BY <1>1, <2>1, <2>3, <2>4 DEF IsLined
  <1>2. CASE ~Traces(v, w)
    <2>1. PICK m : m = Maps(v, w)
      OBVIOUS
    <2>2. PICK l : l = [k \in DOMAIN w.lines \cup m |->
                            IF k \in DOMAIN w.lines THEN w.lines[k] ELSE OnCropLine(k)]
      OBVIOUS
    <2>3. x = [w EXCEPT !.lines = l]
      BY <1>2, <2>1, <2>2 DEF Lined, OnCropLine
    <2>4. IsView(x) /\ SameLook(w, x) /\ x.lines = l
      BY <2>3 DEF IsView, SameLook, SamePicture
    <2>5. IsFcn(l)
      BY <2>2 DEF IsFcn
    <2> QED
      BY <1>2, <2>1, <2>2, <2>4, <2>5 DEF IsLined
  <1> QED
    BY <1>1, <1>2

\* What Redrawn leaves, for a view that was w before its lines are drawn.
RedrawnAs(v, w, todo) ==
    /\ IsSeq(todo) /\ calls' = todo \o Tail(calls)
    /\ DOMAIN view' = ViewSet /\ \A u \in ViewSet \ {v} : view'[u] = view[u]
    /\ view'[v] = Lined(v, w)
    /\ HeadsOnly(todo)
    /\ Traces(v, w) =>
           Pending(todo) = {SetIntersection(v, Traced(v, w)), Listen(v)}
    /\ ~Traces(v, w) => Pending(todo) = {}

LEMMA RedrawnCalls ==
  ASSUME ViewsInv, calls # <<>>, NEW v \in ViewSet, NEW w, Redrawn(v, w, <<>>)
  PROVE  \E todo : RedrawnAs(v, w, todo)
  <1>1. PICK x : x = Lined(v, w)
    OBVIOUS
  <1>2. view' = [view EXCEPT ![v] = x]
    BY <1>1 DEF Redrawn
  <1>3. DOMAIN view' = ViewSet /\ view'[v] = x /\ \A u \in ViewSet \ {v} : view'[u] = view[u]
    BY <1>2 DEF ViewsInv, ViewTypes
  <1>4. CASE Traces(v, w)
    <2>1. PICK a, b, todo : /\ a = SetIntersection(v, Traced(v, w)) /\ b = Listen(v)
                            /\ todo = <<a, b>>
      OBVIOUS
    <2>2. <<a, b>> \o <<>> = <<a, b>>
      <3>1. <<a, b>> \in Seq({a, b})
        OBVIOUS
      <3> QED
        BY <3>1
    <2>3. calls' = todo \o Tail(calls)
      BY <1>4, <2>1, <2>2 DEF Redrawn, Then
    <2>4. ~AtHead(b)
      BY <2>1 DEF AtHead, Listen
    <2>5. IsSeq(todo) /\ Pending(todo) = {a, b} /\ HeadsOnly(todo)
      BY <2>1, <2>4, ShortSeq, PendingShort
    <2> QED
      BY <1>1, <1>3, <1>4, <2>1, <2>3, <2>5 DEF RedrawnAs
  <1>5. CASE ~Traces(v, w)
    <2>1. PICK todo : todo = <<>>
      OBVIOUS
    <2>2. IsSeq(todo) /\ Pending(todo) = {} /\ HeadsOnly(todo)
      <3>1. IsSeq(<<>>)
        BY DEF IsSeq
      <3> QED
        BY <2>1, <3>1, PendingShort
    <2>3. calls' = todo \o Tail(calls)
      BY <1>5, <2>1 DEF Redrawn, Then
    <2> QED
      BY <1>1, <1>3, <1>5, <2>2, <2>3 DEF RedrawnAs
  <1> QED
    BY <1>4, <1>5

\* Calls of a view's own slots.
OwnCall(c, v) ==
    /\ c.call \in {"onSurfaceChanged", "redraw", "renderVisible", "shown",
                   "onIntersectionChanged"}
    /\ c.view = v /\ (c.call = "shown" => v = Segmentation)

\* A view that redraws its lines, when its image is as it should be and the lines it
\* kept were as they should be.
LEMMA RedrawnShows ==
  ASSUME ViewsInv, ImagesInv, LinesInv, calls # <<>>, NEW v \in ViewSet,
         OwnCall(calls[1], v), NEW w, NEW todo, IsView(w), RedrawnAs(v, w, todo),
         UNCHANGED <<shared, ptr, vis, current>>,
         SamePlace(view[v], w), w.vol = view[v].vol, w.surf = view[v].surf,
         w.zoff = view[v].zoff, Looks(v)',
         DOMAIN w.lines \subseteq DOMAIN view[v].lines,
         \A k \in DOMAIN w.lines : w.lines[k] = view[v].lines[k],
         Crop \in DOMAIN w.lines =>
            /\ w.lines = view[v].lines /\ SameLook(view[v], w)
            /\ ~Stirs(calls[1], v) /\ ~Hears(calls[1], v, Crop),
         \A k \in DOMAIN w.lines : ~HearsLines(calls[1], k)
  PROVE  ImagesInv' /\ LinesInv'
  <1>0. PICK x, a, b : /\ x = view'[v]
                       /\ a = SetIntersection(v, Traced(v, w)) /\ b = Listen(v)
    OBVIOUS
  <1>1. /\ IsSeq(todo) /\ calls' = todo \o Tail(calls)
        /\ \A u \in ViewSet \ {v} : view'[u] = view[u]
        /\ HeadsOnly(todo)
        /\ Traces(v, w) => Pending(todo) = {a, b}
        /\ ~Traces(v, w) => Pending(todo) = {}
    BY <1>0 DEF RedrawnAs
  <1>2. /\ IsView(x) /\ SameLook(w, x) /\ IsFcn(x.lines)
        /\ Traces(v, w) => x.lines = [k \in {Crop} |-> Traced(v, w)]
        /\ ~Traces(v, w) =>
                /\ DOMAIN x.lines = DOMAIN w.lines \cup Maps(v, w)
                /\ \A k \in DOMAIN w.lines : x.lines[k] = w.lines[k]
                /\ \A k \in Maps(v, w) \ DOMAIN w.lines : x.lines[k] = OnCropLine(k)
    <2>1. x = Lined(v, w)
      BY <1>0 DEF RedrawnAs
    <2>2. IsLined(v, w, x)
      BY <2>1, LinedShows
    <2> QED
      BY <2>2 DEF IsLined
  <1>3. Follows(Pending(todo))
    BY <1>1, Handed
  <1>4. /\ a.call = "setIntersection" /\ a.view = v /\ a.lines = Traced(v, w)
        /\ b.call = "listen"
    BY <1>0 DEF SetIntersection, Listen
  <1>5. /\ SamePlace(view[v], x) /\ x.vol = view[v].vol /\ x.surf = view[v].surf
        /\ x.zoff = view[v].zoff
    BY <1>2 DEF SameLook, SamePicture
  <1>6. Traces(v, w) => v \in Planes
    BY DEF Traces, Planes
  <1>7. ASSUME NEW u \in ViewSet \ {v}
        PROVE  ~Draws(calls[1], u) /\ ~Hears(calls[1], u, Crop) /\ ~Publishes(calls[1], u)
    BY <1>7 DEF OwnCall, Draws, Stirs, Hears, Publishes
  <1>8. ~Publishes(calls[1], v)
    BY DEF OwnCall, Publishes
  <1>9. ASSUME NEW u \in ViewSet \ {v}
        PROVE  /\ SameLook(view[u], view'[u]) /\ SameSource(u) /\ Looks(u)'
               /\ view'[u].lines = view[u].lines
    <2>1. view'[u] = view[u]
      BY <1>1
    <2>2. SameLook(view[u], view'[u]) /\ SameSource(u)
      BY <2>1 DEF SameLook, SamePicture, SameSource, shared
    <2>3. \A c \in Todo : Draws(c, u) => c \in Todo'
      BY <1>3, <1>7 DEF Follows
    <2>4. Looks(u)'
      BY <2>2, <2>3, LooksStays DEF ImagesInv
    <2> QED
      BY <2>1, <2>2, <2>4
  <1>10. ImagesInv'
    <2>1. DOMAIN plane' = Planes /\ UNCHANGED <<current, chains, ptr>>
      BY DEF ImagesInv, shared
    <2>2. calls[1].call \notin {"setVolume", "OnVolumeChanged"}
      BY DEF OwnCall
    <2>3. \A c \in Pending(todo) :
            c.call \notin {"setVolume", "OnVolumeChanged"} /\ ShowsSheet(c)'
      BY <1>1, <1>4 DEF ShowsSheet
    <2>4. ASSUME NEW u \in ViewSet
          PROVE  /\ Placed(view'[u]) /\ view'[u].vol = view[u].vol
                 /\ view'[u].surf = view[u].surf /\ view'[u].zoff = view[u].zoff
                 /\ Looks(u)'
      <3>1. CASE u = v
        BY <1>0, <1>5, <3>1 DEF ImagesInv
      <3>2. CASE u # v
        BY <1>1, <1>9, <3>2 DEF ImagesInv
      <3> QED
        BY <3>1, <3>2
    <2>5. Segmentation \in ViewSet
      BY ViewsAssumption
    <2> QED
      BY <1>1, <2>1, <2>2, <2>3, <2>4, <2>5, ImagesStay
  <1>11. ASSUME v \in Planes
         PROVE  PlaneLines(v)' /\ \A c \in Pending(todo) : LineCall(c)'
    <2>0. v \in Planes
      BY <1>11
    <2>1. Traced(v, x)' = Traced(v, w)
      BY <1>2 DEF Traced, SameLook, SamePicture, shared
    <2>2. CASE Traces(v, w)
      <3>1. DOMAIN x.lines = {Crop} /\ x.lines[Crop] = Traced(v, w)
            /\ x.lines = [k \in {Crop} |-> Traced(v, w)]
        BY <1>2, <2>2
      <3>2. a \in Todo' /\ Publishes(a, v)
        BY <1>1, <1>3, <1>4, <2>2 DEF Follows, Publishes
      <3>3. PlaneLines(v)'
        BY <1>0, <2>1, <3>1, <3>2 DEF PlaneLines
      <3>4. LineCall(a)' /\ LineCall(b)'
        BY <1>0, <1>4, <2>0, <3>1 DEF LineCall
      <3> QED
        BY <1>1, <2>2, <3>3, <3>4
    <2>3. CASE ~Traces(v, w)
      <3>1. Maps(v, w) = {}
        BY <2>0 DEF Maps, Planes
      <3>2. PlaneLines(v)
        BY <2>0 DEF LinesInv
      <3>3. DOMAIN x.lines = DOMAIN w.lines /\ DOMAIN w.lines \subseteq {Crop}
            /\ \A k \in DOMAIN w.lines : x.lines[k] = w.lines[k]
        BY <1>2, <2>3, <3>1, <3>2 DEF PlaneLines
      <3>4. ASSUME Crop \in DOMAIN x.lines
            PROVE  inters'[v] = x.lines[Crop] \/ \E c \in Todo' : Publishes(c, v)
        <4>1. x.lines[Crop] = view[v].lines[Crop] /\ Crop \in DOMAIN view[v].lines
          BY <3>3, <3>4
        <4>2. inters[v] = view[v].lines[Crop] \/ \E c \in Todo : Publishes(c, v)
          BY <3>2, <4>1 DEF PlaneLines
        <4> QED
          BY <1>3, <1>8, <4>1, <4>2 DEF Follows, shared
      <3>5. ASSUME CanDraw(x), x.zoff = 0, surfs'[Crop] # None, x.area # None
            PROVE  \/ x.lines = [k \in {Crop} |-> Traced(v, w)]
                   \/ \E c \in Todo' : Stirs(c, v) \/ Hears(c, v, Crop)
        <4>1. CanDraw(w) /\ w.zoff = 0 /\ surfs[Crop] # None
          BY <1>2, <3>5 DEF SameLook, SamePicture, CanDraw, shared
        <4>2. Crop \in DOMAIN w.lines
          BY <2>0, <2>3, <4>1 DEF Traces, Planes
        <4>3. w.lines = view[v].lines /\ SameLook(view[v], w)
              /\ ~Stirs(calls[1], v) /\ ~Hears(calls[1], v, Crop)
          BY <4>2
        <4>4. /\ CanDraw(view[v]) /\ view[v].zoff = 0 /\ view[v].area # None
              /\ Traced(v, view[v]) = Traced(v, w)
          BY <1>2, <3>5, <4>1, <4>3 DEF SameLook, SamePicture, CanDraw, Traced
        <4>5. \/ view[v].lines = [k \in {Crop} |-> Traced(v, view[v])]
              \/ \E c \in Todo : Stirs(c, v) \/ Hears(c, v, Crop)
          BY <3>2, <4>1, <4>4 DEF PlaneLines
        <4>6. CASE view[v].lines = [k \in {Crop} |-> Traced(v, view[v])]
          <5>1. DOMAIN x.lines = {Crop} /\ x.lines[Crop] = Traced(v, w)
            BY <3>3, <4>3, <4>4, <4>6
          <5> QED
            BY <1>2, <5>1 DEF IsFcn
        <4>7. CASE \E c \in Todo : Stirs(c, v) \/ Hears(c, v, Crop)
          BY <1>3, <4>3, <4>7 DEF Follows
        <4> QED
          BY <4>5, <4>6, <4>7
      <3>6. PlaneLines(v)'
        BY <1>0, <2>1, <3>3, <3>4, <3>5 DEF PlaneLines
      <3> QED
        BY <1>1, <2>3, <3>6
    <2> QED
      BY <2>2, <2>3
  <1>12. \A u \in Planes : PlaneLines(u)'
    <2> SUFFICES ASSUME NEW u \in Planes PROVE PlaneLines(u)'
      OBVIOUS
    <2>1. CASE u = v
      BY <1>11, <2>1
    <2>2. CASE u # v
      <3>1. u \in ViewSet \ {v}
        BY <2>2 DEF Planes
      <3>2. SamePicture(view[u], view'[u]) /\ view'[u].zoff = view[u].zoff
            /\ view'[u].lines = view[u].lines
        BY <1>9, <3>1 DEF SameLook
      <3>3. \A c \in Todo : Stirs(c, u) \/ Hears(c, u, Crop) \/ Publishes(c, u) => c \in Todo'
        BY <1>3, <1>7, <3>1 DEF Follows, Draws
      <3> QED
        BY <3>2, <3>3, PlaneLinesStay DEF LinesInv, shared
    <2> QED
      BY <2>1, <2>2
  <1>13. SegmentationLines'
    <2>0. SegmentationLines
      BY DEF LinesInv
    <2>1. CASE v = Segmentation
      <3>1. ~Traces(v, w)
        BY <2>1 DEF Traces
      <3>2. /\ DOMAIN x.lines = DOMAIN w.lines \cup Maps(v, w)
            /\ \A k \in DOMAIN w.lines : x.lines[k] = w.lines[k]
            /\ \A k \in Maps(v, w) \ DOMAIN w.lines : x.lines[k] = OnCropLine(k)
        BY <1>2, <3>1
      <3>3. DOMAIN w.lines \subseteq SegPlaneSet
        BY <2>0, <2>1 DEF SegmentationLines
      <3>4. DOMAIN x.lines \subseteq SegPlaneSet
        BY <3>2, <3>3 DEF Maps
      <3>5. \A k \in SegPlaneSet : OnCropLine(k)' = OnCropLine(k) /\ inters'[k] = inters[k]
        BY DEF OnCropLine, shared
      <3>6. ASSUME NEW k \in DOMAIN x.lines
            PROVE  \/ inters'[k] # None /\ x.lines[k] = OnCropLine(k)'
                   \/ \E c \in Todo' : HearsLines(c, k)
        <4>1. CASE k \in DOMAIN w.lines
          <5>1. k \in DOMAIN view[v].lines /\ x.lines[k] = view[v].lines[k]
                /\ ~HearsLines(calls[1], k) /\ k \in SegPlaneSet
            BY <3>2, <3>3, <4>1
          <5>2. \/ inters[k] # None /\ view[v].lines[k] = OnCropLine(k)
                \/ \E c \in Todo : HearsLines(c, k)
            BY <2>0, <2>1, <5>1 DEF SegmentationLines
          <5> QED
            BY <1>3, <3>5, <5>1, <5>2 DEF Follows
        <4>2. CASE k \notin DOMAIN w.lines
          <5>1. k \in Maps(v, w) \ DOMAIN w.lines /\ k \in SegPlaneSet
            BY <3>2, <3>4, <3>6, <4>2
          <5>2. inters[k] # None
            BY <5>1 DEF Maps
          <5> QED
            BY <3>2, <3>5, <5>1, <5>2
        <4> QED
          BY <4>1, <4>2
      <3>7. ASSUME CanDraw(x), x.zoff = 0, surfs'[Crop] # None,
                   NEW k \in SegPlaneSet \ DOMAIN x.lines
            PROVE  inters'[k] = None
        <4>1. CanDraw(w) /\ w.zoff = 0 /\ surfs[Crop] # None
          BY <1>2, <3>7 DEF SameLook, SamePicture, CanDraw, shared
        <4>2. Maps(v, w) = {l \in SegPlaneSet \ DOMAIN w.lines : inters[l] # None}
          BY <2>1, <4>1 DEF Maps
        <4> QED
          BY <3>2, <3>5, <3>7, <4>2
      <3> QED
        BY <1>0, <2>1, <3>4, <3>6, <3>7 DEF SegmentationLines
    <2>2. CASE v # Segmentation
      <3>1. Segmentation \in ViewSet \ {v}
        BY <2>2, ViewsAssumption
      <3>2. view'[Segmentation] = view[Segmentation]
        BY <1>1, <3>1
      <3>3. ~Redraws(calls[1]) /\ \A k : ~HearsLines(calls[1], k)
        BY <2>2 DEF OwnCall, Redraws, HearsLines, Stirs, Hears
      <3>4. \A c \in Todo : c \in Todo' \/ ~(Redraws(c) \/ \E k \in SegPlaneSet : HearsLines(c, k))
        BY <1>3, <3>3 DEF Follows
      <3> QED
        BY <2>0, <3>2, <3>4, SegmentationLinesStay DEF shared
    <2> QED
      BY <2>1, <2>2
  <1>14. LinesInv'
    <2>1. DOMAIN inters' = Planes /\ DOMAIN surfs' = ViewSet \cup {Crop}
      BY DEF LinesInv, shared
    <2>2. \A c \in Pending(todo) : LineCall(c)'
      BY <1>1, <1>6, <1>11
    <2>3. ASSUME NEW u \in ViewSet PROVE IsFcn(view'[u].lines)
      BY <1>0, <1>1, <1>2 DEF LinesInv
    <2> QED
      BY <1>1, <1>12, <1>13, <2>1, <2>2, <2>3, LinesStay
  <1> QED
    BY <1>10, <1>14
-----------------------------------------------------------------------------
(***************************************************************************)
(* What is shown after each handler.                                       *)
(***************************************************************************)
LEMMA NoHeads ==
  ASSUME NEW q, IsSeq(q), \A c \in Pending(q) : ~AtHead(c)
  PROVE  HeadsOnly(q)
  <1>1. Len(q) \in Nat
    BY DEF IsSeq
  <1> QED
    BY <1>1 DEF HeadsOnly, Pending

\* Calls that are about what no view shows.
Idle(c) ==
    /\ \A v \in ViewSet : ~Draws(c, v) /\ ~Hears(c, v, Crop) /\ ~Publishes(c, v)
    /\ ~Redraws(c) /\ \A k \in SegPlaneSet : ~HearsLines(c, k)

SegPlanesArePlanes == SegPlaneSet \subseteq Planes /\ Planes \subseteq ViewSet

LEMMA PlanesShown == SegPlanesArePlanes
  <1>1. SegPlanes \in Seq(Planes)
    BY ViewsAssumption
  <1> QED
    BY <1>1 DEF SegPlanesArePlanes, SegPlaneSet, Planes

\* A handler that touches nothing that is shown.
LEMMA IdleShows ==
  ASSUME ViewsInv, ImagesInv, LinesInv, calls # <<>>,
         NEW todo, IsSeq(todo), calls' = todo \o Tail(calls),
         UNCHANGED <<shared, ptr, vis, current>>,
         \A v \in ViewSet :
            SameLook(view[v], view'[v]) /\ view'[v].lines = view[v].lines,
         Idle(calls[1]), calls[1].call \notin {"setVolume", "OnVolumeChanged"},
         \A c \in Pending(todo) : c.call = "onPOIChanged"
  PROVE  ImagesInv' /\ LinesInv'
  <1>1. Follows(Pending(todo))
    BY Handed
  <1>2. ASSUME NEW v \in ViewSet PROVE Looks(v)'
    <2>1. SameSource(v)
      BY DEF SameSource, shared
    <2>2. \A c \in Todo : Draws(c, v) => c \in Todo'
      BY <1>1 DEF Follows, Idle
    <2> QED
      BY <2>1, <2>2, LooksStays DEF ImagesInv
  <1>3. ASSUME NEW v \in ViewSet
        PROVE  /\ Placed(view'[v]) /\ view'[v].vol = view[v].vol
               /\ view'[v].surf = view[v].surf /\ view'[v].zoff = view[v].zoff
    BY DEF SameLook, SamePicture, ImagesInv
  <1>4. ImagesInv'
    <2>1. DOMAIN plane' = Planes /\ UNCHANGED <<current, chains, ptr>>
      BY DEF ImagesInv, shared
    <2>2. \A c \in Pending(todo) :
            c.call \notin {"setVolume", "OnVolumeChanged"} /\ ShowsSheet(c)'
      BY DEF ShowsSheet
    <2>3. Segmentation \in ViewSet
      BY ViewsAssumption
    <2> QED
      BY <1>2, <1>3, <2>1, <2>2, <2>3, ImagesStay
  <1>5. ASSUME NEW v \in Planes PROVE PlaneLines(v)'
    <2>1. v \in ViewSet /\ PlaneLines(v)
      BY DEF Planes, LinesInv
    <2>2. SamePicture(view[v], view'[v]) /\ view'[v].zoff = view[v].zoff
          /\ view'[v].lines = view[v].lines
      BY <2>1 DEF SameLook
    <2>3. \A c \in Todo : Stirs(c, v) \/ Hears(c, v, Crop) \/ Publishes(c, v) => c \in Todo'
      BY <1>1, <2>1 DEF Follows, Idle, Draws
    <2> QED
      BY <2>1, <2>2, <2>3, PlaneLinesStay DEF shared
  <1>6. SegmentationLines'
    <2>1. Segmentation \in ViewSet
      BY ViewsAssumption
    <2>2. view'[Segmentation].lines = view[Segmentation].lines
      BY <2>1
    <2>3. \A c \in Todo : c \in Todo' \/ ~(Redraws(c) \/ \E k \in SegPlaneSet : HearsLines(c, k))
      BY <1>1 DEF Follows, Idle
    <2> QED
      BY <1>3, <2>1, <2>2, <2>3, SegmentationLinesStay DEF LinesInv, shared
  <1>7. LinesInv'
    <2>1. DOMAIN inters' = Planes /\ DOMAIN surfs' = ViewSet \cup {Crop}
      BY DEF LinesInv, shared
    <2>2. \A c \in Pending(todo) : LineCall(c)' /\ ~AtHead(c)
      BY DEF LineCall, AtHead
    <2>3. HeadsOnly(todo)
      BY <2>2, NoHeads
    <2>4. \A v \in ViewSet : IsFcn(view'[v].lines)
      BY DEF LinesInv
    <2> QED
      BY <1>5, <1>6, <2>1, <2>2, <2>3, <2>4, LinesStay
  <1> QED
    BY <1>4, <1>7

LEMMA SameViewLooks ==
  ASSUME UNCHANGED view
  PROVE  \A v \in ViewSet : SameLook(view[v], view'[v]) /\ view'[v].lines = view[v].lines
  BY DEF SameLook, SamePicture

\* A handler that only goes on with the rest.
LEMMA NothingToDo == IsSeq(<<>>) /\ Pending(<<>>) = {} /\ HeadsOnly(<<>>)
  <1>1. IsSeq(<<>>)
    BY DEF IsSeq
  <1> QED
    BY <1>1, PendingShort

LEMMA SetPOIShows == ViewsInv /\ ImagesInv /\ LinesInv /\ DoSetPOI => ImagesInv' /\ LinesInv'
  <1> SUFFICES ASSUME ViewsInv, ImagesInv, LinesInv, DoSetPOI PROVE ImagesInv' /\ LinesInv'
    OBVIOUS
  <1>1. /\ calls # <<>> /\ Head(calls).call = "setPOI"
        /\ UNCHANGED <<shared, view, ptr, vis, current>>
    BY DEF DoSetPOI, Running, window
  <1>2. calls[1].call = "setPOI"
    BY <1>1, FirstOfTodo
  <1>3. PICK todo : todo = [i \in 1..Len(Views) |-> FocusChanged(Views[i])]
    OBVIOUS
  <1>4. calls' = todo \o Tail(calls)
    BY <1>3 DEF DoSetPOI, Then, ToAll
  <1>5. PICK f : f = [v \in ViewSet |-> FocusChanged(v)]
    OBVIOUS
  <1>6. todo = [i \in 1..Len(Views) |-> f[Views[i]]]
    BY <1>3, <1>5, ViewsSeq
  <1>7. IsSeq(todo) /\ Pending(todo) = {f[v] : v \in ViewSet}
    BY <1>6, PendingAll
  <1>8. \A c \in Pending(todo) : c.call = "onPOIChanged"
    BY <1>5, <1>7 DEF FocusChanged
  <1>9. Idle(calls[1])
    BY <1>2 DEF Idle, Draws, Stirs, Hears, Publishes, Redraws, HearsLines
  <1> QED
    BY <1>1, <1>2, <1>4, <1>7, <1>8, <1>9, SameViewLooks, IdleShows

LEMMA ChainSelectedShows ==
  ViewsInv /\ ImagesInv /\ LinesInv /\ DoChainSelected => ImagesInv' /\ LinesInv'
  <1> SUFFICES ASSUME ViewsInv, ImagesInv, LinesInv, DoChainSelected
               PROVE  ImagesInv' /\ LinesInv'
    OBVIOUS
  <1>1. /\ calls # <<>> /\ Head(calls).call = "onOpChainSelected"
        /\ UNCHANGED <<shared, view, ptr, vis, current>>
    BY DEF DoChainSelected, Running
  <1>2. calls[1].call = "onOpChainSelected"
    BY <1>1, FirstOfTodo
  <1>3. PICK todo : todo = <<>>
    OBVIOUS
  <1>4. IsSeq(todo) /\ Pending(todo) = {} /\ calls' = todo \o Tail(calls)
    BY <1>3, NothingToDo DEF DoChainSelected, Then
  <1>5. Idle(calls[1])
    BY <1>2 DEF Idle, Draws, Stirs, Hears, Publishes, Redraws, HearsLines
  <1> QED
    BY <1>1, <1>2, <1>4, <1>5, SameViewLooks, IdleShows

LEMMA ClearTreeShows ==
  ViewsInv /\ ImagesInv /\ LinesInv /\ DoClearTree /\ broken' = None
    => ImagesInv' /\ LinesInv'
  <1> SUFFICES ASSUME ViewsInv, ImagesInv, LinesInv, DoClearTree, broken' = None
               PROVE  ImagesInv' /\ LinesInv'
    OBVIOUS
  <1>1. /\ calls # <<>> /\ Head(calls).call = "clearTree"
        /\ UNCHANGED <<shared, view, ptr, vis, current>>
    BY DEF DoClearTree, Running, window
  <1>2. calls[1].call = "clearTree"
    BY <1>1, FirstOfTodo
  <1>3. PICK todo : todo = <<>>
    OBVIOUS
  <1>4. IsSeq(todo) /\ Pending(todo) = {} /\ calls' = todo \o Tail(calls)
    <2>1. "tree" # None
      BY ReasonsAreSome DEF Reasons
    <2> QED
      BY <1>3, <2>1, NothingToDo DEF DoClearTree, Then, Break
  <1>5. Idle(calls[1])
    BY <1>2 DEF Idle, Draws, Stirs, Hears, Publishes, Redraws, HearsLines
  <1> QED
    BY <1>1, <1>2, <1>4, <1>5, SameViewLooks, IdleShows

\* No view of a plane's lines is passed over but the one that publishes them.
LEMMA IgnoreShows ==
  ViewsInv /\ ImagesInv /\ LinesInv /\ IgnoreIntersection => ImagesInv' /\ LinesInv'
  <1> SUFFICES ASSUME ViewsInv, ImagesInv, LinesInv, IgnoreIntersection
               PROVE  ImagesInv' /\ LinesInv'
    OBVIOUS
  <1>1. /\ calls # <<>> /\ Head(calls).call = "onIntersectionChanged"
        /\ Head(calls).by = Head(calls).view
        /\ UNCHANGED <<shared, view, ptr, vis, current>>
    BY DEF IgnoreIntersection, Running, Ignores, window
  <1>2. /\ calls[1].call = "onIntersectionChanged" /\ calls[1].by = calls[1].view
        /\ calls[1] \in Todo
    BY <1>1, FirstOfTodo
  <1>3. LineCall(calls[1])
    BY <1>2 DEF LinesInv
  <1>4. calls[1].view # Segmentation
    BY <1>2, <1>3 DEF LineCall, Planes
  <1>5. PICK todo : todo = <<>>
    OBVIOUS
  <1>6. IsSeq(todo) /\ Pending(todo) = {} /\ calls' = todo \o Tail(calls)
    BY <1>5, NothingToDo DEF IgnoreIntersection, Then
  <1>7. Idle(calls[1])
    BY <1>2, <1>4 DEF Idle, Draws, Stirs, Hears, Publishes, Redraws, HearsLines
  <1> QED
    BY <1>1, <1>2, <1>6, <1>7, SameViewLooks, IdleShows

LEMMA ListenShows ==
  ViewsInv /\ ImagesInv /\ LinesInv /\ DoListen => ImagesInv' /\ LinesInv'
  <1> SUFFICES ASSUME ViewsInv, ImagesInv, LinesInv, DoListen PROVE ImagesInv' /\ LinesInv'
    OBVIOUS
  <1>0. PICK v : v = Head(calls).view
    OBVIOUS
  <1>1. /\ calls # <<>> /\ Head(calls).call = "listen"
        /\ UNCHANGED <<shared, ptr, vis, current>>
        /\ view' = [view EXCEPT ![v].ignoring = FALSE]
    BY <1>0 DEF DoListen, Running, window
  <1>2. calls[1].call = "listen" /\ v \in ViewSet
    BY <1>0, <1>1, FirstOfTodo DEF CallOK, Planes
  <1>3. PICK todo : todo = <<>>
    OBVIOUS
  <1>4. IsSeq(todo) /\ Pending(todo) = {} /\ calls' = todo \o Tail(calls)
    BY <1>3, NothingToDo DEF DoListen, Then
  <1>5. Idle(calls[1])
    BY <1>2 DEF Idle, Draws, Stirs, Hears, Publishes, Redraws, HearsLines
  <1>6. ASSUME NEW u \in ViewSet
        PROVE  SameLook(view[u], view'[u]) /\ view'[u].lines = view[u].lines
    <2>1. PICK old, x : old = view[v] /\ x = [old EXCEPT !.ignoring = FALSE]
      OBVIOUS
    <2>2. IsView(old) /\ view' = [view EXCEPT ![v] = x] /\ DOMAIN view = ViewSet
      BY <1>1, <1>2, <2>1 DEF ViewsInv, ViewTypes
    <2>3. SameLook(old, x) /\ x.lines = old.lines
      BY <2>1, <2>2 DEF IsView, SameLook, SamePicture
    <2>4. view'[v] = x /\ (u # v => view'[u] = view[u])
      BY <1>2, <2>2
    <2>5. CASE u = v
      BY <2>1, <2>3, <2>4, <2>5
    <2>6. CASE u # v
      BY <2>4, <2>6 DEF SameLook, SamePicture
    <2> QED
      BY <2>5, <2>6
  <1> QED
    BY <1>1, <1>2, <1>4, <1>5, <1>6, IdleShows

\* Every view hears of the surface that is set: its own, or the crop its lines are of.
LEMMA SetSurfaceShows ==
  ViewsInv /\ ImagesInv /\ LinesInv /\ DoSetSurface => ImagesInv' /\ LinesInv'
  <1> SUFFICES ASSUME ViewsInv, ImagesInv, LinesInv, DoSetSurface PROVE ImagesInv' /\ LinesInv'
    OBVIOUS
  <1>0. PICK n, s : n = Head(calls).name /\ s = Head(calls).surf
    OBVIOUS
  <1>1. /\ calls # <<>> /\ Head(calls).call = "setSurface"
        /\ UNCHANGED <<inters, plane, chains, view, ptr, vis, current>>
        /\ surfs' = [surfs EXCEPT ![n] = s]
    BY <1>0 DEF DoSetSurface, Running, window
  <1>2. calls[1] \in Todo /\ calls[1].call = "setSurface" /\ calls[1].name = n
    BY <1>0, <1>1, FirstOfTodo
  <1>3. PICK todo : todo = [i \in 1..Len(Views) |-> SurfaceChanged(Views[i], n, s)]
    OBVIOUS
  <1>4. calls' = todo \o Tail(calls)
    BY <1>0, <1>3 DEF DoSetSurface, Then, ToAll
  <1>5. PICK f : f = [v \in ViewSet |-> SurfaceChanged(v, n, s)]
    OBVIOUS
  <1>6. todo = [i \in 1..Len(Views) |-> f[Views[i]]]
    BY <1>3, <1>5, ViewsSeq
  <1>7. IsSeq(todo) /\ Pending(todo) = {f[v] : v \in ViewSet}
    BY <1>6, PendingAll
  <1>8. \A c \in Pending(todo) : c.call = "onSurfaceChanged"
    BY <1>5, <1>7 DEF SurfaceChanged
  <1>9. \A v \in ViewSet : /\ f[v] \in Pending(todo) /\ f[v].call = "onSurfaceChanged"
                           /\ f[v].view = v /\ f[v].name = n
    BY <1>5, <1>7 DEF SurfaceChanged
  <1>10. Follows(Pending(todo))
    BY <1>1, <1>4, <1>7, Handed
  <1>11. \A v \in ViewSet : f[v] \in Todo'
    BY <1>9, <1>10 DEF Follows
  <1>12. Crop \notin ViewSet /\ Segmentation \in ViewSet
    BY ViewsAssumption
  <1>13. DOMAIN surfs' = ViewSet \cup {Crop} /\ (n # Crop => surfs'[Crop] = surfs[Crop])
    BY <1>1 DEF LinesInv
  <1>14. ASSUME NEW v \in ViewSet PROVE Looks(v)'
    <2>1. CASE n = v
      <3>1. Stirs(f[v], v)
        BY <1>9, <2>1 DEF Stirs
      <3> QED
        BY <1>11, <3>1 DEF Looks, Forced
    <2>2. CASE n # v
      <3>1. ~Draws(calls[1], v)
        BY <1>2, <2>2 DEF Draws, Stirs
      <3>2. \A c \in Todo : Draws(c, v) => c \in Todo'
        BY <1>10, <3>1 DEF Follows
      <3>3. SameSource(v) /\ SameLook(view[v], view'[v])
        BY <1>1 DEF SameSource, SameLook, SamePicture
      <3> QED
        BY <3>2, <3>3, LooksStays DEF ImagesInv
    <2> QED
      BY <2>1, <2>2
  <1>15. ImagesInv'
    <2>1. DOMAIN plane' = Planes /\ \A v \in ViewSet : Placed(view[v])
      BY <1>1 DEF ImagesInv
    <2>2. \A c \in Pending(todo) :
            c.call \notin {"setVolume", "OnVolumeChanged"} /\ ShowsSheet(c)'
      BY <1>8 DEF ShowsSheet
    <2>3. calls[1].call \notin {"setVolume", "OnVolumeChanged"}
      BY <1>2
    <2> QED
      BY <1>1, <1>4, <1>7, <1>14, <2>1, <2>2, <2>3, ImagesStay
  <1>16. ASSUME NEW v \in Planes PROVE PlaneLines(v)'
    <2>0. v \in ViewSet /\ PlaneLines(v) /\ v # Crop
      BY <1>12 DEF Planes, LinesInv
    <2>1. ~Publishes(calls[1], v) /\ ~Hears(calls[1], v, Crop)
      BY <1>2 DEF Publishes, Hears
    <2>2. CASE n \in {v, Crop}
      <3>1. Stirs(f[v], v) \/ Hears(f[v], v, Crop)
        BY <1>9, <2>0, <2>2 DEF Stirs, Hears
      <3>2. DOMAIN view'[v].lines \subseteq {Crop}
        BY <1>1, <2>0 DEF PlaneLines
      <3>3. Crop \in DOMAIN view'[v].lines =>
                inters'[v] = view'[v].lines[Crop] \/ \E c \in Todo' : Publishes(c, v)
        BY <1>1, <1>10, <2>0, <2>1 DEF PlaneLines, Follows
      <3> QED
        BY <1>11, <2>0, <3>1, <3>2, <3>3 DEF PlaneLines
    <2>3. CASE n \notin {v, Crop}
      <3>1. ~Stirs(calls[1], v)
        BY <1>2, <2>3 DEF Stirs
      <3>2. \A c \in Todo : Stirs(c, v) \/ Hears(c, v, Crop) \/ Publishes(c, v) => c \in Todo'
        BY <1>10, <2>1, <3>1 DEF Follows
      <3> QED
        BY <1>1, <1>13, <2>0, <2>3, <3>2, PlaneLinesStay DEF SamePicture
    <2> QED
      BY <2>2, <2>3
  <1>17. SegmentationLines'
    <2>0. SegmentationLines
      BY DEF LinesInv
    <2>1. CASE n = Crop
      <3>1. DOMAIN view'[Segmentation].lines = {}
        BY <1>1, <1>2, <2>1 DEF LinesInv, LineCall
      <3>2. Redraws(f[Segmentation])
        BY <1>9, <1>12, <2>1 DEF Redraws, Hears
      <3> QED
        BY <1>11, <1>12, <3>1, <3>2 DEF SegmentationLines
    <2>2. CASE n = Segmentation
      <3>1. Redraws(f[Segmentation])
        BY <1>9, <1>12, <2>2 DEF Redraws, Stirs
      <3>2. n # Crop /\ \A k : ~HearsLines(calls[1], k)
        BY <1>2, <1>12, <2>2 DEF HearsLines
      <3>3. \A k : OnCropLine(k)' = OnCropLine(k)
        BY <1>1, <1>13, <3>2 DEF OnCropLine
      <3>4. ASSUME NEW k \in DOMAIN view'[Segmentation].lines
            PROVE  \/ inters'[k] # None /\ view'[Segmentation].lines[k] = OnCropLine(k)'
                   \/ \E c \in Todo' : HearsLines(c, k)
        <4>1. \/ inters[k] # None /\ view[Segmentation].lines[k] = OnCropLine(k)
              \/ \E c \in Todo : HearsLines(c, k)
          BY <1>1, <2>0, <3>4 DEF SegmentationLines
        <4> QED
          BY <1>1, <1>10, <3>2, <3>3, <4>1 DEF Follows
      <3>5. DOMAIN view'[Segmentation].lines \subseteq SegPlaneSet
        BY <1>1, <2>0 DEF SegmentationLines
      <3> QED
        BY <1>11, <1>12, <3>1, <3>4, <3>5 DEF SegmentationLines
    <2>3. CASE n \notin {Crop, Segmentation}
      <3>1. ~Redraws(calls[1]) /\ \A k : ~HearsLines(calls[1], k)
        BY <1>2, <2>3 DEF Redraws, Hears, Stirs, HearsLines
      <3>2. \A c \in Todo : c \in Todo' \/ ~(Redraws(c) \/ \E k \in SegPlaneSet : HearsLines(c, k))
        BY <1>10, <3>1 DEF Follows
      <3> QED
        BY <1>1, <1>13, <2>0, <2>3, <3>2, SegmentationLinesStay
    <2> QED
      BY <2>1, <2>2, <2>3
  <1>18. LinesInv'
    <2>1. DOMAIN inters' = Planes /\ \A v \in ViewSet : IsFcn(view'[v].lines)
      BY <1>1 DEF LinesInv
    <2>2. \A c \in Pending(todo) : LineCall(c)' /\ ~AtHead(c)
      BY <1>8 DEF LineCall, AtHead
    <2>3. HeadsOnly(todo)
      BY <1>7, <2>2, NoHeads
    <2> QED
      BY <1>1, <1>4, <1>7, <1>13, <1>16, <1>17, <2>1, <2>2, <2>3, LinesStay
  <1> QED
    BY <1>15, <1>18

\* The collection's lines are those the view has drawn, and the segmentation hears
\* of them.
LEMMA SetIntersectionShows ==
  ViewsInv /\ ImagesInv /\ LinesInv /\ DoSetIntersection => ImagesInv' /\ LinesInv'
  <1> SUFFICES ASSUME ViewsInv, ImagesInv, LinesInv, DoSetIntersection
               PROVE  ImagesInv' /\ LinesInv'
    OBVIOUS
  <1>0. PICK n, l : n = Head(calls).view /\ l = Head(calls).lines
    OBVIOUS
  <1>1. /\ calls # <<>> /\ Head(calls).call = "setIntersection"
        /\ UNCHANGED <<surfs, plane, chains, view, ptr, vis, current>>
        /\ inters' = [inters EXCEPT ![n] = l]
    BY <1>0 DEF DoSetIntersection, Running, window
  <1>2. /\ calls[1] \in Todo /\ calls[1].call = "setIntersection"
        /\ calls[1].view = n /\ calls[1].lines = l
    BY <1>0, <1>1, FirstOfTodo
  <1>3. n \in Planes /\ Crop \in DOMAIN view[n].lines /\ l = view[n].lines[Crop]
    BY <1>2 DEF LinesInv, LineCall
  <1>4. PICK todo : todo = [i \in 1..Len(Views) |-> IntersectionChanged(Views[i], n)]
    OBVIOUS
  <1>5. calls' = todo \o Tail(calls)
    BY <1>0, <1>4 DEF DoSetIntersection, Then, ToAll
  <1>6. PICK f : f = [v \in ViewSet |-> IntersectionChanged(v, n)]
    OBVIOUS
  <1>7. todo = [i \in 1..Len(Views) |-> f[Views[i]]]
    BY <1>4, <1>6, ViewsSeq
  <1>8. IsSeq(todo) /\ Pending(todo) = {f[v] : v \in ViewSet}
    BY <1>7, PendingAll
  <1>9. \A c \in Pending(todo) : c.call = "onIntersectionChanged" /\ c.by = n
    BY <1>6, <1>8 DEF IntersectionChanged
  <1>10. \A v \in ViewSet : f[v] \in Pending(todo) /\ f[v].view = v
    BY <1>6, <1>8 DEF IntersectionChanged
  <1>11. Follows(Pending(todo))
    BY <1>1, <1>5, <1>8, Handed
  <1>12. Segmentation \in ViewSet
    BY ViewsAssumption
  <1>13. ASSUME NEW v \in ViewSet PROVE Looks(v)'
    <2>1. ~Draws(calls[1], v)
      BY <1>2 DEF Draws, Stirs
    <2>2. \A c \in Todo : Draws(c, v) => c \in Todo'
      BY <1>11, <2>1 DEF Follows
    <2>3. SameSource(v) /\ SameLook(view[v], view'[v])
      BY <1>1 DEF SameSource, SameLook, SamePicture
    <2> QED
      BY <2>2, <2>3, LooksStays DEF ImagesInv
  <1>14. ImagesInv'
    <2>1. DOMAIN plane' = Planes /\ \A v \in ViewSet : Placed(view[v])
      BY <1>1 DEF ImagesInv
    <2>2. \A c \in Pending(todo) :
            c.call \notin {"setVolume", "OnVolumeChanged"} /\ ShowsSheet(c)'
      BY <1>9 DEF ShowsSheet
    <2>3. calls[1].call \notin {"setVolume", "OnVolumeChanged"}
      BY <1>2
    <2> QED
      BY <1>1, <1>5, <1>8, <1>13, <2>1, <2>2, <2>3, ImagesStay
  <1>15. ASSUME NEW v \in Planes PROVE PlaneLines(v)'
    <2>0. v \in ViewSet /\ PlaneLines(v)
      BY DEF Planes, LinesInv
    <2>1. ~Stirs(calls[1], v) /\ ~Hears(calls[1], v, Crop)
      BY <1>2 DEF Stirs, Hears
    <2>2. CASE v = n
      <3>1. inters'[v] = view'[v].lines[Crop]
        BY <1>1, <1>3, <2>2 DEF LinesInv
      <3>2. Traced(v, view[v])' = Traced(v, view[v])
        BY <1>1 DEF Traced
      <3>3. (\E c \in Todo : Stirs(c, v) \/ Hears(c, v, Crop))
                => \E c \in Todo' : Stirs(c, v) \/ Hears(c, v, Crop)
        BY <1>11, <2>1 DEF Follows
      <3> QED
        BY <1>1, <2>0, <3>1, <3>2, <3>3 DEF PlaneLines
    <2>3. CASE v # n
      <3>1. ~Publishes(calls[1], v)
        BY <1>2, <2>3 DEF Publishes
      <3>2. \A c \in Todo : Stirs(c, v) \/ Hears(c, v, Crop) \/ Publishes(c, v) => c \in Todo'
        BY <1>11, <2>1, <3>1 DEF Follows
      <3>3. inters'[v] = inters[v]
        BY <1>1, <2>3 DEF LinesInv
      <3> QED
        BY <1>1, <2>0, <3>2, <3>3, PlaneLinesStay DEF SamePicture
    <2> QED
      BY <2>2, <2>3
  <1>16. SegmentationLines'
    <2>0. SegmentationLines
      BY DEF LinesInv
    <2>1. ~Redraws(calls[1]) /\ \A k : ~HearsLines(calls[1], k)
      BY <1>2 DEF Redraws, Hears, Stirs, HearsLines
    <2>2. HearsLines(f[Segmentation], n) /\ f[Segmentation] \in Todo'
      BY <1>9, <1>10, <1>11, <1>12 DEF HearsLines, Follows
    <2>3. \A k \in SegPlaneSet \ {n} : inters'[k] = inters[k] /\ OnCropLine(k)' = OnCropLine(k)
      <3>1. \A k \in SegPlaneSet \ {n} : inters'[k] = inters[k]
        BY <1>1, PlanesShown DEF LinesInv, SegPlanesArePlanes
      <3> QED
        BY <1>1, <3>1 DEF OnCropLine
    <2>4. DOMAIN view'[Segmentation].lines \subseteq SegPlaneSet
      BY <1>1, <2>0 DEF SegmentationLines
    <2>5. ASSUME NEW k \in DOMAIN view'[Segmentation].lines, k # n
          PROVE  \/ inters'[k] # None /\ view'[Segmentation].lines[k] = OnCropLine(k)'
                 \/ \E c \in Todo' : HearsLines(c, k)
      <3>1. \/ inters[k] # None /\ view[Segmentation].lines[k] = OnCropLine(k)
            \/ \E c \in Todo : HearsLines(c, k)
        BY <1>1, <2>0, <2>5 DEF SegmentationLines
      <3>2. k \in SegPlaneSet \ {n}
        BY <2>4, <2>5
      <3> QED
        BY <1>1, <1>11, <2>1, <2>3, <3>1, <3>2 DEF Follows
    <2>6. ASSUME CanDraw(view'[Segmentation]), view'[Segmentation].zoff = 0,
                 surfs'[Crop] # None,
                 NEW k \in SegPlaneSet \ DOMAIN view'[Segmentation].lines,
                 inters'[k] # None
          PROVE  \E c \in Todo' : Redraws(c) \/ HearsLines(c, k)
      <3>1. CASE k = n
        BY <2>2, <3>1
      <3>2. CASE k # n
        <4>1. \E c \in Todo : Redraws(c) \/ HearsLines(c, k)
          BY <1>1, <2>0, <2>3, <2>6, <3>2 DEF SegmentationLines
        <4> QED
          BY <1>11, <2>1, <4>1 DEF Follows
      <3> QED
        BY <3>1, <3>2
    <2> QED
      BY <2>2, <2>4, <2>5, <2>6 DEF SegmentationLines
  <1>17. LinesInv'
    <2>1. /\ DOMAIN inters' = Planes /\ DOMAIN surfs' = ViewSet \cup {Crop}
          /\ \A v \in ViewSet : IsFcn(view'[v].lines)
      BY <1>1 DEF LinesInv
    <2>2. \A c \in Pending(todo) : LineCall(c)' /\ ~AtHead(c)
      BY <1>3, <1>9 DEF LineCall, AtHead
    <2>3. HeadsOnly(todo)
      BY <1>8, <2>2, NoHeads
    <2> QED
      BY <1>1, <1>5, <1>8, <1>15, <1>16, <2>1, <2>2, <2>3, LinesStay
  <1> QED
    BY <1>14, <1>17

\* A call that is about one view.
Concerns(c, v) ==
    /\ \A u \in ViewSet \ {v} : ~Draws(c, u) /\ ~Hears(c, u, Crop) /\ ~Publishes(c, u)
    /\ v # Segmentation => ~Redraws(c) /\ \A k \in SegPlaneSet : ~HearsLines(c, k)

\* What the other views show, when one changes.
LEMMA OthersShow ==
  ASSUME ViewsInv, ImagesInv, LinesInv, NEW t, Follows(t), NEW v, Concerns(calls[1], v),
         UNCHANGED <<surfs, inters, chains>>,
         v # Segmentation => UNCHANGED <<ptr, vis>>,
         \A u \in Planes \ {v} : plane'[u] = plane[u],
         \A u \in ViewSet \ {v} : view'[u] = view[u]
  PROVE  /\ \A u \in ViewSet \ {v} : Looks(u)'
         /\ \A u \in Planes \ {v} : PlaneLines(u)'
         /\ v # Segmentation => SegmentationLines'
  <1>1. ASSUME NEW u \in ViewSet \ {v} PROVE Looks(u)'
    <2>1. SameLook(view[u], view'[u])
      BY DEF SameLook, SamePicture
    <2>2. SameSource(u)
      BY DEF SameSource, Planes
    <2>3. \A c \in Todo : Draws(c, u) => c \in Todo'
      BY DEF Follows, Concerns
    <2> QED
      BY <2>1, <2>2, <2>3, LooksStays DEF ImagesInv
  <1>2. ASSUME NEW u \in Planes \ {v} PROVE PlaneLines(u)'
    <2>1. u \in ViewSet \ {v} /\ PlaneLines(u)
      BY DEF Planes, LinesInv
    <2>2. \A c \in Todo : Stirs(c, u) \/ Hears(c, u, Crop) \/ Publishes(c, u) => c \in Todo'
      BY <2>1 DEF Follows, Concerns, Draws
    <2> QED
      BY <2>1, <2>2, PlaneLinesStay DEF SamePicture
  <1>3. ASSUME v # Segmentation PROVE SegmentationLines'
    <2>1. Segmentation \in ViewSet \ {v}
      BY <1>3, ViewsAssumption
    <2>2. \A c \in Todo : c \in Todo' \/ ~(Redraws(c) \/ \E k \in SegPlaneSet : HearsLines(c, k))
      BY <1>3 DEF Follows, Concerns
    <2> QED
      BY <1>3, <2>1, <2>2, SegmentationLinesStay DEF LinesInv
  <1> QED
    BY <1>1, <1>2, <1>3

\* A view that changes its own surface draws it, whatever area is shown.
LEMMA OwnSurfaceShows ==
  ViewsInv /\ ImagesInv /\ LinesInv /\ OwnSurfaceChanged => ImagesInv' /\ LinesInv'
  <1> SUFFICES ASSUME ViewsInv, ImagesInv, LinesInv, OwnSurfaceChanged
               PROVE  ImagesInv' /\ LinesInv'
    OBVIOUS
  <1>0. PICK v, s, a, b, todo : /\ v = Head(calls).view /\ s = Head(calls).surf
                                /\ a = Render(v, FALSE) /\ b = Redraw(v, v)
                                /\ todo = <<a, b>>
    OBVIOUS
  <1>1. /\ calls # <<>> /\ Head(calls).call = "onSurfaceChanged" /\ Head(calls).name = v
        /\ UNCHANGED <<shared, ptr, vis, current>>
        /\ view' = [view EXCEPT ![v].surf = s, ![v].area = None]
        /\ calls' = todo \o Tail(calls)
    BY <1>0 DEF OwnSurfaceChanged, Running, window, Then
  <1>2. /\ calls[1] \in Todo /\ calls[1].call = "onSurfaceChanged"
        /\ calls[1].view = v /\ calls[1].name = v /\ v \in ViewSet
    BY <1>0, <1>1, FirstOfTodo DEF CallOK
  <1>3. /\ a.call = "renderVisible" /\ a.view = v
        /\ b.call = "redraw" /\ b.view = v
    BY <1>0 DEF Render, Redraw
  <1>4. ~AtHead(b)
    BY <1>3 DEF AtHead
  <1>5. IsSeq(todo) /\ Pending(todo) = {a, b} /\ HeadsOnly(todo)
    BY <1>0, <1>4, ShortSeq, PendingShort
  <1>6. Follows({a, b})
    BY <1>1, <1>5, Handed
  <1>7. PICK x : x = view'[v]
    OBVIOUS
  <1>8. /\ \A u \in ViewSet \ {v} : view'[u] = view[u]
        /\ x.area = None /\ x.vol = view[v].vol /\ x.zoff = view[v].zoff
        /\ SamePlace(view[v], x) /\ x.lines = view[v].lines
    <2>1. PICK old, y : old = view[v] /\ y = [old EXCEPT !.surf = s, !.area = None]
      OBVIOUS
    <2>2. IsView(old) /\ view' = [view EXCEPT ![v] = y] /\ DOMAIN view = ViewSet
      BY <1>1, <1>2, <2>1 DEF ViewsInv, ViewTypes
    <2>3. /\ y.area = None /\ y.vol = old.vol /\ y.zoff = old.zoff
          /\ SamePlace(old, y) /\ y.lines = old.lines
      BY <2>1, <2>2 DEF IsView
    <2> QED
      BY <1>2, <1>7, <2>1, <2>2, <2>3
  <1>9. Concerns(calls[1], v)
    BY <1>2 DEF Concerns, Draws, Stirs, Hears, Publishes, Redraws, HearsLines
  <1>10. /\ \A u \in ViewSet \ {v} : Looks(u)'
         /\ \A u \in Planes \ {v} : PlaneLines(u)'
         /\ v # Segmentation => SegmentationLines'
    BY <1>1, <1>6, <1>8, <1>9, OthersShow DEF shared
  <1>11. Looks(v)'
    <2>1. a \in Todo'
      BY <1>6 DEF Follows
    <2> QED
      BY <1>3, <1>7, <1>8, <2>1 DEF Looks, WillRender
  <1>12. Crop \notin ViewSet /\ Segmentation \in ViewSet
    BY ViewsAssumption
  <1>13. ImagesInv'
    <2>1. DOMAIN plane' = Planes /\ UNCHANGED current
      BY <1>1 DEF ImagesInv, shared
    <2>2. \A c \in Pending(todo) :
            c.call \notin {"setVolume", "OnVolumeChanged"} /\ ShowsSheet(c)'
      BY <1>3, <1>5 DEF ShowsSheet
    <2>3. ~OnCrop(calls[1]) /\ calls[1].call \notin {"setVolume", "OnVolumeChanged"}
      BY <1>2, <1>12 DEF OnCrop, OnLines
    <2>4. ASSUME NEW u \in ViewSet
          PROVE  /\ Placed(view'[u]) /\ view'[u].vol = view[u].vol
                 /\ Looks(u)'
      BY <1>7, <1>8, <1>10, <1>11 DEF ImagesInv
    <2> QED
      BY <1>1, <1>5, <2>1, <2>2, <2>3, <2>4, ImagesStay
  <1>14. ASSUME v \in Planes PROVE PlaneLines(v)'
    <2>1. PlaneLines(v) /\ ~Publishes(calls[1], v)
      BY <1>2, <1>14 DEF LinesInv, Publishes
    <2>2. (\E c \in Todo : Publishes(c, v)) => \E c \in Todo' : Publishes(c, v)
      BY <1>6, <2>1 DEF Follows
    <2> QED
      BY <1>1, <1>7, <1>8, <2>1, <2>2 DEF PlaneLines, shared
  <1>15. ASSUME v = Segmentation PROVE SegmentationLines'
    <2>1. SegmentationLines /\ \A k : ~HearsLines(calls[1], k)
      BY <1>2 DEF LinesInv, HearsLines
    <2>2. b \in Todo' /\ Redraws(b)
      BY <1>3, <1>6, <1>15 DEF Follows, Redraws
    <2>3. \A k : OnCropLine(k)' = OnCropLine(k)
      BY <1>1 DEF OnCropLine, shared
    <2>4. ASSUME NEW k \in DOMAIN x.lines
          PROVE  \/ inters'[k] # None /\ x.lines[k] = OnCropLine(k)'
                 \/ \E c \in Todo' : HearsLines(c, k)
      <3>1. \/ inters[k] # None /\ view[v].lines[k] = OnCropLine(k)
            \/ \E c \in Todo : HearsLines(c, k)
        BY <1>8, <1>15, <2>1, <2>4 DEF SegmentationLines
      <3> QED
        BY <1>1, <1>6, <1>8, <2>1, <2>3, <3>1 DEF Follows, shared
    <2>5. DOMAIN x.lines \subseteq SegPlaneSet
      BY <1>8, <1>15, <2>1 DEF SegmentationLines
    <2> QED
      BY <1>7, <1>15, <2>2, <2>4, <2>5 DEF SegmentationLines
  <1>16. LinesInv'
    <2>1. DOMAIN inters' = Planes /\ DOMAIN surfs' = ViewSet \cup {Crop}
      BY <1>1 DEF LinesInv, shared
    <2>2. \A c \in Pending(todo) : LineCall(c)'
      BY <1>3, <1>5 DEF LineCall
    <2>3. ASSUME NEW u \in ViewSet PROVE IsFcn(view'[u].lines)
      BY <1>7, <1>8 DEF LinesInv
    <2>4. \A u \in Planes : PlaneLines(u)'
      BY <1>10, <1>14
    <2> QED
      BY <1>1, <1>5, <1>10, <1>15, <2>1, <2>2, <2>3, <2>4, LinesStay
  <1> QED
    BY <1>13, <1>16

\* A view takes the lines with one surface away and draws what is missing.
LEMMA DropRedrawShows ==
  ASSUME ViewsInv, ImagesInv, LinesInv, calls # <<>>, NEW v \in ViewSet, NEW name,
         OwnCall(calls[1], v), calls[1].call # "renderVisible", calls[1].call # "shown",
         ~Stirs(calls[1], v), Hears(calls[1], v, Crop) => name = Crop,
         \A k : HearsLines(calls[1], k) => name = k,
         Redrawn(v, Dropped(v, view[v], name), <<>>),
         UNCHANGED <<shared, ptr, vis, current>>
  PROVE  ImagesInv' /\ LinesInv'
  <1>0. PICK w : w = Dropped(v, view[v], name)
    OBVIOUS
  <1>1. IsView(view[v]) /\ IsFcn(view[v].lines) /\ v # Crop
    BY ViewsAssumption DEF ViewsInv, ViewTypes, LinesInv
  <1>2. /\ IsView(w) /\ SameLook(view[v], w)
        /\ DOMAIN w.lines = IF name = v THEN {} ELSE DOMAIN view[v].lines \ {name}
        /\ \A k \in DOMAIN w.lines : w.lines[k] = view[v].lines[k]
        /\ name # v /\ name \notin DOMAIN view[v].lines => w.lines = view[v].lines
    <2>1. IsDropped(v, view[v], name, w)
      BY <1>0, <1>1, DroppedShows
    <2> QED
      BY <2>1 DEF IsDropped
  <1>3. PICK todo : RedrawnAs(v, w, todo)
    BY <1>0, RedrawnCalls
  <1>4. IsSeq(todo) /\ calls' = todo \o Tail(calls) /\ view'[v] = Lined(v, w)
    BY <1>3 DEF RedrawnAs
  <1>5. PICK x : x = Lined(v, w)
    OBVIOUS
  <1>6. SameLook(w, x)
    <2>1. IsLined(v, w, x)
      BY <1>2, <1>5, LinedShows
    <2> QED
      BY <2>1 DEF IsLined
  <1>7. SameLook(view[v], view'[v])
    BY <1>2, <1>4, <1>5, <1>6 DEF SameLook, SamePicture
  <1>8. Looks(v)'
    <2>1. Follows(Pending(todo))
      BY <1>4, Handed
    <2>2. ~Draws(calls[1], v)
      BY DEF Draws
    <2>3. \A c \in Todo : Draws(c, v) => c \in Todo'
      BY <2>1, <2>2 DEF Follows
    <2>4. SameSource(v)
      BY DEF SameSource, shared
    <2> QED
      BY <1>7, <2>3, <2>4, LooksStays DEF ImagesInv
  <1>9. ASSUME Crop \in DOMAIN w.lines
        PROVE  /\ w.lines = view[v].lines /\ SameLook(view[v], w)
               /\ ~Stirs(calls[1], v) /\ ~Hears(calls[1], v, Crop)
    <2>1. name # v /\ name # Crop
      BY <1>2, <1>9
    <2>2. Crop \in DOMAIN view[v].lines
      BY <1>2, <1>9, <2>1
    <2>3. v \in Planes
      <3>1. v # Segmentation
        BY <2>2, PlanesShown, ViewsAssumption
           DEF LinesInv, SegmentationLines, SegPlanesArePlanes
      <3> QED
        BY <3>1 DEF Planes
    <2>4. DOMAIN view[v].lines \subseteq {Crop}
      BY <2>3 DEF LinesInv, PlaneLines
    <2> QED
      BY <1>2, <2>1, <2>4
  <1>10. \A k \in DOMAIN w.lines : ~HearsLines(calls[1], k)
    BY <1>2
  <1>11. /\ SamePlace(view[v], w) /\ w.vol = view[v].vol /\ w.surf = view[v].surf
         /\ w.zoff = view[v].zoff /\ DOMAIN w.lines \subseteq DOMAIN view[v].lines
    BY <1>2 DEF SameLook, SamePicture
  <1> QED
    BY <1>2, <1>3, <1>8, <1>9, <1>10, <1>11, RedrawnShows

LEMMA OtherSurfaceShows ==
  ViewsInv /\ ImagesInv /\ LinesInv /\ OtherSurfaceChanged => ImagesInv' /\ LinesInv'
  <1> SUFFICES ASSUME ViewsInv, ImagesInv, LinesInv, OtherSurfaceChanged
               PROVE  ImagesInv' /\ LinesInv'
    OBVIOUS
  <1>0. PICK v, n : v = Head(calls).view /\ n = Head(calls).name
    OBVIOUS
  <1>1. /\ calls # <<>> /\ Head(calls).call = "onSurfaceChanged" /\ n # v
        /\ UNCHANGED <<shared, ptr, vis, current>>
        /\ Redrawn(v, Dropped(v, view[v], n), <<>>)
    BY <1>0 DEF OtherSurfaceChanged, Running, window
  <1>2. /\ calls[1].call = "onSurfaceChanged" /\ calls[1].view = v /\ calls[1].name = n
        /\ v \in ViewSet
    BY <1>0, <1>1, FirstOfTodo DEF CallOK
  <1>3. /\ OwnCall(calls[1], v) /\ ~Stirs(calls[1], v)
        /\ (Hears(calls[1], v, Crop) => n = Crop) /\ \A k : ~HearsLines(calls[1], k)
    BY <1>1, <1>2 DEF OwnCall, Stirs, Hears, HearsLines
  <1> QED
    BY <1>1, <1>2, <1>3, DropRedrawShows

LEMMA RedrawShows == ViewsInv /\ ImagesInv /\ LinesInv /\ DoRedraw => ImagesInv' /\ LinesInv'
  <1> SUFFICES ASSUME ViewsInv, ImagesInv, LinesInv, DoRedraw PROVE ImagesInv' /\ LinesInv'
    OBVIOUS
  <1>0. PICK v, n : v = Head(calls).view /\ n = Head(calls).name
    OBVIOUS
  <1>1. /\ calls # <<>> /\ Head(calls).call = "redraw"
        /\ UNCHANGED <<shared, ptr, vis, current>>
        /\ Redrawn(v, Dropped(v, view[v], n), <<>>)
    BY <1>0 DEF DoRedraw, Running, window
  <1>2. calls[1].call = "redraw" /\ calls[1].view = v /\ v \in ViewSet
    BY <1>0, <1>1, FirstOfTodo DEF CallOK
  <1>3. /\ OwnCall(calls[1], v) /\ ~Stirs(calls[1], v)
        /\ ~Hears(calls[1], v, Crop) /\ \A k : ~HearsLines(calls[1], k)
    BY <1>2 DEF OwnCall, Stirs, Hears, HearsLines
  <1> QED
    BY <1>1, <1>2, <1>3, DropRedrawShows

LEMMA IntersectionShows ==
  ViewsInv /\ ImagesInv /\ LinesInv /\ DoIntersectionChanged => ImagesInv' /\ LinesInv'
  <1> SUFFICES ASSUME ViewsInv, ImagesInv, LinesInv, DoIntersectionChanged
               PROVE  ImagesInv' /\ LinesInv'
    OBVIOUS
  <1>0. PICK v, by, key :
            /\ v = Head(calls).view /\ by = Head(calls).by
            /\ key = IF by = v THEN Crop ELSE IF v = Segmentation THEN by ELSE None
    OBVIOUS
  <1>1. /\ calls # <<>> /\ Head(calls).call = "onIntersectionChanged"
        /\ UNCHANGED <<shared, ptr, vis, current>>
        /\ Redrawn(v, Dropped(v, view[v], key), <<>>)
    BY <1>0 DEF DoIntersectionChanged, Running, window
  <1>2. /\ calls[1].call = "onIntersectionChanged" /\ calls[1].view = v /\ v \in ViewSet
        /\ calls[1].by = by /\ calls[1] \in Todo
    BY <1>0, <1>1, FirstOfTodo DEF CallOK
  <1>3. by # Segmentation
    BY <1>2 DEF LinesInv, LineCall, Planes
  <1>4. /\ OwnCall(calls[1], v) /\ ~Stirs(calls[1], v) /\ ~Hears(calls[1], v, Crop)
        /\ \A k : HearsLines(calls[1], k) => key = k
    BY <1>0, <1>2, <1>3 DEF OwnCall, Stirs, Hears, HearsLines
  <1> QED
    BY <1>1, <1>2, <1>4, DropRedrawShows

\* renderVisible returns early when there is nothing to draw, or when the image
\* covers what is visible and need not be drawn anew.
LEMMA SkipRenderShows ==
  ViewsInv /\ ImagesInv /\ LinesInv /\ SkipRender => ImagesInv' /\ LinesInv'
  <1> SUFFICES ASSUME ViewsInv, ImagesInv, LinesInv, SkipRender PROVE ImagesInv' /\ LinesInv'
    OBVIOUS
  <1>0. PICK v, todo : v = Head(calls).view /\ todo = <<>>
    OBVIOUS
  <1>1. /\ calls # <<>> /\ Head(calls).call = "renderVisible"
        /\ ~(CanDraw(view[v]) /\ (Head(calls).force \/ ~Covered(view[v])))
        /\ UNCHANGED <<shared, view, ptr, vis, current>>
        /\ calls' = todo \o Tail(calls)
    BY <1>0 DEF SkipRender, Running, Renders, Then, window
  <1>2. /\ calls[1].call = "renderVisible" /\ calls[1].view = v /\ v \in ViewSet
        /\ CanDraw(view[v]) => ~calls[1].force /\ Covered(view[v])
    BY <1>0, <1>1, FirstOfTodo DEF CallOK
  <1>3. IsSeq(todo) /\ Pending(todo) = {} /\ HeadsOnly(todo)
    BY <1>0, NothingToDo
  <1>4. Follows({})
    BY <1>1, <1>3, Handed
  <1>5. Concerns(calls[1], v)
    BY <1>2 DEF Concerns, Draws, Stirs, Hears, Publishes, Redraws, HearsLines
  <1>6. /\ \A u \in ViewSet \ {v} : Looks(u)'
        /\ \A u \in Planes \ {v} : PlaneLines(u)'
        /\ v # Segmentation => SegmentationLines'
    BY <1>1, <1>4, <1>5, OthersShow DEF shared
  <1>7. CanDraw(view[v]) => ~Stirs(calls[1], v)
    BY <1>2 DEF Stirs
  <1>8. Looks(v)'
    <2>1. Looks(v)
      BY <1>2 DEF ImagesInv
    <2>2. SUFFICES ASSUME CanDraw(view[v])
                   PROVE  \/ Forced(v)'
                          \/ /\ Covered(view[v])
                             /\ view[v].area # None =>
                                    IsCurrent(v, view[v])' \/ (v = Segmentation /\ WillShow')
      BY <1>1 DEF Looks, Reached, Covered, Covers
    <2>3. Forced(v) => Forced(v)'
      BY <1>4, <1>7, <2>2 DEF Forced, Follows
    <2>4. WillShow => WillShow'
      BY <1>2, <1>4 DEF WillShow, Follows
    <2>5. IsCurrent(v, view[v])' <=> IsCurrent(v, view[v])
      <3>1. \A p, at, off : Sheet(p, at, off)' = Sheet(p, at, off)
        BY <1>1, SheetStays DEF shared
      <3>2. Slice(v, view[v])' = Slice(v, view[v])
        BY <1>1 DEF Slice, shared
      <3> QED
        BY <1>1, <3>1, <3>2 DEF IsCurrent
    <2> QED
      BY <1>2, <2>1, <2>2, <2>3, <2>4, <2>5 DEF Looks, Reached
  <1>9. ImagesInv'
    <2>1. DOMAIN plane' = Planes /\ \A u \in ViewSet : Placed(view[u])
      BY <1>1 DEF ImagesInv, shared
    <2>2. calls[1].call \notin {"setVolume", "OnVolumeChanged"} /\ UNCHANGED <<chains, ptr>>
      BY <1>1, <1>2 DEF shared
    <2>3. \A u \in ViewSet : Looks(u)'
      BY <1>6, <1>8
    <2> QED
      BY <1>1, <1>3, <2>1, <2>2, <2>3, ImagesStay
  <1>10. ASSUME v \in Planes PROVE PlaneLines(v)'
    <2>1. PlaneLines(v) /\ ~Hears(calls[1], v, Crop) /\ ~Publishes(calls[1], v)
      BY <1>2, <1>10 DEF LinesInv, Hears, Publishes
    <2>2. Traced(v, view[v])' = Traced(v, view[v])
      BY <1>1 DEF Traced, shared
    <2>3. (\E c \in Todo : Publishes(c, v)) => \E c \in Todo' : Publishes(c, v)
      BY <1>4, <2>1 DEF Follows
    <2>4. CanDraw(view[v]) /\ (\E c \in Todo : Stirs(c, v) \/ Hears(c, v, Crop))
            => \E c \in Todo' : Stirs(c, v) \/ Hears(c, v, Crop)
      BY <1>4, <1>7, <2>1 DEF Follows
    <2> QED
      BY <1>1, <2>1, <2>2, <2>3, <2>4 DEF PlaneLines, shared
  <1>11. ASSUME v = Segmentation PROVE SegmentationLines'
    <2>1. SegmentationLines /\ \A k : ~HearsLines(calls[1], k)
      BY <1>2 DEF LinesInv, HearsLines
    <2>2. CanDraw(view[v]) => ~Redraws(calls[1])
      BY <1>2, <1>7, <1>11 DEF Redraws, Hears
    <2>3. \A k : OnCropLine(k)' = OnCropLine(k)
      BY <1>1 DEF OnCropLine, shared
    <2>4. \A k : (\E c \in Todo : HearsLines(c, k)) => \E c \in Todo' : HearsLines(c, k)
      BY <1>4, <2>1 DEF Follows
    <2>5. \A k : CanDraw(view[v]) /\ (\E c \in Todo : Redraws(c) \/ HearsLines(c, k))
                    => \E c \in Todo' : Redraws(c) \/ HearsLines(c, k)
      BY <1>4, <2>1, <2>2 DEF Follows
    <2> QED
      BY <1>1, <1>11, <2>1, <2>3, <2>4, <2>5 DEF SegmentationLines, shared
  <1>12. LinesInv'
    <2>1. /\ DOMAIN inters' = Planes /\ DOMAIN surfs' = ViewSet \cup {Crop}
          /\ \A u \in ViewSet : IsFcn(view'[u].lines)
      BY <1>1 DEF LinesInv, shared
    <2>2. (\A u \in Planes : PlaneLines(u)') /\ SegmentationLines'
      BY <1>6, <1>10, <1>11
    <2> QED
      BY <1>1, <1>3, <2>1, <2>2, LinesStay
  <1> QED
    BY <1>9, <1>12

\* An image that was just drawn is one of what is looked at.
LEMMA PlaceCovered ==
  ASSUME NEW w, w.place \in Centres \cup {0}, w.area = w.place
  PROVE  w.area # None /\ Covered(w)
  <1>1. w.place \in Int /\ w.place # None
    <2>1. w.place \in Int
      <3>1. w.place \in Centres \/ w.place = 0
        OBVIOUS
      <3>2. w.place \in Centres => w.place \in Int
        BY CentresAssumption, Zenon
      <3>3. w.place = 0 => w.place \in Int
        OBVIOUS
      <3> QED
        BY <3>1, <3>2, <3>3
    <2>2. w.place # None
      BY CentresAssumption, Zenon
    <2> QED
      BY <2>1, <2>2
  <1>2. w.place - w.area = 0
    BY <1>1
  <1>3. 0 \in -Margin..Margin
    BY BoundsAssumption
  <1> QED
    BY <1>1, <1>2, <1>3 DEF Covered, Covers

\* A plane is drawn where it is looked at, and its lines anew.
LEMMA RenderPlaneShows ==
  ViewsInv /\ ImagesInv /\ LinesInv /\ RenderPlane /\ broken' = None
    => ImagesInv' /\ LinesInv'
  <1> SUFFICES ASSUME ViewsInv, ImagesInv, LinesInv, RenderPlane, broken' = None
               PROVE  ImagesInv' /\ LinesInv'
    OBVIOUS
  <1>0. PICK v, old, w, y : /\ v = Head(calls).view /\ old = view[v]
                            /\ w = [old EXCEPT !.area = old.place]
                            /\ y = [w EXCEPT !.image = Slice(v, w), !.lines = NoLines]
    OBVIOUS
  <1>1. /\ calls # <<>> /\ Head(calls).call = "renderVisible" /\ v # Segmentation
        /\ UNCHANGED <<shared, ptr, vis, current>>
        /\ Redrawn(v, y, <<>>)
    <2>1. "level" # None
      BY ReasonsAreSome DEF Reasons
    <2> QED
      BY <1>0, <2>1 DEF RenderPlane, Running, window, Break
  <1>2. /\ calls[1].call = "renderVisible" /\ calls[1].view = v /\ v \in ViewSet
    BY <1>0, <1>1, FirstOfTodo DEF CallOK
  <1>3. IsView(old) /\ Placed(old)
    BY <1>0, <1>2 DEF ViewsInv, ViewTypes, ImagesInv
  <1>4. /\ IsView(w) /\ w.area = old.place /\ w.surf = old.surf /\ w.vol = old.vol
        /\ w.level = old.level /\ w.zoff = old.zoff /\ SamePlace(old, w)
    BY <1>0, <1>3 DEF IsView
  <1>5. /\ IsView(y) /\ y.area = w.area /\ y.surf = w.surf /\ y.vol = w.vol
        /\ y.level = w.level /\ y.zoff = w.zoff /\ SamePlace(w, y)
        /\ y.image = Slice(v, w) /\ y.lines = NoLines
    BY <1>0, <1>4 DEF IsView
  <1>6. PICK todo : RedrawnAs(v, y, todo)
    BY <1>1, <1>2, RedrawnCalls
  <1>7. PICK x : x = Lined(v, y)
    OBVIOUS
  <1>8. x = view'[v] /\ SameLook(y, x)
    <2>1. IsLined(v, y, x)
      BY <1>2, <1>5, <1>7, LinedShows
    <2> QED
      BY <1>6, <1>7, <2>1 DEF IsLined, RedrawnAs
  <1>9. Looks(v)'
    <2>1. x.area # None /\ Covered(x)
      BY <1>3, <1>4, <1>5, <1>8, PlaceCovered DEF SameLook, SamePicture
    <2>2. Slice(v, x)' = Slice(v, w)
      BY <1>1, <1>4, <1>5, <1>8 DEF SameLook, SamePicture, Slice, shared
    <2>3. IsCurrent(v, x)'
      BY <1>1, <1>5, <1>8, <2>2 DEF SameLook, SamePicture, IsCurrent
    <2> QED
      BY <1>8, <2>1, <2>3 DEF Looks, Reached
  <1>10. OwnCall(calls[1], v) /\ \A k : ~HearsLines(calls[1], k)
    BY <1>2 DEF OwnCall, HearsLines
  <1>11. DOMAIN y.lines = {}
    BY <1>5 DEF NoLines
  <1>12. SamePlace(view[v], y) /\ y.vol = view[v].vol /\ y.surf = view[v].surf
         /\ y.zoff = view[v].zoff
    BY <1>0, <1>4, <1>5
  <1> QED
    BY <1>1, <1>2, <1>5, <1>6, <1>9, <1>10, <1>11, <1>12, RedrawnShows

\* The image of the segmentation is of the sheet that was published for it.
LEMMA ShowShows == ViewsInv /\ ImagesInv /\ LinesInv /\ DoShow => ImagesInv' /\ LinesInv'
  <1> SUFFICES ASSUME ViewsInv, ImagesInv, LinesInv, DoShow PROVE ImagesInv' /\ LinesInv'
    OBVIOUS
  <1>0. PICK v, old, i, y :
            /\ v = Head(calls).view /\ old = view[v]
            /\ i = [sheet |-> Head(calls).sheet, vol |-> old.vol, level |-> old.level]
            /\ y = [old EXCEPT !.image = i, !.lines = NoLines]
    OBVIOUS
  <1>1. /\ calls # <<>> /\ Head(calls).call = "shown"
        /\ UNCHANGED <<shared, ptr, vis, current>>
        /\ Redrawn(v, y, <<>>)
    BY <1>0 DEF DoShow, Running, window
  <1>2. /\ calls[1].call = "shown" /\ calls[1].view = v /\ v = Segmentation
        /\ v \in ViewSet /\ calls[1] \in Todo /\ calls[1].sheet = Head(calls).sheet
    BY <1>0, <1>1, FirstOfTodo, ViewsAssumption DEF CallOK
  <1>3. IsView(old)
    BY <1>0, <1>2 DEF ViewsInv, ViewTypes
  <1>4. /\ IsView(y) /\ y.area = old.area /\ y.surf = old.surf /\ y.vol = old.vol
        /\ y.level = old.level /\ y.zoff = old.zoff /\ SamePlace(old, y)
        /\ y.image = i /\ y.lines = NoLines
    BY <1>0, <1>3 DEF IsView
  <1>5. PICK todo : RedrawnAs(v, y, todo)
    BY <1>1, <1>2, RedrawnCalls
  <1>6. PICK x : x = Lined(v, y)
    OBVIOUS
  <1>7. x = view'[v] /\ SameLook(y, x)
    <2>1. IsLined(v, y, x)
      BY <1>2, <1>4, <1>6, LinedShows
    <2> QED
      BY <1>5, <1>6, <2>1 DEF IsLined, RedrawnAs
  <1>8. /\ x.area = old.area /\ x.surf = old.surf /\ x.vol = old.vol
        /\ x.level = old.level /\ x.zoff = old.zoff /\ SamePlace(old, x) /\ x.image = i
    BY <1>4, <1>7 DEF SameLook, SamePicture
  <1>9. Looks(v)'
    <2>1. IsCurrent(v, x)'
      <3>1. calls[1].sheet = Sheet(old.surf, ptr, old.zoff)
        BY <1>0, <1>2 DEF ImagesInv, ShowsSheet
      <3>2. Sheet(x.surf, ptr, x.zoff)' = Sheet(old.surf, ptr, old.zoff)
        BY <1>1, <1>8, SheetStays DEF shared
      <3>3. i = [sheet |-> calls[1].sheet, vol |-> x.vol, level |-> x.level]
        BY <1>0, <1>2, <1>8
      <3> QED
        BY <1>2, <1>8, <3>1, <3>2, <3>3 DEF IsCurrent
    <2>2. Follows(Pending(todo))
      BY <1>1, <1>5, Handed DEF RedrawnAs
    <2>3. ~Stirs(calls[1], v) /\ calls[1].call # "renderVisible"
      BY <1>2 DEF Stirs
    <2>4. (Forced(v) => Forced(v)') /\ (WillRender(v) => WillRender(v)')
      BY <2>2, <2>3 DEF Forced, WillRender, Follows
    <2>5. CanDraw(x) => CanDraw(old)
      BY <1>8 DEF CanDraw
    <2>6. Reached(old) => Reached(x)
      BY <1>8 DEF Reached, Covered, Covers
    <2>7. CanDraw(old) => Forced(v) \/ Reached(old) \/ WillRender(v)
      BY <1>0, <1>2 DEF ImagesInv, Looks
    <2> QED
      BY <1>7, <2>1, <2>4, <2>5, <2>6, <2>7 DEF Looks
  <1>10. OwnCall(calls[1], v) /\ \A k : ~HearsLines(calls[1], k)
    BY <1>2 DEF OwnCall, HearsLines
  <1>11. DOMAIN y.lines = {}
    BY <1>4 DEF NoLines
  <1>12. SamePlace(view[v], y) /\ y.vol = view[v].vol /\ y.surf = view[v].surf
         /\ y.zoff = view[v].zoff
    BY <1>0, <1>4
  <1> QED
    BY <1>1, <1>2, <1>4, <1>5, <1>9, <1>10, <1>11, <1>12, RedrawnShows

\* The part the segmentation shows becomes the crop before its image is read.
LEMMA RenderSegmentationShows ==
  ViewsInv /\ ImagesInv /\ LinesInv /\ RenderSegmentation => ImagesInv' /\ LinesInv'
  <1> SUFFICES ASSUME ViewsInv, ImagesInv, LinesInv, RenderSegmentation
               PROVE  ImagesInv' /\ LinesInv'
    OBVIOUS
  <1>0. PICK v, old, y, s, a, b, todo :
            /\ v = Segmentation /\ old = view[v]
            /\ y = [old EXCEPT !.area = old.place, !.lines = NoLines]
            /\ s = Sheet(old.surf, ptr', old.zoff)
            /\ a = SetSurface(Crop, s) /\ b = Shown(v, s) /\ todo = <<a, b>>
    OBVIOUS
  <1>1. v \in ViewSet /\ v \notin Planes /\ Crop \notin ViewSet
    BY <1>0, ViewsAssumption DEF Planes
  <1>2. /\ calls # <<>> /\ Head(calls).call = "renderVisible" /\ Head(calls).view = v
        /\ UNCHANGED <<shared, current>>
        /\ calls' = todo \o Tail(calls)
    BY <1>0 DEF RenderSegmentation, Running, window, Then
  <1>3. calls[1].call = "renderVisible" /\ calls[1].view = v
    BY <1>2, FirstOfTodo
  <1>4. IsView(old) /\ Placed(old)
    BY <1>0, <1>1 DEF ViewsInv, ViewTypes, ImagesInv
  <1>5. /\ IsView(y) /\ y.area = old.place /\ y.surf = old.surf /\ y.vol = old.vol
        /\ y.zoff = old.zoff /\ SamePlace(old, y) /\ y.lines = NoLines
    BY <1>0, <1>4 DEF IsView
  <1>6. view'[v] = y /\ \A u \in ViewSet \ {v} : view'[u] = view[u]
    <2>1. view' = [view EXCEPT ![v] = y] /\ DOMAIN view = ViewSet
      BY <1>0, <1>1, <1>2 DEF RenderSegmentation, ViewsInv, ViewTypes
    <2> QED
      BY <1>1, <2>1
  <1>7. /\ a.call = "setSurface" /\ a.name = Crop
        /\ b.call = "shown" /\ b.sheet = s
    BY <1>0 DEF SetSurface, Shown
  <1>8. ~AtHead(b)
    BY <1>7 DEF AtHead
  <1>9. IsSeq(todo) /\ Pending(todo) = {a, b} /\ HeadsOnly(todo)
    <2>1. todo = <<a, b>>
      BY <1>0
    <2> QED
      BY <2>1, <1>8, ShortSeq, PendingShort
  <1>10. Follows({a, b})
    BY <1>2, <1>9, Handed
  <1>11. b \in Todo'
    BY <1>10 DEF Follows
  <1>12. Concerns(calls[1], v)
    BY <1>0, <1>3 DEF Concerns, Draws, Stirs, Hears, Publishes
  <1>13. /\ \A u \in ViewSet \ {v} : Looks(u)'
         /\ \A u \in Planes : PlaneLines(u)'
    <2>1. /\ \A u \in ViewSet \ {v} : Looks(u)'
          /\ \A u \in Planes \ {v} : PlaneLines(u)'
      BY <1>0, <1>2, <1>6, <1>10, <1>12, OthersShow DEF shared
    <2> QED
      BY <1>1, <2>1
  <1>14. Looks(v)'
    <2>1. y.area # None /\ Covered(y)
      BY <1>4, <1>5, PlaceCovered
    <2>2. WillShow'
      BY <1>7, <1>11 DEF WillShow
    <2> QED
      BY <1>0, <1>6, <2>1, <2>2 DEF Looks, Reached
  <1>15. ImagesInv'
    <2>1. DOMAIN plane' = Planes /\ UNCHANGED current
      BY <1>2 DEF ImagesInv, shared
    <2>2. b.sheet = Sheet(y.surf, ptr, y.zoff)'
      BY <1>0, <1>2, <1>5, <1>7, SheetStays DEF Sheet, shared
    <2>3. \A c \in Pending(todo) :
            c.call \notin {"setVolume", "OnVolumeChanged"} /\ ShowsSheet(c)'
      BY <1>0, <1>6, <1>7, <1>9, <2>2 DEF ShowsSheet
    <2>4. ~OnCrop(calls[1]) /\ calls[1].call \notin {"setVolume", "OnVolumeChanged"}
      BY <1>3 DEF OnCrop, OnLines
    <2>5. ASSUME NEW u \in ViewSet
          PROVE  /\ Placed(view'[u]) /\ view'[u].vol = view[u].vol
                 /\ Looks(u)'
      <3>1. CASE u = v
        <4>1. view'[u] = y /\ view[u] = old
          BY <1>0, <1>6, <3>1
        <4>2. Placed(y) /\ y.vol = old.vol
          BY <1>4, <1>5
        <4> QED
          BY <1>14, <3>1, <4>1, <4>2
      <3>2. CASE u # v
        BY <1>6, <1>13, <3>2 DEF ImagesInv
      <3> QED
        BY <3>1, <3>2
    <2> QED
      BY <1>2, <1>9, <2>1, <2>3, <2>4, <2>5, ImagesStay
  <1>16. DOMAIN y.lines = {} /\ IsFcn(y.lines)
    BY <1>5 DEF NoLines, IsFcn
  <1>17. SegmentationLines'
    <2>1. Redraws(b)
      BY <1>7 DEF Redraws
    <2> QED
      BY <1>0, <1>6, <1>11, <1>16, <2>1 DEF SegmentationLines
  <1>18. LinesInv'
    <2>1. DOMAIN inters' = Planes /\ DOMAIN surfs' = ViewSet \cup {Crop}
      BY <1>2 DEF LinesInv, shared
    <2>2. \A c \in Pending(todo) : LineCall(c)'
      BY <1>0, <1>6, <1>7, <1>9, <1>16 DEF LineCall
    <2>3. \A u \in ViewSet : IsFcn(view'[u].lines)
      BY <1>6, <1>16 DEF LinesInv
    <2> QED
      BY <1>2, <1>9, <1>13, <1>17, <2>1, <2>2, <2>3, LinesStay
  <1> QED
    BY <1>15, <1>18

\* The viewers are told of the volume that is set: all of them draw anew.
LEMMA SetVolumeShows ==
  ViewsInv /\ ImagesInv /\ LinesInv /\ DoSetVolume => ImagesInv' /\ LinesInv'
  <1> SUFFICES ASSUME ViewsInv, ImagesInv, LinesInv, DoSetVolume PROVE ImagesInv' /\ LinesInv'
    OBVIOUS
  <1>0. PICK x, a, f, first, slots, todo :
            /\ x = Head(calls).vol /\ a = SetSurface(ManualPlane, ManualPlane)
            /\ f = [v \in ViewSet |-> VolumeChanged(v, x)]
            /\ first = <<a>>
            /\ slots = [i \in 1..Len(Views) |-> VolumeChanged(Views[i], x)]
            /\ todo = first \o slots
    OBVIOUS
  <1>1. /\ calls # <<>> /\ Head(calls).call = "setVolume"
        /\ UNCHANGED <<surfs, inters, chains, view, ptr, vis>> /\ current' = x
        /\ plane' = [plane EXCEPT ![ManualPlane].normal = spin]
        /\ calls' = todo \o Tail(calls)
    BY <1>0 DEF DoSetVolume, Running, Then, ToAll
  <1>2. calls[1] \in Todo /\ calls[1].call = "setVolume"
    BY <1>1, FirstOfTodo
  <1>3. a.call = "setSurface" /\ a.name = ManualPlane
    BY <1>0 DEF SetSurface
  <1>4. slots = [i \in 1..Len(Views) |-> f[Views[i]]]
    BY <1>0, ViewsSeq
  <1>5. IsSeq(slots) /\ Pending(slots) = {f[v] : v \in ViewSet}
    BY <1>4, PendingAll
  <1>6. \A c \in Pending(slots) : c.call = "OnVolumeChanged" /\ c.vol = x
    BY <1>0, <1>5 DEF VolumeChanged
  <1>7. \A v \in ViewSet : f[v] \in Pending(slots) /\ f[v].view = v
    BY <1>0, <1>5 DEF VolumeChanged
  <1>8. IsSeq(first) /\ Pending(first) = {a} /\ Len(first) = 1 /\ first[1] = a
    BY <1>0, ShortSeq, PendingShort
  <1>9. /\ IsSeq(todo) /\ Pending(todo) = {a} \cup Pending(slots)
        /\ HeadsOnly(todo)
    <2>1. PICK S : first \in Seq(S) /\ slots \in Seq(S)
      BY <1>5, <1>8, CommonSet
    <2>2. PICK n : n = Len(slots)
      OBVIOUS
    <2>3. todo \in Seq(S) /\ Len(todo) = n + 1 /\ n \in Nat
      BY <1>0, <1>8, <2>1, <2>2
    <2>4. todo[1] = a /\ \A i \in 2..(n + 1) : todo[i] = slots[i - 1]
      BY <1>0, <1>8, <2>1, <2>2, <2>3
    <2>5. \A i \in 2..(n + 1) : i - 1 \in 1..n
      BY <2>3
    <2>6. \A i \in 1..n : i + 1 \in 2..(n + 1) /\ todo[i + 1] = slots[i]
      BY <2>3, <2>4
    <2>7. {todo[i] : i \in 2..(n + 1)} = {slots[i] : i \in 1..n}
      BY <2>4, <2>5, <2>6
    <2>8. 1..(n + 1) = {1} \cup 2..(n + 1)
      BY <2>3
    <2>9. Pending(todo) = {a} \cup Pending(slots)
      BY <2>2, <2>3, <2>4, <2>7, <2>8 DEF Pending
    <2>10. \A i \in 2..(n + 1) : todo[i].call = "OnVolumeChanged"
      BY <1>6, <2>2, <2>4, <2>5 DEF Pending
    <2>11. HeadsOnly(todo)
      BY <2>3, <2>10 DEF HeadsOnly, AtHead
    <2>12. IsSeq(todo)
      BY <2>3 DEF IsSeq
    <2> QED
      BY <2>9, <2>11, <2>12
  <1>10. Follows(Pending(todo))
    BY <1>1, <1>9, Handed
  <1>11. \A v \in ViewSet : f[v] \in Todo' /\ Stirs(f[v], v) /\ Renews(f[v], v)
    BY <1>6, <1>7, <1>9, <1>10 DEF Stirs, Renews, Follows
  <1>12. \A c \in Pending(todo) :
            /\ c.call \in {"setSurface", "OnVolumeChanged"}
            /\ c.call = "setSurface" => c.name = ManualPlane
            /\ c.call = "OnVolumeChanged" => c.vol = x
    BY <1>3, <1>6, <1>9
  <1>13. ImagesInv'
    <2>1. DOMAIN plane' = Planes
      BY <1>1 DEF ImagesInv
    <2>2. VolumesInTurn(calls')
      BY <1>1, <1>9, <1>12, TurnsKept DEF ImagesInv
    <2>3. ASSUME NEW c \in Todo' PROVE HearsCurrent(c)' /\ ShowsSheet(c)'
      <3>1. CASE c \in Pending(todo)
        BY <1>1, <1>12, <3>1 DEF HearsCurrent, ShowsSheet
      <3>2. CASE c \in Later(calls)
        <4>1. ~OnCrop(calls[1])
          BY <1>2 DEF OnCrop, OnLines
        <4>2. c.call # "OnVolumeChanged" /\ c.call # "shown"
          BY <1>1, <1>2, <3>2, <4>1, LaterCalls DEF ImagesInv
        <4> QED
          BY <4>2 DEF HearsCurrent, ShowsSheet
      <3> QED
        BY <1>10, <3>1, <3>2 DEF Follows
    <2>4. ASSUME NEW v \in ViewSet PROVE HasCurrent(v)' /\ Looks(v)'
      BY <1>11 DEF HasCurrent, Looks, Forced
    <2> QED
      BY <1>1, <2>1, <2>2, <2>3, <2>4 DEF ImagesInv
  <1>14. Crop \notin ViewSet /\ Segmentation \in ViewSet /\ ManualPlane \in ViewSet
    <2>1. ManualPlane \in ViewSet
      BY ViewsAssumption DEF ViewSet
    <2> QED
      BY <2>1, ViewsAssumption
  <1>15. ASSUME NEW v \in Planes PROVE PlaneLines(v)'
    <2>1. v \in ViewSet /\ PlaneLines(v) /\ ~Publishes(calls[1], v)
      BY <1>2 DEF Planes, LinesInv, Publishes
    <2>2. (\E c \in Todo : Publishes(c, v)) => \E c \in Todo' : Publishes(c, v)
      BY <1>10, <2>1 DEF Follows
    <2> QED
      BY <1>1, <1>11, <2>1, <2>2 DEF PlaneLines
  <1>16. SegmentationLines'
    <2>1. SegmentationLines /\ \A k : ~HearsLines(calls[1], k)
      BY <1>2 DEF LinesInv, HearsLines
    <2>2. Redraws(f[Segmentation]) /\ f[Segmentation] \in Todo'
      BY <1>11, <1>14 DEF Redraws
    <2>3. \A k : OnCropLine(k)' = OnCropLine(k)
      BY <1>1 DEF OnCropLine
    <2>4. \A k : (\E c \in Todo : HearsLines(c, k)) => \E c \in Todo' : HearsLines(c, k)
      BY <1>10, <2>1 DEF Follows
    <2> QED
      BY <1>1, <2>1, <2>2, <2>3, <2>4 DEF SegmentationLines
  <1>17. LinesInv'
    <2>1. /\ DOMAIN inters' = Planes /\ DOMAIN surfs' = ViewSet \cup {Crop}
          /\ \A u \in ViewSet : IsFcn(view'[u].lines)
      BY <1>1 DEF LinesInv
    <2>2. \A c \in Pending(todo) : LineCall(c)'
      BY <1>12, <1>14 DEF LineCall
    <2> QED
      BY <1>1, <1>9, <1>15, <1>16, <2>1, <2>2, LinesStay
  <1> QED
    BY <1>13, <1>17

\* A view of the same picture at another place looks as it should, if it will be
\* drawn.
LEMMA MovedLooks ==
  ASSUME NEW v \in ViewSet, Looks(v), SamePicture(view[v], view'[v]),
         view'[v].zoff = view[v].zoff, SameSource(v), WillRender(v)',
         \A c \in Todo : Draws(c, v) => c \in Todo'
  PROVE  Looks(v)'
  <1>1. PICK w, x : w = view[v] /\ x = view'[v]
    OBVIOUS
  <1>2. /\ x.surf = w.surf /\ x.vol = w.vol /\ x.level = w.level /\ x.area = w.area
        /\ x.image = w.image /\ x.zoff = w.zoff
    BY <1>1 DEF SamePicture
  <1>3. Forced(v) => Forced(v)'
    BY DEF Forced, Draws
  <1>4. v = Segmentation /\ WillShow => WillShow'
    BY DEF WillShow, Draws
  <1>5. CanDraw(x) => CanDraw(w)
    BY <1>2 DEF CanDraw
  <1>6. IsCurrent(v, w) => IsCurrent(v, x)'
    <2>1. CASE v # Segmentation
      BY <1>1, <1>2, <2>1 DEF IsCurrent, Slice, SameSource
    <2>2. CASE v = Segmentation
      <3>1. Sheet(x.surf, ptr, x.zoff)' = Sheet(w.surf, ptr, w.zoff)
        BY <1>1, <1>2, <2>2, SheetStays DEF SameSource
      <3> QED
        BY <1>1, <1>2, <2>2, <3>1 DEF IsCurrent
    <2> QED
      BY <2>1, <2>2
  <1> QED
    BY <1>1, <1>2, <1>3, <1>4, <1>5, <1>6 DEF Looks

\* A view whose scroll bar has another value.
LEMMA BarGiven ==
  ASSUME ViewTypes, NEW v \in ViewSet, NEW p, view' = [view EXCEPT ![v].bar = p]
  PROVE  /\ \A u \in ViewSet \ {v} : view'[u] = view[u]
         /\ SamePicture(view[v], view'[v]) /\ view'[v].zoff = view[v].zoff
         /\ view'[v].place = view[v].place /\ view'[v].from = view[v].from
         /\ view'[v].bar = p /\ view'[v].lines = view[v].lines
  <1>1. PICK old, y : old = view[v] /\ y = [old EXCEPT !.bar = p]
    OBVIOUS
  <1>2. IsView(old) /\ view' = [view EXCEPT ![v] = y] /\ DOMAIN view = ViewSet
    BY <1>1 DEF ViewTypes
  <1>3. /\ SamePicture(old, y) /\ y.zoff = old.zoff /\ y.place = old.place
        /\ y.from = old.from /\ y.bar = p /\ y.lines = old.lines
    BY <1>1, <1>2 DEF IsView, SamePicture
  <1> QED
    BY <1>1, <1>2, <1>3

\* The view of a plane is scrolled back to the plane's origin, and draws what it has
\* not.
LEMMA FocusShows == ViewsInv /\ ImagesInv /\ LinesInv /\ DoFocusChanged => ImagesInv' /\ LinesInv'
  <1> SUFFICES ASSUME ViewsInv, ImagesInv, LinesInv, DoFocusChanged
               PROVE  ImagesInv' /\ LinesInv'
    OBVIOUS
  <1>0. PICK v, a, b, c, p : /\ v = Head(calls).view /\ p = view[v].bar
                             /\ a = Render(v, FALSE) /\ b = MovePlane(v)
                             /\ c = ScrollContentsBy(v)
    OBVIOUS
  <1>1. /\ calls # <<>> /\ Head(calls).call = "onPOIChanged"
        /\ UNCHANGED <<shared, ptr, vis, current>>
    BY DEF DoFocusChanged, Running, window
  <1>2. calls[1].call = "onPOIChanged" /\ calls[1].view = v /\ v \in ViewSet
    BY <1>0, <1>1, FirstOfTodo DEF CallOK
  <1>3. Idle(calls[1])
    BY <1>2 DEF Idle, Draws, Stirs, Hears, Publishes, Redraws, HearsLines
  <1>4. CASE v = Segmentation \/ view[v].surf = None
    <2>1. PICK todo : todo = <<>>
      OBVIOUS
    <2>2. UNCHANGED view /\ calls' = todo \o Tail(calls)
      BY <1>0, <1>4, <2>1 DEF DoFocusChanged, Then
    <2>3. IsSeq(todo) /\ Pending(todo) = {}
      BY <2>1, NothingToDo
    <2> QED
      BY <1>1, <1>2, <1>3, <2>2, <2>3, SameViewLooks, IdleShows
  <1>5. CASE ~(v = Segmentation \/ view[v].surf = None)
    <2>0. v \in Planes /\ v # Segmentation
      BY <1>2, <1>5 DEF Planes
    <2>1. view' = [view EXCEPT ![v].bar = 0]
      BY <1>0, <1>5 DEF DoFocusChanged
    <2>2. PICK x : x = view'[v]
      OBVIOUS
    <2>3. /\ \A u \in ViewSet \ {v} : view'[u] = view[u]
          /\ SamePicture(view[v], x) /\ x.zoff = view[v].zoff
          /\ x.place = view[v].place /\ x.from = view[v].from
          /\ x.bar = 0 /\ x.lines = view[v].lines
      BY <1>2, <2>1, <2>2, BarGiven DEF ViewsInv
    <2>4. PICK todo : todo = IF p = 0 THEN <<b>> ELSE <<a, c, b>>
      OBVIOUS
    <2>5. calls' = todo \o Tail(calls)
      <3>1. ScrollCalls(v) \o <<b>> = <<a, c, b>>
        BY <1>0, Prefixed DEF ScrollCalls
      <3> QED
        BY <1>0, <1>5, <2>4, <3>1 DEF DoFocusChanged, Then
    <2>6. /\ a.call = "renderVisible" /\ a.view = v
          /\ b.call = "movePlane" /\ b.view = v
          /\ c.call = "scrollContentsBy" /\ c.view = v
      BY <1>0 DEF Render, MovePlane, ScrollContentsBy
    <2>7. /\ IsSeq(todo) /\ HeadsOnly(todo)
          /\ Pending(todo) = IF p = 0 THEN {b} ELSE {a, b, c}
      <3>1. IsSeq(todo)
        <4>1. Plain(a) /\ Plain(b) /\ Plain(c)
          BY <1>2, <2>6 DEF Plain, CallOK
        <4> QED
          BY <2>4, <4>1, FreshShort DEF Fresh
      <3>2. Pending(todo) = IF p = 0 THEN {b} ELSE {a, b, c}
        <4>1. Pending(<<b>>) = {b}
          BY PendingShort
        <4>2. Pending(<<a, c, b>>) = {a, c, b}
          BY PendingThree
        <4> QED
          BY <2>4, <4>1, <4>2
      <3>3. \A d \in Pending(todo) : ~AtHead(d)
        BY <2>6, <3>2 DEF AtHead
      <3> QED
        BY <3>1, <3>2, <3>3, NoHeads
    <2>8. Follows(Pending(todo))
      BY <1>1, <2>5, <2>7, Handed
    <2>9. Concerns(calls[1], v)
      BY <1>3 DEF Concerns, Idle
    <2>10. /\ \A u \in ViewSet \ {v} : Looks(u)'
           /\ \A u \in Planes \ {v} : PlaneLines(u)'
           /\ SegmentationLines'
      BY <1>1, <2>0, <2>3, <2>8, <2>9, OthersShow DEF shared
    <2>11. Looks(v)'
      <3>1. SameSource(v)
        BY <1>1 DEF SameSource, shared
      <3>2. \A d \in Todo : Draws(d, v) => d \in Todo'
        BY <1>2, <1>3, <2>8 DEF Follows, Idle
      <3>3. CASE p = 0
        <4>1. SameLook(view[v], view'[v])
          BY <1>0, <2>2, <2>3, <3>3 DEF SameLook
        <4> QED
          BY <1>2, <3>1, <3>2, <4>1, LooksStays DEF ImagesInv
      <3>4. CASE p # 0
        <4>1. a \in Todo'
          BY <2>7, <2>8, <3>4 DEF Follows
        <4>2. WillRender(v)'
          BY <2>6, <4>1 DEF WillRender
        <4> QED
          BY <1>2, <2>2, <2>3, <3>1, <3>2, <4>2, MovedLooks DEF ImagesInv
      <3> QED
        BY <3>3, <3>4
    <2>12. PlaneLines(v)'
      <3>1. \A d \in Todo : Stirs(d, v) \/ Hears(d, v, Crop) \/ Publishes(d, v) => d \in Todo'
        BY <1>2, <1>3, <2>8 DEF Follows, Idle, Draws
      <3> QED
        BY <1>1, <2>0, <2>2, <2>3, <3>1, PlaneLinesStay DEF LinesInv, shared
    <2>13. ImagesInv'
      <3>1. DOMAIN plane' = Planes /\ UNCHANGED current
        BY <1>1 DEF ImagesInv, shared
      <3>2. \A d \in Pending(todo) :
              d.call \notin {"setVolume", "OnVolumeChanged"} /\ ShowsSheet(d)'
        BY <2>6, <2>7 DEF ShowsSheet
      <3>3. ~OnCrop(calls[1]) /\ calls[1].call \notin {"setVolume", "OnVolumeChanged"}
        BY <1>2 DEF OnCrop, OnLines
      <3>4. ASSUME NEW u \in ViewSet
            PROVE  /\ Placed(view'[u]) /\ view'[u].vol = view[u].vol
                   /\ Looks(u)'
        BY <2>2, <2>3, <2>10, <2>11 DEF ImagesInv, SamePicture
      <3> QED
        BY <1>1, <2>5, <2>7, <3>1, <3>2, <3>3, <3>4, ImagesStay
    <2>14. LinesInv'
      <3>1. DOMAIN inters' = Planes /\ DOMAIN surfs' = ViewSet \cup {Crop}
        BY <1>1 DEF LinesInv, shared
      <3>2. \A d \in Pending(todo) : LineCall(d)'
        BY <2>0, <2>6, <2>7 DEF LineCall
      <3>3. \A u \in ViewSet : IsFcn(view'[u].lines)
        BY <2>2, <2>3 DEF LinesInv
      <3>4. \A u \in Planes : PlaneLines(u)'
        BY <2>10, <2>12
      <3> QED
        BY <1>1, <2>5, <2>7, <2>10, <3>1, <3>2, <3>3, <3>4, LinesStay
    <2> QED
      BY <2>13, <2>14
  <1> QED
    BY <1>4, <1>5

\* The view is moved: what its image reached over is what it showed before.
LEMMA ScrollContentsShows ==
  ViewsInv /\ ImagesInv /\ LinesInv /\ DoScrollContentsBy => ImagesInv' /\ LinesInv'
  <1> SUFFICES ASSUME ViewsInv, ImagesInv, LinesInv, DoScrollContentsBy
               PROVE  ImagesInv' /\ LinesInv'
    OBVIOUS
  <1>0. PICK v, old, todo : v = Head(calls).view /\ old = view[v] /\ todo = <<>>
    OBVIOUS
  <1>1. /\ calls # <<>> /\ Head(calls).call = "scrollContentsBy"
        /\ UNCHANGED <<shared, ptr, vis, current>> /\ calls' = todo \o Tail(calls)
    BY <1>0 DEF DoScrollContentsBy, Running, Then, window
  <1>2. calls[1].call = "scrollContentsBy" /\ calls[1].view = v /\ v \in ViewSet
    BY <1>0, <1>1, FirstOfTodo DEF CallOK
  <1>3. Idle(calls[1])
    BY <1>2 DEF Idle, Draws, Stirs, Hears, Publishes, Redraws, HearsLines
  <1>4. IsSeq(todo) /\ Pending(todo) = {} /\ HeadsOnly(todo)
    BY <1>0, NothingToDo
  <1>5. CASE old.bar = old.place
    <2>1. UNCHANGED view
      BY <1>0, <1>5 DEF DoScrollContentsBy
    <2> QED
      BY <1>1, <1>2, <1>3, <1>4, <2>1, SameViewLooks, IdleShows
  <1>6. CASE old.bar # old.place
    <2>1. PICK w : w = [old EXCEPT !.place = old.bar, !.from = old.place]
      OBVIOUS
    <2>2. IsView(old) /\ view' = [view EXCEPT ![v] = w] /\ DOMAIN view = ViewSet
      BY <1>0, <1>2, <1>6, <2>1 DEF DoScrollContentsBy, ViewsInv, ViewTypes
    <2>3. /\ SamePicture(old, w) /\ w.zoff = old.zoff /\ w.lines = old.lines
          /\ w.place = old.bar /\ w.bar = old.bar /\ w.from = old.place
      BY <2>1, <2>2 DEF IsView, SamePicture
    <2>4. view'[v] = w /\ \A u \in ViewSet \ {v} : view'[u] = view[u]
      BY <1>2, <2>2
    <2>5. Follows({})
      BY <1>1, <1>4, Handed
    <2>6. Concerns(calls[1], v)
      BY <1>3 DEF Concerns, Idle
    <2>7. /\ \A u \in ViewSet \ {v} : Looks(u)'
          /\ \A u \in Planes \ {v} : PlaneLines(u)'
          /\ v # Segmentation => SegmentationLines'
      BY <1>1, <2>4, <2>5, <2>6, OthersShow DEF shared
    <2>8. Looks(v)'
      <3>1. Looks(v) /\ (Forced(v) => Forced(v)') /\ (WillRender(v) => WillRender(v)')
            /\ (v = Segmentation /\ WillShow => WillShow')
        BY <1>2, <1>3, <2>5
           DEF ImagesInv, Forced, WillRender, WillShow, Follows, Idle, Draws
      <3>2. Reached(old) => Reached(w)
        BY <1>6, <2>3 DEF Reached, Covered, Covers, SamePicture
      <3>3. w.area = old.area /\ (CanDraw(w) => CanDraw(old))
        BY <2>3 DEF SamePicture, CanDraw
      <3>4. IsCurrent(v, old) => IsCurrent(v, w)'
        <4>1. CASE v # Segmentation
          BY <1>1, <2>3, <4>1 DEF IsCurrent, Slice, SamePicture, shared
        <4>2. CASE v = Segmentation
          <5>1. Sheet(w.surf, ptr, w.zoff)' = Sheet(old.surf, ptr, old.zoff)
            BY <1>1, <2>3, SheetStays DEF SamePicture, shared
          <5> QED
            BY <1>1, <2>3, <4>2, <5>1 DEF IsCurrent, SamePicture
        <4> QED
          BY <4>1, <4>2
      <3> QED
        BY <1>0, <2>4, <3>1, <3>2, <3>3, <3>4 DEF Looks
    <2>9. v \in Planes => PlaneLines(v)'
      <3>1. \A c \in Todo : Stirs(c, v) \/ Hears(c, v, Crop) \/ Publishes(c, v) => c \in Todo'
        BY <1>2, <1>3, <2>5 DEF Follows, Idle, Draws
      <3> QED
        BY <1>0, <1>1, <2>3, <2>4, <3>1, PlaneLinesStay DEF LinesInv, shared
    <2>10. v = Segmentation => SegmentationLines'
      <3>1. \A c \in Todo :
                c \in Todo' \/ ~(Redraws(c) \/ \E k \in SegPlaneSet : HearsLines(c, k))
        BY <1>3, <2>5 DEF Follows, Idle
      <3> QED
        BY <1>0, <1>1, <2>3, <2>4, <3>1, SegmentationLinesStay
           DEF LinesInv, SamePicture, shared
    <2>11. ImagesInv'
      <3>1. DOMAIN plane' = Planes /\ UNCHANGED current
        BY <1>1 DEF ImagesInv, shared
      <3>2. \A c \in Pending(todo) :
              c.call \notin {"setVolume", "OnVolumeChanged"} /\ ShowsSheet(c)'
        BY <1>4
      <3>3. ~OnCrop(calls[1]) /\ calls[1].call \notin {"setVolume", "OnVolumeChanged"}
        BY <1>2 DEF OnCrop, OnLines
      <3>4. ASSUME NEW u \in ViewSet
            PROVE  /\ Placed(view'[u]) /\ view'[u].vol = view[u].vol
                   /\ Looks(u)'
        BY <1>0, <2>3, <2>4, <2>7, <2>8 DEF ImagesInv, SamePicture
      <3> QED
        BY <1>1, <1>4, <3>1, <3>2, <3>3, <3>4, ImagesStay
    <2>12. LinesInv'
      <3>1. DOMAIN inters' = Planes /\ DOMAIN surfs' = ViewSet \cup {Crop}
        BY <1>1 DEF LinesInv, shared
      <3>2. \A c \in Pending(todo) : LineCall(c)'
        BY <1>4
      <3>3. \A u \in ViewSet : IsFcn(view'[u].lines)
        BY <1>0, <2>3, <2>4 DEF LinesInv
      <3>4. \A u \in Planes : PlaneLines(u)'
        BY <2>7, <2>9
      <3>5. SegmentationLines'
        BY <2>7, <2>10
      <3> QED
        BY <1>1, <1>4, <3>1, <3>2, <3>3, <3>4, <3>5, LinesStay
    <2> QED
      BY <2>11, <2>12
  <1> QED
    BY <1>5, <1>6

\* A plane that is moved is set, so that its view draws it.
LEMMA MovePlaneShows == ViewsInv /\ ImagesInv /\ LinesInv /\ DoMovePlane => ImagesInv' /\ LinesInv'
  <1> SUFFICES ASSUME ViewsInv, ImagesInv, LinesInv, DoMovePlane
               PROVE  ImagesInv' /\ LinesInv'
    OBVIOUS
  <1>0. PICK v, a : v = Head(calls).view /\ a = SetSurface(v, v)
    OBVIOUS
  <1>1. /\ calls # <<>> /\ Head(calls).call = "movePlane"
        /\ UNCHANGED <<surfs, inters, chains, view, ptr, vis, current>>
    BY DEF DoMovePlane, Running, window
  <1>2. calls[1].call = "movePlane" /\ calls[1].view = v /\ calls[1] \in Todo
    BY <1>0, <1>1, FirstOfTodo
  <1>3. v \in Planes /\ v \in ViewSet /\ v # Segmentation /\ v # Crop
    <2>1. v \in Planes
      BY <1>2 DEF LinesInv, LineCall
    <2> QED
      BY <2>1, ViewsAssumption DEF Planes
  <1>4. Idle(calls[1])
    BY <1>2 DEF Idle, Draws, Stirs, Hears, Publishes, Redraws, HearsLines
  <1>5. CASE plane[v].origin = focus
    <2>1. PICK todo : todo = <<>>
      OBVIOUS
    <2>2. UNCHANGED shared /\ calls' = todo \o Tail(calls)
      BY <1>0, <1>1, <1>5, <2>1 DEF DoMovePlane, Then, shared
    <2>3. IsSeq(todo) /\ Pending(todo) = {}
      BY <2>1, NothingToDo
    <2> QED
      BY <1>1, <1>2, <1>4, <2>2, <2>3, SameViewLooks, IdleShows
  <1>6. CASE plane[v].origin # focus
    <2>1. plane' = [plane EXCEPT ![v].origin = focus]
      BY <1>0, <1>6 DEF DoMovePlane
    <2>2. DOMAIN plane' = Planes /\ \A u \in Planes \ {v} : plane'[u] = plane[u]
      BY <2>1 DEF ImagesInv
    <2>3. PICK todo : todo = <<a>>
      OBVIOUS
    <2>4. calls' = todo \o Tail(calls)
      BY <1>0, <1>6, <2>3 DEF DoMovePlane, Then
    <2>5. a.call = "setSurface" /\ a.name = v
      BY <1>0 DEF SetSurface
    <2>6. IsSeq(todo) /\ HeadsOnly(todo) /\ Pending(todo) = {a}
      BY <2>3, ShortSeq, PendingShort
    <2>7. Follows({a})
      BY <1>1, <2>4, <2>6, Handed
    <2>8. Concerns(calls[1], v)
      BY <1>4 DEF Concerns, Idle
    <2>9. /\ \A u \in ViewSet \ {v} : Looks(u)'
          /\ \A u \in Planes \ {v} : PlaneLines(u)'
          /\ SegmentationLines'
      BY <1>1, <1>3, <2>2, <2>7, <2>8, OthersShow
    <2>10. a \in Todo' /\ Stirs(a, v)
      BY <2>5, <2>7 DEF Follows, Stirs
    <2>11. Looks(v)'
      BY <2>10 DEF Looks, Forced
    <2>12. PlaneLines(v)'
      <3>1. PlaneLines(v)
        BY <1>3 DEF LinesInv
      <3>2. (\E c \in Todo : Publishes(c, v)) => \E c \in Todo' : Publishes(c, v)
        BY <1>3, <1>4, <2>7 DEF Follows, Idle
      <3> QED
        BY <1>1, <2>10, <3>1, <3>2 DEF PlaneLines
    <2>13. ImagesInv'
      <3>1. \A c \in Pending(todo) :
              c.call \notin {"setVolume", "OnVolumeChanged"} /\ ShowsSheet(c)'
        BY <2>5, <2>6 DEF ShowsSheet
      <3>2. ~OnCrop(calls[1]) /\ calls[1].call \notin {"setVolume", "OnVolumeChanged"}
        BY <1>2 DEF OnCrop, OnLines
      <3>3. ASSUME NEW u \in ViewSet
            PROVE  /\ Placed(view'[u]) /\ view'[u].vol = view[u].vol
                   /\ Looks(u)'
        BY <1>1, <2>9, <2>11 DEF ImagesInv
      <3> QED
        BY <1>1, <2>2, <2>4, <2>6, <3>1, <3>2, <3>3, ImagesStay
    <2>14. LinesInv'
      <3>1. DOMAIN inters' = Planes /\ DOMAIN surfs' = ViewSet \cup {Crop}
        BY <1>1 DEF LinesInv
      <3>2. \A c \in Pending(todo) : LineCall(c)'
        BY <1>3, <2>5, <2>6 DEF LineCall
      <3>3. \A u \in ViewSet : IsFcn(view'[u].lines)
        BY <1>1 DEF LinesInv
      <3>4. \A u \in Planes : PlaneLines(u)'
        BY <2>9, <2>12
      <3> QED
        BY <1>1, <2>4, <2>6, <2>9, <3>1, <3>2, <3>3, <3>4, LinesStay
    <2> QED
      BY <2>13, <2>14
  <1> QED
    BY <1>5, <1>6

\* A viewer takes the volume it is told of, and draws it whatever area is shown.
LEMMA VolumeShows == ViewsInv /\ ImagesInv /\ LinesInv /\ DoVolumeChanged => ImagesInv' /\ LinesInv'
  <1> SUFFICES ASSUME ViewsInv, ImagesInv, LinesInv, DoVolumeChanged
               PROVE  ImagesInv' /\ LinesInv'
    OBVIOUS
  <1>0. PICK v, a, t : v = Head(calls).view /\ a = Render(v, TRUE) /\ t = Head(calls).vol
    OBVIOUS
  <1>1. /\ calls # <<>> /\ Head(calls).call = "OnVolumeChanged"
        /\ UNCHANGED <<shared, ptr, vis, current>>
        /\ view' = [view EXCEPT ![v].vol = t]
    BY <1>0 DEF DoVolumeChanged, Running, window
  <1>2. /\ calls[1].call = "OnVolumeChanged" /\ calls[1].view = v /\ v \in ViewSet
        /\ calls[1].vol = t /\ calls[1] \in Todo
    BY <1>0, <1>1, FirstOfTodo DEF CallOK
  <1>3. t = current
    BY <1>2 DEF ImagesInv, HearsCurrent
  <1>4. PICK x : x = view'[v]
    OBVIOUS
  <1>5. /\ \A u \in ViewSet \ {v} : view'[u] = view[u]
        /\ x.vol = t /\ x.surf = view[v].surf /\ x.zoff = view[v].zoff
        /\ SamePlace(view[v], x) /\ x.lines = view[v].lines
    <2>1. PICK old, y : old = view[v] /\ y = [old EXCEPT !.vol = t]
      OBVIOUS
    <2>2. IsView(old) /\ view' = [view EXCEPT ![v] = y] /\ DOMAIN view = ViewSet
      BY <1>1, <1>2, <2>1 DEF ViewsInv, ViewTypes
    <2>3. /\ y.vol = t /\ y.surf = old.surf /\ y.zoff = old.zoff /\ SamePlace(old, y)
          /\ y.lines = old.lines
      BY <2>1, <2>2 DEF IsView
    <2> QED
      BY <1>2, <1>4, <2>1, <2>2, <2>3
  <1>6. PICK todo : todo = <<a>>
    OBVIOUS
  <1>7. calls' = todo \o Tail(calls)
    BY <1>0, <1>6 DEF DoVolumeChanged, Then
  <1>8. a.call = "renderVisible" /\ a.view = v /\ a.force
    BY <1>0 DEF Render
  <1>9. IsSeq(todo) /\ HeadsOnly(todo) /\ Pending(todo) = {a}
    BY <1>6, ShortSeq, PendingShort
  <1>10. Follows({a})
    BY <1>1, <1>7, <1>9, Handed
  <1>11. Concerns(calls[1], v)
    BY <1>2 DEF Concerns, Draws, Stirs, Hears, Publishes, Redraws, HearsLines
  <1>12. /\ \A u \in ViewSet \ {v} : Looks(u)'
         /\ \A u \in Planes \ {v} : PlaneLines(u)'
         /\ v # Segmentation => SegmentationLines'
    BY <1>1, <1>5, <1>10, <1>11, OthersShow DEF shared
  <1>13. a \in Todo' /\ Stirs(a, v)
    BY <1>8, <1>10 DEF Follows, Stirs
  <1>14. Looks(v)'
    BY <1>13 DEF Looks, Forced
  <1>15. ImagesInv'
    <2>1. DOMAIN plane' = Planes
      BY <1>1 DEF ImagesInv, shared
    <2>2. VolumesInTurn(calls')
      BY <1>1, <1>7, <1>8, <1>9, TurnsKept DEF ImagesInv
    <2>3. ASSUME NEW c \in Todo' PROVE HearsCurrent(c)' /\ ShowsSheet(c)'
      <3>1. CASE c = a
        BY <1>8, <3>1 DEF HearsCurrent, ShowsSheet
      <3>2. CASE c \in Later(calls)
        <4>1. ~OnCrop(calls[1])
          BY <1>2 DEF OnCrop, OnLines
        <4>2. c \in Todo /\ c.call # "shown"
          BY <1>1, <3>2, <4>1, LaterCalls
        <4>3. HearsCurrent(c)
          BY <4>2 DEF ImagesInv
        <4> QED
          BY <1>1, <4>2, <4>3 DEF HearsCurrent, ShowsSheet
      <3> QED
        BY <1>10, <3>1, <3>2 DEF Follows
    <2>4. ASSUME NEW u \in ViewSet PROVE HasCurrent(u)'
      <3>1. CASE u = v
        BY <1>1, <1>3, <1>4, <1>5, <3>1 DEF HasCurrent
      <3>2. CASE u # v
        <4>1. ~Renews(calls[1], u) /\ view'[u] = view[u]
          BY <1>2, <1>5, <3>2 DEF Renews
        <4>2. HasCurrent(u)
          BY DEF ImagesInv
        <4> QED
          BY <1>1, <1>10, <4>1, <4>2 DEF HasCurrent, Follows
      <3> QED
        BY <3>1, <3>2
    <2>5. \A u \in ViewSet : Placed(view'[u]) /\ Looks(u)'
      BY <1>4, <1>5, <1>12, <1>14 DEF ImagesInv
    <2> QED
      BY <2>1, <2>2, <2>3, <2>4, <2>5 DEF ImagesInv
  <1>16. ASSUME v \in Planes PROVE PlaneLines(v)'
    <2>1. PlaneLines(v) /\ ~Publishes(calls[1], v)
      BY <1>2, <1>16 DEF LinesInv, Publishes
    <2>2. (\E c \in Todo : Publishes(c, v)) => \E c \in Todo' : Publishes(c, v)
      BY <1>10, <2>1 DEF Follows
    <2> QED
      BY <1>1, <1>4, <1>5, <1>13, <2>1, <2>2 DEF PlaneLines, shared
  <1>17. ASSUME v = Segmentation PROVE SegmentationLines'
    <2>1. SegmentationLines /\ \A k : ~HearsLines(calls[1], k)
      BY <1>2 DEF LinesInv, HearsLines
    <2>2. a \in Todo' /\ Redraws(a)
      BY <1>13, <1>17 DEF Redraws
    <2>3. \A k : OnCropLine(k)' = OnCropLine(k)
      BY <1>1 DEF OnCropLine, shared
    <2>4. ASSUME NEW k \in DOMAIN x.lines
          PROVE  \/ inters'[k] # None /\ x.lines[k] = OnCropLine(k)'
                 \/ \E c \in Todo' : HearsLines(c, k)
      <3>1. \/ inters[k] # None /\ view[v].lines[k] = OnCropLine(k)
            \/ \E c \in Todo : HearsLines(c, k)
        BY <1>5, <1>17, <2>1, <2>4 DEF SegmentationLines
      <3> QED
        BY <1>1, <1>5, <1>10, <2>1, <2>3, <3>1 DEF Follows, shared
    <2>5. DOMAIN x.lines \subseteq SegPlaneSet
      BY <1>5, <1>17, <2>1 DEF SegmentationLines
    <2> QED
      BY <1>4, <1>17, <2>2, <2>4, <2>5 DEF SegmentationLines
  <1>18. LinesInv'
    <2>1. DOMAIN inters' = Planes /\ DOMAIN surfs' = ViewSet \cup {Crop}
      BY <1>1 DEF LinesInv, shared
    <2>2. \A c \in Pending(todo) : LineCall(c)'
      BY <1>8, <1>9 DEF LineCall
    <2>3. \A u \in ViewSet : IsFcn(view'[u].lines)
      BY <1>4, <1>5 DEF LinesInv
    <2>4. \A u \in Planes : PlaneLines(u)'
      BY <1>12, <1>16
    <2> QED
      BY <1>1, <1>7, <1>9, <1>12, <1>17, <2>1, <2>2, <2>3, <2>4, LinesStay
  <1> QED
    BY <1>15, <1>18

-----------------------------------------------------------------------------
(***************************************************************************)
(* What is shown after the user has acted.                                 *)
(***************************************************************************)
\* The calls that the user's actions begin with.
StartCall(c) ==
    /\ c.call \in {"setVolume", "clearTree", "setSurface", "onOpChainSelected",
                   "setPOI", "renderVisible", "scrollContentsBy", "redraw"}
    /\ c.call = "setSurface" => c.name # Crop
Starts(q) == \A c \in Pending(q) : StartCall(c)

LEMMA StartCalls ==
  /\ \A n, s : n # Crop => StartCall(SetSurface(n, s))
  /\ \A v, n : StartCall(Redraw(v, n))
  /\ \A v, f : StartCall(Render(v, f))
  /\ \A v : StartCall(ScrollContentsBy(v))
  /\ \A x : StartCall(SetVolume(x))
  /\ \A p : StartCall(ChainSelected(p))
  /\ StartCall(ClearTree) /\ StartCall(SetFocus)
  BY DEF StartCall, SetSurface, Redraw, Render, SetVolume, ChainSelected, ClearTree,
         SetFocus, ScrollContentsBy

LEMMA ShortStarts ==
  ASSUME NEW a, NEW b, NEW c
  PROVE  /\ Starts(<<>>)
         /\ StartCall(a) => Starts(<<a>>)
         /\ StartCall(a) /\ StartCall(b) => Starts(<<a, b>>)
         /\ StartCall(a) /\ StartCall(b) /\ StartCall(c) => Starts(<<a, b, c>>)
  <1>1. PICK p, q, r, s : /\ p = Pending(<<>>) /\ q = Pending(<<a>>)
                          /\ r = Pending(<<a, b>>) /\ s = Pending(<<a, b, c>>)
    OBVIOUS
  <1>2. p = {} /\ q = {a} /\ r = {a, b} /\ s = {a, b, c}
    BY <1>1, PendingShort
  <1>3. Starts(<<>>) /\ (StartCall(a) => Starts(<<a>>))
    BY <1>1, <1>2 DEF Starts
  <1>4. StartCall(a) /\ StartCall(b) => Starts(<<a, b>>)
    BY <1>1, <1>2 DEF Starts
  <1>5. StartCall(a) /\ StartCall(b) /\ StartCall(c) => Starts(<<a, b, c>>)
    BY <1>1, <1>2 DEF Starts
  <1> QED
    BY <1>3, <1>4, <1>5

\* Two calls that are both left to run.
LEMMA BothLeft ==
  ASSUME NEW a, NEW b, calls' = <<a, b>>, StartCall(a), StartCall(b)
  PROVE  Starts(calls') /\ a \in Todo' /\ b \in Todo'
  <1>1. PICK q : q = <<a, b>>
    OBVIOUS
  <1>2. Pending(q) = {a, b}
    BY <1>1, PendingShort
  <1> QED
    BY <1>1, <1>2 DEF Starts, Todo

\* When nothing is left to run.
AtEase == calls = <<>> /\ Todo = {}

LEMMA NothingLeft ==
  ASSUME calls = <<>>
  PROVE  AtEase
  BY PendingShort DEF AtEase, Todo

\* An action of the user that leaves views and lines as they should be.
LEMMA Started ==
  ASSUME ViewsInv', ImagesInv, LinesInv, calls = <<>>, Starts(calls'),
         UNCHANGED <<surfs, inters>>, DOMAIN plane' = Planes,
         current' = current \/ current' = None,
         \A v \in ViewSet :
            /\ Placed(view'[v]) /\ view'[v].vol = view[v].vol
            /\ IsFcn(view'[v].lines) /\ Looks(v)',
         \A v \in Planes : PlaneLines(v)', SegmentationLines'
  PROVE  ImagesInv' /\ LinesInv'
  <1>1. Todo = {}
    BY NothingLeft DEF AtEase
  <1>2. IsSeq(calls') /\ Len(calls') \in Nat
    BY DEF ViewsInv, QueueOK, IsSeq
  <1>3. \A c \in Todo' : StartCall(c)
    BY DEF Starts, Todo
  <1>4. \A i \in 1..Len(calls') : calls'[i] \in Todo'
    BY DEF Todo, Pending
  <1>5. VolumesInTurn(calls')
    <2>1. \A i \in 1..Len(calls') : calls'[i].call # "OnVolumeChanged"
      BY <1>3, <1>4 DEF StartCall
    <2> QED
      BY <2>1 DEF VolumesInTurn
  <1>6. \A c \in Todo' : HearsCurrent(c)' /\ ShowsSheet(c)' /\ LineCall(c)' /\ ~AtHead(c)
    BY <1>3 DEF StartCall, HearsCurrent, ShowsSheet, LineCall, AtHead
  <1>7. HeadsOnly(calls')
    <2>1. \A c \in Pending(calls') : ~AtHead(c)
      BY <1>6 DEF Todo
    <2> QED
      BY <1>2, <2>1, NoHeads
  <1>8. \A v \in ViewSet : HasCurrent(v)'
    <2>1. ASSUME NEW v \in ViewSet PROVE HasCurrent(v)'
      <3>1. current # None => view[v].vol = current
        BY <1>1 DEF ImagesInv, HasCurrent
      <3> QED
        BY <3>1 DEF HasCurrent
    <2> QED
      BY <2>1
  <1>9. ImagesInv'
    BY <1>5, <1>6, <1>8 DEF ImagesInv
  <1>10. LinesInv'
    <2>1. DOMAIN inters' = Planes /\ DOMAIN surfs' = ViewSet \cup {Crop}
      BY DEF LinesInv
    <2> QED
      BY <1>6, <1>7, <2>1 DEF LinesInv
  <1> QED
    BY <1>9, <1>10

\* An action that leaves the viewers alone: the surface it changes is set.
LEMMA SetsShow ==
  ASSUME ViewsInv', ImagesInv, LinesInv, calls = <<>>, Starts(calls'),
         UNCHANGED <<surfs, inters, view, ptr, vis>>, DOMAIN plane' = Planes,
         current' = current \/ current' = None,
         \A v \in Planes : plane'[v] = plane[v] \/ Forced(v)',
         chains' = chains \/ Forced(Segmentation)'
  PROVE  ImagesInv' /\ LinesInv'
  <1>1. Todo = {}
    BY NothingLeft DEF AtEase
  <1>2. ASSUME NEW v \in ViewSet PROVE Looks(v)'
    <2>1. CASE Forced(v)'
      BY <2>1 DEF Looks
    <2>2. CASE ~Forced(v)'
      <3>1. SameSource(v)
        BY <2>2 DEF SameSource, Planes
      <3>2. SameLook(view[v], view'[v])
        BY DEF SameLook, SamePicture
      <3> QED
        BY <1>1, <3>1, <3>2, LooksStays DEF ImagesInv
    <2> QED
      BY <2>1, <2>2
  <1>3. ASSUME NEW v \in Planes PROVE PlaneLines(v)'
    <2>1. PlaneLines(v)
      BY DEF LinesInv
    <2>2. CASE Forced(v)'
      <3>1. \E c \in Todo' : Stirs(c, v)
        BY <2>2 DEF Forced
      <3> QED
        BY <1>1, <2>1, <3>1 DEF PlaneLines
    <2>3. CASE plane'[v] = plane[v]
      BY <1>1, <2>1, <2>3, PlaneLinesStay DEF SamePicture
    <2> QED
      BY <2>2, <2>3
  <1>4. SegmentationLines'
    BY <1>1, SegmentationLinesStay DEF LinesInv
  <1>5. \A v \in ViewSet : Placed(view[v]) /\ IsFcn(view[v].lines)
    BY DEF ImagesInv, LinesInv
  <1> QED
    BY <1>2, <1>3, <1>4, <1>5, Started

\* An action on one viewer.
LEMMA ViewerShows ==
  ASSUME ViewsInv', ImagesInv, LinesInv, calls = <<>>, Starts(calls'),
         UNCHANGED <<shared, ptr, vis, current>>, NEW v \in ViewSet,
         \A u \in ViewSet \ {v} : view'[u] = view[u],
         Placed(view'[v]), view'[v].vol = view[v].vol,
         IsFcn(view'[v].lines), Looks(v)',
         v \in Planes => PlaneLines(v)', v = Segmentation => SegmentationLines'
  PROVE  ImagesInv' /\ LinesInv'
  <1>1. Todo = {}
    BY NothingLeft DEF AtEase
  <1>2. ASSUME NEW u \in ViewSet \ {v} PROVE Looks(u)'
    <2>1. SameLook(view[u], view'[u]) /\ SameSource(u)
      BY DEF SameLook, SamePicture, SameSource, shared
    <2> QED
      BY <1>1, <2>1, LooksStays DEF ImagesInv
  <1>3. ASSUME NEW u \in Planes \ {v} PROVE PlaneLines(u)'
    <2>1. u \in ViewSet \ {v}
      BY DEF Planes
    <2> QED
      BY <1>1, <2>1, PlaneLinesStay DEF LinesInv, SamePicture, shared
  <1>4. ASSUME v # Segmentation PROVE SegmentationLines'
    <2>1. Segmentation \in ViewSet \ {v}
      BY <1>4, ViewsAssumption
    <2> QED
      BY <1>1, <2>1, SegmentationLinesStay DEF LinesInv, shared
  <1>5. ASSUME NEW u \in ViewSet
        PROVE  /\ Placed(view'[u]) /\ view'[u].vol = view[u].vol
               /\ IsFcn(view'[u].lines) /\ Looks(u)'
    BY <1>2 DEF ImagesInv, LinesInv
  <1>6. UNCHANGED <<surfs, inters, current>> /\ DOMAIN plane' = Planes
    BY DEF ImagesInv, shared
  <1>7. \A u \in Planes : PlaneLines(u)'
    BY <1>3
  <1> QED
    BY <1>4, <1>5, <1>6, <1>7, Started

\* The packages and volumes, and the lists of the window.
LEMMA OpenShows ==
  ASSUME ViewsInv', ImagesInv, LinesInv, NEW p, Open(p)
  PROVE  ImagesInv' /\ LinesInv'
  <1>1. calls = <<>> /\ current' = None /\ UNCHANGED <<shared, view, ptr, vis>>
    BY DEF Open, Input
  <1>2. Starts(calls')
    <2>1. calls' = <<>> \/ calls' = <<SetVolume(p[1]), SetVolume(p[1]), ClearTree>>
      BY DEF Open, OpenCalls
    <2> QED
      BY <2>1, StartCalls, ShortStarts
  <1> QED
    BY <1>1, <1>2, SetsShow DEF shared, ImagesInv

LEMMA SelectVolumeShows ==
  ASSUME ViewsInv', ImagesInv, LinesInv, NEW i, SelectVolume(i)
  PROVE  ImagesInv' /\ LinesInv'
  <1>1. calls = <<>> /\ UNCHANGED <<shared, view, ptr, vis, current>>
    BY DEF SelectVolume, Input, window
  <1>2. Starts(calls')
    <2>1. calls' = <<SetVolume(vpkg[i])>>
      BY DEF SelectVolume
    <2> QED
      BY <2>1, StartCalls, ShortStarts
  <1> QED
    BY <1>1, <1>2, SetsShow DEF shared, ImagesInv

\* A segmentation whose chain changes is set anew.
LEMMA ForcesSegmentation ==
  ASSUME NEW p, SetSurface(Segmentation, p) \in Todo'
  PROVE  Forced(Segmentation)'
  BY DEF Forced, Stirs, SetSurface

LEMMA SelectSurfaceShows ==
  ASSUME ViewsInv', ImagesInv, LinesInv, broken' = None, NEW p, SelectSurface(p)
  PROVE  ImagesInv' /\ LinesInv'
  <1>1. calls = <<>> /\ UNCHANGED <<surfs, inters, plane, view, ptr, vis, current>>
    BY DEF SelectSurface, Input
  <1>2. Segmentation # Crop
    BY ViewsAssumption
  <1>3. PICK a, b : a = SetSurface(Segmentation, p) /\ b = ChainSelected(p)
    OBVIOUS
  <1>4. StartCall(a) /\ StartCall(b)
    BY <1>2, <1>3, StartCalls
  <1>5. CASE calls' = <<a, b>>
    <2>1. Starts(calls') /\ a \in Todo'
      BY <1>4, <1>5, BothLeft
    <2>2. Forced(Segmentation)'
      BY <1>3, <2>1, ForcesSegmentation
    <2> QED
      BY <1>1, <2>1, <2>2, SetsShow DEF ImagesInv
  <1>6. CASE UNCHANGED <<chains, calls>>
    <2>1. Starts(calls')
      BY <1>1, <1>6, ShortStarts
    <2> QED
      BY <1>1, <1>6, <2>1, SetsShow DEF ImagesInv
  <1>7. calls' = <<a, b>> \/ UNCHANGED <<chains, calls>>
    <2>1. "file" # None
      BY ReasonsAreSome DEF Reasons
    <2> QED
      BY <1>3, <2>1 DEF SelectSurface, Break
  <1> QED
    BY <1>5, <1>6, <1>7

LEMMA ChainActionsShow ==
  ASSUME ViewsInv', ImagesInv, LinesInv, broken' = None,
         \/ \E i \in 0..MaxOps : SelectOp(i)
         \/ AppendOp \/ ToggleOp
         \/ \E m \in Modes : ChangeSource(m)
  PROVE  ImagesInv' /\ LinesInv'
  <1>1. calls = <<>> /\ UNCHANGED <<surfs, inters, plane, view, ptr, vis, current>>
    BY DEF SelectOp, AppendOp, ToggleOp, ChangeSource, Input, window, shared
  <1>2. Segmentation # Crop
    BY ViewsAssumption
  <1>3. CASE \E i \in 0..MaxOps : SelectOp(i)
    <2>1. UNCHANGED <<chains, calls>>
      BY <1>3 DEF SelectOp, shared
    <2>2. Starts(calls')
      BY <1>1, <2>1, ShortStarts
    <2> QED
      BY <1>1, <2>1, <2>2, SetsShow DEF ImagesInv
  <1>4. CASE AppendOp
    <2>1. PICK p, a, b : /\ p = list.chain /\ a = ChainSelected(p)
                         /\ b = SetSurface(Segmentation, p)
      OBVIOUS
    <2>2. calls' = <<a, b>>
      <3>1. "dataset" # None
        BY ReasonsAreSome DEF Reasons
      <3> QED
        BY <1>4, <2>1, <3>1 DEF AppendOp, Break
    <2>3. StartCall(a) /\ StartCall(b)
      BY <1>2, <2>1, StartCalls
    <2>4. Starts(calls') /\ b \in Todo'
      BY <2>2, <2>3, BothLeft
    <2>5. Forced(Segmentation)'
      BY <2>1, <2>4, ForcesSegmentation
    <2> QED
      BY <1>1, <2>4, <2>5, SetsShow DEF ImagesInv
  <1>5. CASE ToggleOp \/ \E m \in Modes : ChangeSource(m)
    <2>1. PICK a : a = SetSurface(Segmentation, settings.chain)
      OBVIOUS
    <2>2. calls' = <<a>>
      <3>1. "chain" # None
        BY ReasonsAreSome DEF Reasons
      <3> QED
        BY <1>5, <2>1, <3>1 DEF ToggleOp, ChangeSource, Break
    <2>3. StartCall(a)
      BY <1>2, <2>1, StartCalls
    <2>4. Starts(calls') /\ a \in Todo'
      BY <2>2, <2>3, ShortStarts, PendingShort DEF Todo
    <2>5. Forced(Segmentation)'
      BY <2>1, <2>4, ForcesSegmentation
    <2> QED
      BY <1>1, <2>4, <2>5, SetsShow DEF ImagesInv
  <1> QED
    BY <1>3, <1>4, <1>5

\* A plane that changes is set anew.
LEMMA ForcesPlane ==
  ASSUME NEW v, SetSurface(v, v) \in Todo'
  PROVE  Forced(v)'
  BY DEF Forced, Stirs, SetSurface

LEMMA ChangeNormalShows ==
  ASSUME ViewsInv', ImagesInv, LinesInv, NEW n, ChangeNormal(n)
  PROVE  ImagesInv' /\ LinesInv'
  <1>1. /\ calls = <<>> /\ UNCHANGED <<surfs, inters, chains, view, ptr, vis, current>>
        /\ plane' = [plane EXCEPT ![ManualPlane].normal = n]
    BY DEF ChangeNormal, Input
  <1>2. PICK a : a = SetSurface(ManualPlane, ManualPlane)
    OBVIOUS
  <1>3. calls' = <<a>>
    BY <1>2 DEF ChangeNormal
  <1>4. ManualPlane # Crop
    BY ViewsAssumption DEF ViewSet
  <1>5. StartCall(a)
    BY <1>2, <1>4, StartCalls
  <1>6. Starts(calls') /\ a \in Todo'
    BY <1>3, <1>5, ShortStarts, PendingShort DEF Todo
  <1>7. Forced(ManualPlane)'
    BY <1>2, <1>6, ForcesPlane
  <1>8. DOMAIN plane' = Planes /\ \A v \in Planes : plane'[v] = plane[v] \/ Forced(v)'
    BY <1>1, <1>7 DEF ImagesInv
  <1> QED
    BY <1>1, <1>6, <1>8, SetsShow

LEMMA ClickPlaneShows ==
  ASSUME ViewsInv', ImagesInv, LinesInv, NEW v, NEW p, ClickPlane(v, p)
  PROVE  ImagesInv' /\ LinesInv'
  <1>1. calls = <<>> /\ UNCHANGED <<surfs, inters, plane, chains, view, ptr, vis, current>>
    BY DEF ClickPlane, Input, window
  <1>2. calls' = <<SetFocus>>
    BY DEF ClickPlane
  <1>3. Starts(calls')
    BY <1>2, StartCalls, ShortStarts
  <1> QED
    BY <1>1, <1>3, SetsShow DEF ImagesInv

\* The planes across the segmentation are set before the focus moves.
LEMMA ClickSegmentationShows ==
  ASSUME ViewsInv', ImagesInv, LinesInv, broken' = None, NEW p, ClickSegmentation(p)
  PROVE  ImagesInv' /\ LinesInv'
  <1>0. PICK f, first, last :
            /\ f = [v \in Planes |-> SetSurface(v, v)]
            /\ first = [i \in 1..Len(SegPlanes) |-> SetSurface(SegPlanes[i], SegPlanes[i])]
            /\ last = <<SetFocus>>
    OBVIOUS
  <1>1. /\ calls = <<>> /\ UNCHANGED <<surfs, inters, chains, view, ptr, vis, current>>
        /\ plane' = [v \in Planes |-> IF v \in SegPlaneSet
                                      THEN [origin |-> p, normal |-> surfs[Crop]]
                                      ELSE plane[v]]
        /\ calls' = first \o last
    <2>1. "crop" # None
      BY ReasonsAreSome DEF Reasons
    <2> QED
      BY <1>0, <2>1 DEF ClickSegmentation, Input, Break, window
  <1>2. Len(SegPlanes) \in Nat /\ \A i \in 1..Len(SegPlanes) : SegPlanes[i] \in Planes
    BY ViewsAssumption
  <1>3. IsSeq(first) /\ Len(first) = Len(SegPlanes)
    BY <1>0, <1>2, OnesSeq
  <1>4. \A i \in 1..Len(SegPlanes) : first[i] = f[SegPlanes[i]]
    BY <1>0, <1>2
  <1>5. IsSeq(last) /\ Len(last) = 1 /\ last[1] = SetFocus
    BY <1>0, ShortSeq
  <1>6. Starts(calls')
    <2>1. IsJoin(calls', first, last)
      BY <1>1, <1>3, <1>5, Joined
    <2>2. Crop \notin Planes
      BY ViewsAssumption DEF Planes
    <2>3. \A v \in Planes : StartCall(f[v])
      BY <1>0, <2>2, StartCalls
    <2>4. ASSUME NEW i \in 1..Len(calls') PROVE StartCall(calls'[i])
      <3>1. \/ \E j \in 1..Len(first) : calls'[i] = first[j]
            \/ \E j \in 1..Len(last) : calls'[i] = last[j]
        BY <2>1 DEF IsJoin
      <3>2. \A j \in 1..Len(first) : StartCall(first[j])
        BY <1>2, <1>3, <1>4, <2>3
      <3>3. \A j \in 1..Len(last) : StartCall(last[j])
        BY <1>5, StartCalls
      <3> QED
        BY <3>1, <3>2, <3>3
    <2> QED
      BY <2>4 DEF Starts, Pending
  <1>7. ASSUME NEW v \in SegPlaneSet PROVE Forced(v)'
    <2>1. PICK i \in 1..Len(SegPlanes) : v = SegPlanes[i]
      BY DEF SegPlaneSet
    <2>2. PICK S : first \in Seq(S) /\ last \in Seq(S)
      BY <1>3, <1>5, CommonSet
    <2>3. PICK q : q = first \o last
      OBVIOUS
    <2>4. i \in 1..Len(q) /\ q[i] = first[i]
      BY <1>2, <1>3, <1>5, <2>1, <2>2, <2>3
    <2>5. first[i] \in Todo'
      BY <1>1, <2>3, <2>4 DEF Todo, Pending
    <2>6. first[i] = SetSurface(v, v)
      BY <1>0, <2>1
    <2> QED
      BY <2>5, <2>6, ForcesPlane
  <1>8. DOMAIN plane' = Planes /\ \A v \in Planes : plane'[v] = plane[v] \/ Forced(v)'
    BY <1>1, <1>7
  <1> QED
    BY <1>1, <1>6, <1>8, SetsShow

\* A view that is scrolled is drawn where its image does not reach.
LEMMA ScrollShows ==
  ASSUME ViewsInv, ViewsInv', ImagesInv, LinesInv, NEW v \in ViewSet,
         NEW x \in Centres, Scroll(v, x)
  PROVE  ImagesInv' /\ LinesInv'
  <1>1. /\ calls = <<>> /\ UNCHANGED <<shared, ptr, vis, current>>
        /\ view' = [view EXCEPT ![v].bar = x]
    BY DEF Scroll, Input, window
  <1>2. /\ \A u \in ViewSet \ {v} : view'[u] = view[u]
        /\ SamePicture(view[v], view'[v]) /\ view'[v].zoff = view[v].zoff
        /\ view'[v].place = view[v].place /\ view'[v].bar = x
        /\ view'[v].lines = view[v].lines
    BY <1>1, BarGiven DEF ViewsInv
  <1>3. PICK a, b : a = Render(v, FALSE) /\ b = ScrollContentsBy(v)
    OBVIOUS
  <1>4. calls' = <<a, b>>
    BY <1>3 DEF Scroll, ScrollCalls
  <1>5. StartCall(a) /\ StartCall(b)
    BY <1>3, StartCalls
  <1>6. Starts(calls') /\ a \in Todo'
    BY <1>4, <1>5, BothLeft
  <1>7. Todo = {}
    BY <1>1, NothingLeft DEF AtEase
  <1>8. Looks(v)'
    <2>1. WillRender(v)'
      BY <1>3, <1>6 DEF WillRender, Render
    <2>2. SameSource(v)
      BY <1>1 DEF SameSource, shared
    <2> QED
      BY <1>2, <1>7, <2>1, <2>2, MovedLooks DEF ImagesInv
  <1>9. v \in Planes => PlaneLines(v)'
    BY <1>1, <1>2, <1>7, PlaneLinesStay DEF LinesInv, shared
  <1>10. v = Segmentation => SegmentationLines'
    BY <1>1, <1>2, <1>7, SegmentationLinesStay DEF LinesInv, shared, SamePicture
  <1>11. /\ Placed(view'[v]) /\ view'[v].vol = view[v].vol
         /\ IsFcn(view'[v].lines)
    BY <1>2 DEF SamePicture, LinesInv, ImagesInv
  <1> QED
    BY <1>1, <1>2, <1>6, <1>8, <1>9, <1>10, <1>11, ViewerShows

\* A view that is shifted or zoomed has no lines until it has drawn them again.
LEMMA RedrawnLines ==
  ASSUME NEW v, DOMAIN view'[v].lines = {},
         view'[v].area = None \/ Forced(v)', Redraw(v, None) \in Todo'
  PROVE  /\ v \in Planes => PlaneLines(v)'
         /\ v = Segmentation => SegmentationLines'
  <1>1. v \in Planes => PlaneLines(v)'
    <2>1. Forced(v)' => \E c \in Todo' : Stirs(c, v)
      BY DEF Forced
    <2> QED
      BY <2>1 DEF PlaneLines
  <1>2. v = Segmentation => SegmentationLines'
    <2>1. v = Segmentation => Redraws(Redraw(v, None))
      BY DEF Redraws, Redraw
    <2> QED
      BY <2>1 DEF SegmentationLines
  <1> QED
    BY <1>1, <1>2

LEMMA ShiftShows ==
  ASSUME ViewsInv, ViewsInv', ImagesInv, LinesInv, NEW v \in ViewSet, NEW z, Shift(v, z)
  PROVE  ImagesInv' /\ LinesInv'
  <1>0. PICK old, w, a, b : /\ old = view[v] /\ w = [old EXCEPT !.zoff = z, !.lines = NoLines]
                            /\ a = Render(v, TRUE) /\ b = Redraw(v, None)
    OBVIOUS
  <1>1. /\ calls = <<>> /\ UNCHANGED <<shared, ptr, vis, current>>
        /\ view' = [view EXCEPT ![v] = w] /\ calls' = <<a, b>>
    BY <1>0 DEF Shift, Input, window, ViewsInv, ViewTypes
  <1>2. view'[v] = w /\ \A u \in ViewSet \ {v} : view'[u] = view[u]
    BY <1>1 DEF ViewsInv, ViewTypes
  <1>3. SamePlace(old, w) /\ w.vol = old.vol /\ w.lines = NoLines
    <2>1. IsView(old)
      BY <1>0 DEF ViewsInv, ViewTypes
    <2> QED
      BY <1>0, <2>1 DEF IsView
  <1>4. StartCall(a) /\ StartCall(b)
    BY <1>0, StartCalls
  <1>5. Starts(calls') /\ a \in Todo' /\ b \in Todo'
    BY <1>1, <1>4, BothLeft
  <1>6. Forced(v)'
    BY <1>0, <1>5 DEF Forced, Stirs, Render
  <1>7. Looks(v)'
    BY <1>6 DEF Looks
  <1>8. DOMAIN w.lines = {} /\ IsFcn(w.lines)
    BY <1>3 DEF NoLines, IsFcn
  <1>9. /\ v \in Planes => PlaneLines(v)'
        /\ v = Segmentation => SegmentationLines'
    BY <1>0, <1>2, <1>5, <1>6, <1>8, RedrawnLines
  <1>10. Placed(w) /\ w.vol = view[v].vol
    BY <1>0, <1>3 DEF ImagesInv
  <1> QED
    BY <1>1, <1>2, <1>5, <1>7, <1>8, <1>9, <1>10, ViewerShows

LEMMA ZoomShows ==
  ASSUME ViewsInv, ViewsInv', ImagesInv, LinesInv, broken' = None, NEW v \in ViewSet,
         NEW z, Zoom(v, z)
  PROVE  ImagesInv' /\ LinesInv'
  <1>0. PICK old, w, l, a, b :
            /\ old = view[v] /\ l = LevelOf(v, z)
            /\ w = [old EXCEPT !.zoom = z, !.level = l, !.area = None, !.lines = NoLines]
            /\ a = Render(v, FALSE) /\ b = Redraw(v, None)
    OBVIOUS
  <1>1. /\ calls = <<>> /\ UNCHANGED <<shared, ptr, vis, current>>
        /\ view' = [view EXCEPT ![v] = w] /\ calls' = <<a, b>>
    <2>1. "volume" # None
      BY ReasonsAreSome DEF Reasons
    <2> QED
      BY <1>0, <2>1 DEF Zoom, Input, Break, window, ViewsInv, ViewTypes
  <1>2. view'[v] = w /\ \A u \in ViewSet \ {v} : view'[u] = view[u]
    BY <1>1 DEF ViewsInv, ViewTypes
  <1>3. SamePlace(old, w) /\ w.vol = old.vol /\ w.lines = NoLines /\ w.area = None
    <2>1. IsView(old)
      BY <1>0 DEF ViewsInv, ViewTypes
    <2> QED
      BY <1>0, <2>1 DEF IsView
  <1>4. StartCall(a) /\ StartCall(b)
    BY <1>0, StartCalls
  <1>5. Starts(calls') /\ a \in Todo' /\ b \in Todo'
    BY <1>1, <1>4, BothLeft
  <1>6. WillRender(v)'
    BY <1>0, <1>5 DEF WillRender, Render
  <1>7. Looks(v)'
    BY <1>2, <1>3, <1>6 DEF Looks
  <1>8. DOMAIN w.lines = {} /\ IsFcn(w.lines)
    BY <1>3 DEF NoLines, IsFcn
  <1>9. /\ v \in Planes => PlaneLines(v)'
        /\ v = Segmentation => SegmentationLines'
    BY <1>0, <1>2, <1>3, <1>5, <1>8, RedrawnLines
  <1>10. Placed(w) /\ w.vol = view[v].vol
    BY <1>0, <1>3 DEF ImagesInv
  <1> QED
    BY <1>1, <1>2, <1>5, <1>7, <1>8, <1>9, <1>10, ViewerShows

-----------------------------------------------------------------------------
(***************************************************************************)
(* The theorems about what is shown.                                       *)
(***************************************************************************)
LEMMA InitShownInv == Init => ShownInv
  <1> SUFFICES ASSUME Init PROVE ImagesInv /\ LinesInv
    BY DEF ShownInv
  <1>1. ViewsInv
    BY InitViewsInv
  <1>2. \A v \in ViewSet : /\ view[v].vol = None /\ view[v].place = 0 /\ view[v].bar = 0
                           /\ view[v].lines = NoLines
    BY DEF Init
  <1>3. Starts(calls)
    <2>1. CASE vpkg = None
      BY <2>1, ShortStarts DEF Init
    <2>2. CASE vpkg # None
      <3>1. calls = <<SetVolume(vpkg[1]), SetVolume(vpkg[1]), ClearTree>>
        BY <2>2 DEF Init, OpenCalls
      <3> QED
        BY <3>1, StartCalls, ShortStarts
    <2> QED
      BY <2>1, <2>2
  <1>4. \A c \in Todo : StartCall(c)
    BY <1>3 DEF Starts, Todo
  <1>5. \A c \in Todo : HearsCurrent(c) /\ ShowsSheet(c) /\ LineCall(c) /\ ~AtHead(c)
    BY <1>4 DEF StartCall, HearsCurrent, ShowsSheet, LineCall, AtHead
  <1>6. VolumesInTurn(calls)
    <2>1. \A i \in 1..Len(calls) : calls[i].call # "OnVolumeChanged"
      BY <1>4 DEF StartCall, Todo, Pending
    <2> QED
      BY <2>1 DEF VolumesInTurn
  <1>7. HeadsOnly(calls)
    <2>1. IsSeq(calls) /\ \A c \in Pending(calls) : ~AtHead(c)
      BY <1>1, <1>5 DEF ViewsInv, QueueOK, Todo
    <2> QED
      BY <2>1, NoHeads
  <1>8. ImagesInv
    <2>1. DOMAIN plane = Planes /\ current = None
      BY DEF Init
    <2>2. \A v \in ViewSet : HasCurrent(v) /\ Looks(v)
      BY <1>2, <2>1 DEF HasCurrent, Looks, CanDraw
    <2> QED
      BY <1>2, <1>5, <1>6, <2>1, <2>2 DEF ImagesInv
  <1>9. DOMAIN NoLines = {} /\ IsFcn(NoLines)
    BY DEF NoLines, IsFcn
  <1>10. LinesInv
    <2>1. DOMAIN inters = Planes /\ DOMAIN surfs = ViewSet \cup {Crop}
      BY DEF Init
    <2>2. \A v \in Planes : PlaneLines(v)
      BY <1>2, <1>9 DEF PlaneLines, CanDraw, Planes
    <2>3. SegmentationLines
      <3>1. Segmentation \in ViewSet
        BY ViewsAssumption
      <3> QED
        BY <1>2, <1>9, <3>1 DEF SegmentationLines, CanDraw
    <2> QED
      BY <1>2, <1>5, <1>7, <1>9, <2>1, <2>2, <2>3 DEF LinesInv
  <1> QED
    BY <1>8, <1>10

LEMMA HandleShows ==
  ViewsInv /\ ImagesInv /\ LinesInv /\ Handle /\ broken' = None => ImagesInv' /\ LinesInv'
  BY SetSurfaceShows, OwnSurfaceShows, OtherSurfaceShows, RedrawShows, SkipRenderShows,
     RenderPlaneShows, RenderSegmentationShows, ShowShows, SetIntersectionShows,
     IgnoreShows, IntersectionShows, ListenShows, ScrollContentsShows,
     SetPOIShows, FocusShows, MovePlaneShows, SetVolumeShows, VolumeShows, ClearTreeShows, ChainSelectedShows
  DEF Handle

LEMMA UserShows ==
  ASSUME ViewsInv, ViewsInv', ImagesInv, LinesInv, User, broken' = None
  PROVE  ImagesInv' /\ LinesInv'
  <1>1. CASE \E p \in Packages \cup {None} : Open(p)
    BY <1>1, OpenShows
  <1>2. CASE \E x \in 1..Cardinality(Volumes) : SelectVolume(x)
    BY <1>2, SelectVolumeShows
  <1>3. CASE \E p \in Paths : SelectSurface(p)
    BY <1>3, SelectSurfaceShows
  <1>4. CASE \/ \E i \in 0..MaxOps : SelectOp(i)
             \/ AppendOp \/ ToggleOp
             \/ \E m \in Modes : ChangeSource(m)
    BY <1>4, ChainActionsShow
  <1>5. CASE \E n \in Normals : ChangeNormal(n)
    BY <1>5, ChangeNormalShows
  <1>6. ASSUME NEW v \in ViewSet,
               \/ \E x \in Centres : Scroll(v, x)
               \/ \E z \in 0..MaxOffset : Shift(v, z)
               \/ \E z \in 0..MaxZoom : Zoom(v, z)
               \/ \E p \in Points : ClickPlane(v, p)
        PROVE  ImagesInv' /\ LinesInv'
    BY <1>6, ScrollShows, ShiftShows, ZoomShows, ClickPlaneShows
  <1>7. CASE \E p \in Points : ClickSegmentation(p)
    BY <1>7, ClickSegmentationShows
  <1> QED
    BY <1>1, <1>2, <1>3, <1>4, <1>5, <1>6, <1>7 DEF User

LEMMA SameShown ==
  ASSUME ImagesInv, LinesInv, UNCHANGED vars
  PROVE  ImagesInv' /\ LinesInv'
  <1>1. UNCHANGED <<surfs, inters, plane, chains, view, ptr, vis, current, calls>>
    BY DEF vars, shared, window
  <1>2. UNCHANGED Todo
    BY <1>1 DEF Todo
  <1>3. \A p, at, off : Sheet(p, at, off)' = Sheet(p, at, off)
    BY <1>1, SheetStays
  <1>4. ASSUME NEW v \in ViewSet PROVE Looks(v)'
    <2>1. SameLook(view[v], view'[v]) /\ SameSource(v)
      BY <1>1 DEF SameLook, SamePicture, SameSource
    <2> QED
      BY <1>2, <2>1, LooksStays DEF ImagesInv
  <1>5. ImagesInv'
    BY <1>1, <1>2, <1>3, <1>4 DEF ImagesInv, HearsCurrent, ShowsSheet, HasCurrent
  <1>6. ASSUME NEW v \in Planes PROVE PlaneLines(v)'
    BY <1>1, <1>2, PlaneLinesStay DEF LinesInv, SamePicture
  <1>7. SegmentationLines'
    BY <1>1, <1>2, SegmentationLinesStay DEF LinesInv
  <1>8. \A c \in Todo : LineCall(c)'
    BY <1>1 DEF LinesInv, LineCall
  <1>9. LinesInv'
    BY <1>1, <1>2, <1>6, <1>7, <1>8 DEF LinesInv
  <1> QED
    BY <1>5, <1>9

LEMMA NextShownInv == ViewsInv /\ DownStops /\ ShownInv /\ [Next]_vars => ShownInv'
  <1> SUFFICES ASSUME ViewsInv, DownStops, ShownInv, [Next]_vars, broken' = None
               PROVE  ImagesInv' /\ LinesInv'
    BY DEF ShownInv
  <1>1. CASE UNCHANGED vars
    <2>1. broken = None
      BY <1>1 DEF vars
    <2> QED
      BY <1>1, <2>1, SameShown DEF ShownInv
  <1>2. CASE Next
    <2>1. broken = None
      BY <1>2, WhoBreaks
    <2>2. ImagesInv /\ LinesInv
      BY <2>1 DEF ShownInv
    <2>3. ViewsInv'
      BY NextViewsInv
    <2> QED
      BY <1>2, <2>2, <2>3, HandleShows, UserShows DEF Next
  <1> QED
    BY <1>1, <1>2

\* In every reachable state of a program that is up, what is shown is current, or
\* the call that makes it so is left to run.
THEOREM ShownInvariant == Spec => []ShownInv
  BY InitShownInv, NextShownInv, ViewsInvariant, DownStopsAlways, PTL DEF Spec

\* When nothing is left to run every view shows its surface as it is now, from the
\* volume that is current and over the area it looks at, or looked at before it was
\* scrolled last, for any viewers, planes, volumes and places.
THEOREM ViewsShowWhatIsSet == Spec => []ImagesAreCurrent
  <1>1. ShownInv => ImagesAreCurrent
    <2> SUFFICES ASSUME ShownInv, AtRest, NEW v \in ViewSet, CanDraw(view[v])
                 PROVE  /\ Covered(view[v]) \/ Covers(view[v], view[v].from)
                        /\ current # None => view[v].vol = current
                        /\ IsCurrent(v, view[v])
      BY DEF ImagesAreCurrent, IsCurrent
    <2>1. ImagesInv /\ Todo = {}
      BY NothingLeft DEF ShownInv, AtRest, AtEase
    <2>2. Looks(v) /\ HasCurrent(v)
      BY <2>1 DEF ImagesInv
    <2>3. ~Forced(v) /\ ~WillRender(v) /\ ~WillShow
      BY <2>1 DEF Forced, WillRender, WillShow
    <2> QED
      BY <2>1, <2>2, <2>3 DEF Looks, HasCurrent, Reached, Covered, Covers
  <1> QED
    BY <1>1, ShownInvariant, PTL

\* When nothing is left to run the lines of every plane are those in which the crop
\* as it is now cuts it, in the view and in the collection, and the segmentation
\* draws the collection's on its crop.
THEOREM LinesFollowTheCrop == Spec => []LinesAreCurrent
  <1>1. ShownInv => LinesAreCurrent
    <2> SUFFICES ASSUME ShownInv, AtRest, NEW v \in ViewSet, NEW w, w = view[v],
                        CanDraw(w), w.zoff = 0, surfs[Crop] # None
                 PROVE  IF v # Segmentation
                        THEN /\ w.lines = [k \in {Crop} |-> Traced(v, w)]
                             /\ inters[v] = Traced(v, w)
                        ELSE w.lines =
                                [k \in {n \in SegPlaneSet : inters[n] # None} |->
                                    [lines |-> inters[k], sheet |-> surfs[Crop],
                                     at |-> vis]]
      BY DEF LinesAreCurrent
    <2>1. ImagesInv /\ LinesInv /\ Todo = {}
      BY NothingLeft DEF ShownInv, AtRest, AtEase
    <2>2. CASE v # Segmentation
      <3>1. PlaneLines(v)
        BY <2>1, <2>2 DEF LinesInv, Planes
      <3>2. w.area # None
        <4>1. Looks(v)
          BY <2>1 DEF ImagesInv
        <4> QED
          BY <2>1, <4>1 DEF Looks, Forced, WillRender, Reached, Covered, Covers
      <3>3. w.lines = [k \in {Crop} |-> Traced(v, w)]
        BY <2>1, <3>1, <3>2 DEF PlaneLines
      <3>4. Crop \in DOMAIN w.lines /\ w.lines[Crop] = Traced(v, w)
        BY <3>3
      <3>5. inters[v] = w.lines[Crop]
        BY <2>1, <3>1, <3>4 DEF PlaneLines
      <3> QED
        BY <2>2, <3>3, <3>4, <3>5
    <2>3. CASE v = Segmentation
      <3>1. SegmentationLines
        BY <2>1 DEF LinesInv
      <3>2. DOMAIN w.lines \subseteq SegPlaneSet
        BY <2>3, <3>1 DEF SegmentationLines
      <3>3. \A k \in DOMAIN w.lines : inters[k] # None /\ w.lines[k] = OnCropLine(k)
        BY <2>1, <2>3, <3>1 DEF SegmentationLines
      <3>4. \A k \in SegPlaneSet \ DOMAIN w.lines : inters[k] = None
        BY <2>1, <2>3, <3>1 DEF SegmentationLines
      <3>5. DOMAIN w.lines = {n \in SegPlaneSet : inters[n] # None}
        BY <3>2, <3>3, <3>4
      <3>6. w.lines = [k \in DOMAIN w.lines |-> w.lines[k]]
        BY <2>1 DEF LinesInv, IsFcn
      <3>7. PICK l : l = w.lines
        OBVIOUS
      <3>8. \A k \in DOMAIN l : l[k] = [lines |-> inters[k], sheet |-> surfs[Crop], at |-> vis]
        BY <3>3, <3>7 DEF OnCropLine
      <3>9. l = [k \in DOMAIN l |-> [lines |-> inters[k], sheet |-> surfs[Crop], at |-> vis]]
        BY <3>6, <3>7, <3>8
      <3> QED
        BY <2>3, <3>5, <3>7, <3>9
    <2> QED
      BY <2>2, <2>3
  <1> QED
    BY <1>1, ShownInvariant, PTL
=============================================================================
