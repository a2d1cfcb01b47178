# Volume Cartographer in TLA+

Volume Cartographer reads CT scans of rolled and damaged manuscripts (stacks of
TIFF slices), lets a user trace sheets of papyrus through the slices, and renders
the traced surfaces. This directory models the parts of it that are hard to test:
shared caches, worker threads, the protocols between a window and its workers, the
files of a volume package and the programs that change them, and the handlers of
two windows that call one another.

## 1. Inventory of the system

Paths are relative to `src/`.

| Component | State | Operations | Interacts by | Hard part |
|---|---|---|---|---|
| Slice cache of a volume (`core/src/Volume.cpp`, `LRUCache.hpp`) | list and index of cached slices, capacity, one shared mutex, one mutex per slice, the slice files | `getSliceData`, `setSliceData`, `cachePurge`, `setCacheCapacity` | calls from every thread that shows, prefetches or segments | three levels of locks, two calls on the cache per read, writes that bypass the cache |
| Worker threads of the viewers (`app_support/src/FetchSliceThread.cpp`, `apps/Canny/CannyThread.cpp`, `apps/Projection/*Thread.cpp`) | the latest job, `restart_`, `abort_`, a wait condition | request, run, destructor | calls from the GUI thread, queued signals back | wake-ups against sleeps, restarts, end of life |
| Canny and projection viewers (`apps/Canny`, `apps/Projection`) | slider, settings, last slice, image shown | move the slider, change settings, receive slice, receive overlay | two worker threads, the event queue | results that arrive out of step with the controls |
| Prefetching in VC (`apps/VC/CWindow.cpp`) | `prefetchSliceIndex`, `stopPrefetching`, the worker's round | toggle the segmentation tool, open a slice, open and close a package, exit | two atomics and a condition variable | stores and notifications outside the mutex, index read twice |
| Chunk cache and interpolated reads (`core/src/Slicing.cpp`) | chunks, generations, stored bytes | `put`, `get`, `has`, one read with its threads | OpenMP threads, a mutex per read | chunks used after release, count of stored bytes |
| Segmentation runs (`apps/VC/CWindow.cpp`) | queue of runs, the run in progress, point clouds | submit, execute next, finished, failed, merge | worker thread and queued signals, a modal dialog | what one answer changes under the runs still waiting |
| Annotations (`apps/VC/SegmentationStruct.hpp`) | point cloud, annotation cloud, changed curves | merge, grow, set anchor, reset, decode, find anchors | called by the window before and after runs | two clouds and a decoded copy that must stay aligned |
| Tools, window state, undo (`apps/VC/CWindow.cpp`, `UndoCommands.cpp`) | pen and segmentation tool, window state, buffered curves, undo stack, list of segments | toggles, drags, undo and redo, Keep, Cancel, save, hide, display all | Qt signals that call each other's handlers | exclusion of the tools, copies of one curve in three places |
| Volume packages (`core/src/VolumePkg.cpp`, `DiskBasedObjectBaseClass.cpp`) | volumes, segmentations, renders, version | create, load, save, remove, upgrade | files, written in place | upgrades and saves interrupted half-way |
| Volume server (`apps/src/VolumeServer.cpp`) | loaded packages and volumes, memory per volume | accept, read requests, answer | TCP | requests in pieces, memory shared out anew for each volume |
| Transforms (`core/src/Transforms.cpp`) | transforms shared by pointers, the registry of a package, their files | compose, simplify, invert, add, set, remove, save, load | shared pointers | stacks of stacks, changes behind the registry's back |
| Rendering (`apps/src/Render.cpp`, `graph`) | nodes of the library smgl and their ports | choose volumes, transform, mesh, flatten, texture, write | ports, in the order of `main` | which volume's coordinates, voxels and normals a stage gets |
| VC3D (`apps/VC3D`) | surfaces, intersections, focus, viewers, chains of operations | open, select, scroll, zoom, shift, click, append an operation | Qt signals nested in one another on one thread | handlers that emit in the middle of their work |
| Point sets, UV maps, per-pixel maps (`core/include/vc/core/types`) | arrays | rows, pushes, lookups | calls | row arithmetic |
| Segmentation algorithms, meshing, texturing, surfaces (`segmentation`, `meshing`, `texturing`, `core`) | none between calls | numeric | calls; optical flow starts threads that read slices | numeric |
| Files, command line, Python, vendored mathematics | none | I/O, wrappers, arithmetic | | |

What makes the components correct:

* Slice cache: list and index agree; the capacity holds; eviction is least recently
  used first; no slice is loaded twice at a time; a cached slice equals its file
  unless the file was rewritten; a read ends, and does not throw.
* Worker threads: the last request is always served, results come in order and at
  most once, nothing is emitted after the object is gone, the destructor returns.
* Viewers: once the user stops, the image is the one the controls call for.
* Prefetching: a round reads outwards without gaps, requests are served, the window
  can close.
* Chunk cache: the count of stored bytes is the sum over the chunks, old
  generations leave first, no chunk is used after it is released.
* Runs and annotations: point cloud and annotation cloud cover the same slices;
  runs keep between anchors although earlier answers move things; what an answer
  clears it also computed; curves drawn by hand stay known as such.
* Tools: edits exist only while their tool is in use, undo gives back what the edit
  took, a run starts from the curve the user sees, nothing unsaved goes unflagged.
* Packages: a death in the middle of an upgrade or a save leaves a package that can
  be upgraded, opened and worked on.
* Volume server: whole batches are answered, in order and from the package asked for.
* Transforms and rendering: simplification and reopening keep what a transform does;
  the texture is sampled in the volume's coordinates, along the surface's normals.
* VC3D: once the signals have died down - and they do - every view shows the surfaces
  as they are.

`PROJECT.json` lists the components with what is modelled of them, and the hazards
with the line of the code where each one bites.

## 2. Plan

Done: the slice cache, the worker threads, the viewers, the prefetcher, the chunk
cache with the threads of an interpolated read, segmentation runs over the
annotations of one segment; the tools and the undo stack over several segments;
volume packages with their upgrades, the programs that fill them and the window's
saves; the volume server; transforms with their registry, and `vc_render` over a
package that holds them; the views of VC3D.

To come, in this order:

1. Point sets as files: the row operations of `OrderedPointSet`, from which the
   functions of `Annotations` are to be derived, `PointSetIO`, and the programs that
   continue, merge, repair and invert clouds (`vc_segment` and the tools of `utils`).
2. Pure operators: iteration ranges, keys of chunks from their indices.
3. The growing of a surface over a grid (`core/src/SurfaceHelpers.cpp`): what a
   location needs before it is tried, and what happens to one that failed.
4. Volume metadata, of which the package's upgrades see only kinds.

Of what the runs check, every safety property is a theorem, but for the one that
`PrefetchStart` refutes; what is left to TLC is liveness (section 6). New parts are to be
written as these are: recursion as functions over intervals, sequences and sets with the
bounds of the model left to the instances.

## 3. Modules

| Module | Models | Notes |
|---|---|---|
| `LRUCache` | `core/include/vc/core/types/LRUCache.hpp` | one action per method; each holds the cache's own mutex throughout |
| `SliceMemo` | what a volume promises of its cache | abstract: a table that forgets, at most one load per slice |
| `SliceCache` | `Volume::cache_slice_` and its companions | EXTENDS `LRUCache`; implements `SliceMemo` |
| `LatestJob` | what a worker thread promises | abstract: jobs served in order, at most once, the last one always |
| `RestartThread` | the four `QThread` classes | implements `LatestJob` |
| `SliceViewer` | both viewers | two instances of `RestartThread`, joined by the GUI thread and its event queue |
| `Prefetch` | `CWindow::prefetchSlices` and the commands that steer it | |
| `ChunkCache` | `ChunkCache` in `core/src/Slicing.cpp` | operators on the cache's state: look up, read from disk, `get`, `put` |
| `InterpolatedRead` | `readInterpolated3D` | EXTENDS `ChunkCache`; the threads that fill the rows |
| `Annotations` | `SegmentationStruct`'s point cloud and annotation cloud | operators: merge, growth, flags, reset, decoding, alignment, nearest anchors |
| `SegmentationRun` | `CWindow`'s runs on a segment | EXTENDS `Annotations` |
| `Tools` | pen, segmentation tool, undo stack, list of segments, saves | |
| `VolumePkg` | a package on disk, its upgrades, `vc_volpkg_upgrade`, `vc_packager`, `vc_render`'s renders | |
| `PackageSession` | VC's window on a package | EXTENDS `VolumePkg`; an instance of `Annotations` aligns what it loads |
| `VolumeServer` | `vc_volume_server` and its client | |
| `Transforms` | `core/src/Transforms.cpp` and the registry of a package | |
| `RenderPipeline` | `vc_render` | EXTENDS `Transforms` |
| `SurfaceViews` | VC3D's viewers, collection, chains and panels | |
| `MC...` | instances for TLC | model values, prepared data |
| `..._proofs` | theorems | checked by TLAPS |

**`LRUCache`.** `items` is the `std::list` of pairs, most recent first, `lookup` the
key set of the index. A list iterator is stable, so a node is named by its key.
`SetCapacity` refuses zero as the code's exception does.

**`SliceCache`.** A thread's `pc` names the statement of `cache_slice_` it is at:
`check` (`contains` under the shared lock, twice), `get`, `lock` (waiting for the
slice mutex), `load` and `read` (the file is read in two steps, between which a
writer may rewrite it), `store`. With `Jxl` a load may throw in either of the two steps
(`LoadThrows`): it releases the slice mutex and stores nothing, which in `SliceMemo` is
`AbortLoad`. An unreadable `.tif` gives an empty image, which is cached: its exceptions are
caught (`core/src/Volume.cpp:388-392`). Zarr volumes do without the cache, and volumes made
with the constructor for new ones (`:57-71`) have no slice mutexes; neither is modelled. `readers` holds the threads that keep the shared
lock between `contains` and `get`. An exclusive section makes a single call on the
cache, so it is a single step enabled when there are no readers.
`setCacheCapacity` takes no lock of the volume and is enabled always. Files hold
images; a file being rewritten gives `Torn`. `clean` is an auxiliary variable that
remembers which slices were purged after their last write, with no load under way
across the purge.

**`RestartThread`.** `wpc` is the place in `run`: `top` (the only test of `abort_`),
`read` (copying the job under the mutex), `check` (`restart_` before the work),
`work` (ends in the emitted signal), `end` (`restart_` under the mutex, then wait),
`asleep`, `woken`. Jobs are numbered in the order they are requested. A request
stores the job and starts the thread, or sets `restart_` and wakes it. The
destructor sets `abort_` and wakes; a worker in the middle of its turn hears nothing
of it and goes to sleep, and `missed` records that.

**`SliceViewer`.** An image is a record of the slice shown, the settings of its overlay and
the slice at which the overlay was cut (Canny takes it from the image, the
projection from the slider). Signals of the threads go through the queue `events`;
the controls act on the threads at once. The viewer has no `Join` or `Destroy`:
end of life is the subject of `RestartThread`.

**`Prefetch`.** `Test` and `FallAsleep` are the two halves of `cv.wait`: the mutex
protects nothing, since the window never takes it, so a store and its notification
may come between them. `Load` reads the index again, as the code does. A batch of
reading threads is one step, which may end the program: a read that throws does, and one of
slice -1, which a round reads whose index was cleared since the wait, takes a mutex from
before the first (`undefined`). `closedBusy`, `wanted`, `begun`, `cleared` and `missed` are
auxiliary. Every volume that is opened has `NumSlices` slices, so that a round whose volume is
exchanged for a shorter one is left out.
The dialogs that let the user leave the segmentation tool end either in no change
or in `ToggleOff`.

**`ChunkCache`.** A chunk is named by its key and the number of its load, so that two
loads of a key are two chunks; `heap` holds those that exist. `Put` evicts the
oldest keys, in an order that ties leave free as the code's sort does, and stops
below nine tenths of the size. `get` writes the generation although its callers
hold the lock shared; the model lets a race of two leave either value, the counter
may go back, and two chunks may share a generation.

**`InterpolatedRead`.** `pc` is `row` between pixels, `find` before `has`, `get` (lock
held shared), `put` (chunk read, lock given up), `use` (lock released, chunk read). A
pixel at the border of its chunk looks up neighbours between uses of its own chunk;
the model lets any number of them follow, with any key. The lookup of the row and that of
`retrieve_single_value_cached` are the same statements; they differ in where the
result goes (`aim`). The code releases the shared lock with `unlock()`, which the
standard leaves undefined and the library of the build treats as a release of either kind.
Callers run one read at a time on a cache, so a read's own mutex is enough. `raced` is
auxiliary: the keys of which two loads were under way at once.

**`Annotations`.** The code keeps the clouds as arrays of rows in the order of the
slices; here a cloud is a function from slices to rows. A row of the point cloud is told
apart by its maker (the user, the file, the number of the answer that brought it), a row of
the annotation cloud is the set of flags of each point. `Grown` computes
the added rows as the code does, from the difference of two heights and the row found by
binary search, and not from the slices of the merge; that both agree is `CloudsAgree`.
`Reset` walks over points, not rows, and keeps the code's treatment of the ends: the far end
of the last row is left out.

**`SegmentationRun`.** `cloud` and `notes` are the two clouds, `decoded` the window's
decoded copy (`fAnnotations`), `queue` the vector of submitted runs, `working` the one
the worker computes. `DoSegmentation` is the whole handler up to the first call of
`executeNextSegmentation`; `OnSegmentationFinished` merges, marks, clears, and executes the
next. Edits change the slice the tool was started on only, as the window allows. While
runs are computed a modal dialog is open, so the user's actions need `mode = "tool"` or
`"idle"`, and the choices an answer is merged with are those of its submission.
An answer is what the algorithms hand back: all slices; for optical flow that stops early the
starting curve alone, or any beginning of the first of two chains it blends; for
reslicing any beginning. A beginning may end at any slice, which includes the places
where the code's interpolation window begins. A write to a row that is not there
leads to mode `undefined`, from which the model does not continue. `step_size` is 1
throughout, since nothing in the program sets it to another value. Undo and further
segments are left out.

**`Tools`.** A point's position is the stamp of the operation that put it there, so that
two positions are equal only when no operation came between. `cloud` is what a segment's
point cloud has, `changed` the buffered curves of the slice the tool was started on,
`chain` the starting path of the next run, `manual` the points moved by hand: four
copies of one curve that the handlers update in different places. `stack` and `at` are
the undo stack; a command holds the positions before and after, taken while the mouse was
down, and a drag may grow before it is released. `Cleanup`, `SetUpTool` and the like are
operators, since several handlers run them as their last part. The dialogs are part of the
handlers that open them, with one disjunct per answer. Auxiliary: `base` (commands below it
are of an earlier use of the tool), `astray` (a command was replayed where it does not
belong), `moved`, `unasked`, `swept`. `fate` says why the program went down, or that a pen
stroke has landed in a segment that had a curve.

**`VolumePkg` and `PackageSession`.** One program runs at a time; `pc` is its next step
and every step may be its last. A file is written in place: its old content is gone when
it is opened, so that a death in a save leaves it torn (`TearConfig`, `TearVolume`,
`TearWrite` and so on); between two steps it leaves the old or the new content. `scars`
remembers where programs died, and the properties name the places that matter. The
upgrade is the chain of the code's functions, each with its loop over directories
(`todo`) and its save of the version where the code has it. A segmentation is the links in
its metadata and its two files; the window's save is the five writes of the code, one step
each. What a torn file gives when it is read is what `PointSetIO` makes of a short file:
an exception, nothing, or rows of zeros.

**`VolumeServer`.** Header, request and answer are two pieces each, so that each may have
arrived in part; `arrived` runs behind `sent` as TCP likes. `ReadyRead` is the whole
handler: the transaction over the batch, the rollback when it is not all there (`taken`
stays), the resolving of each request, and the deletion of the stream after the last
answer. A `readyRead` may be due for bytes that an earlier one has read. Loading a volume
changes the share of each.

**`Transforms`.** A transform is a cell of the heap, so that two owners of a pointer see
each other's changes; the caller's pointers are handles, and cells nobody points to are
collected. A point has one coordinate modulo three, and an affine map moves it and stretches
another axis: maps that do not commute, vectors that differ from points, and normals that
differ from vectors. `VectorMap` is what `applyVector` does (the matrix without its
translation; nothing for a stack), `NormalMap` what normals of a moved surface do (the
inverse of the stretch), and a transform for which they differ `SpoilsNormals`. `Simplified` is the code's
loop, with its first part and its empty stack, as a recursive function of the parts taken;
the maps of a stack and its loading are written the same way. A stack is a finite sequence of
parts of any length (`MaxParts` bounds pushes), of which a part may be a stack, but not one
that has stacks in it: `push_back` would not return from making it, which is proved, and the
assumption on prepared transforms and files says the same of what the caller begins with. A
null part is found at the head of a stack only, where `simplify` leaves it. The registry keeps
the pointer it is given, hands out its own, and writes a file only when a transform is added
or set.

**`RenderPipeline`.** `main` builds a graph of nodes by its statements' order and updates
it once; a port is modelled by the value it has then. A mesh is whose coordinates it is
in, how its normals stand to its surface, how often it was resampled and whether it was
scaled; a UV map belongs to vertices and may have been turned. Options are chosen where the
code reads them, so that a combination costs a branch and not a product of all options.

**`SurfaceViews`.** All slots run on one thread, inside the signal that calls them:
`calls` is what is still to run, a handler that emits puts the slots of all viewers in
front of the rest of its own work, and the user acts when it is empty. An image is the
record of all it was computed from (plane, shift, area, level, volume; for the
segmentation its chain and place), and lines likewise, so that a stale picture is one whose
record differs from the state. `broken` says why the program went down (a level the
volume has not, a null volume, chain, dataset, crop or tree item), and nothing follows it.
Positions are along one axis. A view has two of them: `bar`, where its scroll bar is, and
`place`, where it looks, because `scrollContentsBy` emits `sendScrolled` before it moves the
view (`apps/VC3D/CVolumeViewerView.cpp:17-21`), so that the viewer draws what is visible at
the old place; `from` is the place before the last scroll. `centerOn` does the same.
Left out: the tracking of the cursor, Qt's own scrolling while it resizes, the drawing at
an in-between place while zooming, which is followed by another, and the deletion of the replaced crop, of which nobody
keeps more than a pointer that is never read.

## 4. Runs

| Run | Question | Result |
|---|---|---|
| `SliceCache` | two threads, all operations, loads that throw: exclusive and needed loads, freshness, refinement; do reads end? | yes |
| `RestartThread` | jobs in order, at most once, the last one always; end of life | yes, up to a missed wake-up of the destructor |
| `SliceViewer` | does a viewer settle on what its controls call for? | yes |
| `Prefetch` | what rounds read, when closing does harm, whether the window can close | outwards without gaps, and slice -1 if the index was cleared in time; only under a round; unless a notification fell between test and sleep |
| `PrefetchStart` | is every request to prefetch taken up? | no, see findings |
| `InterpolatedRead` | does the cache hold a deleted chunk, and which chunks are lost? | no; those of which two loads overlapped |
| `SegmentationRun` | do the clouds, the anchors and the waiting runs agree through edits and answers? | yes; only early answers unmark or write beside |
| `Tools` | who owns the edits, what undo gives back, what a run starts from, what is flagged as unsaved, where the pen draws | as it should be, but for the exceptions the properties name |
| `PackageSession` | which deaths leave a package broken, what a half-done save means for the next load, does upgrading again help? | those in the places named; clouds and annotations are aligned; yes |
| `VolumeServer` | answers whole, in order, once, from the package asked for; no use of the deleted stream | yes, but for volumes of one id in two packages |
| `RenderPipeline` | do simplification and reopening keep what a transform does; in which coordinates, voxels and along which normals is the texture made? | yes; in the volume's, but for the exceptions named |
| `SurfaceViews` | can a signal feed itself, and are images and lines at rest those of what there is? | no; yes, over the area looked at now or before the last scroll; only new volumes lack a level |

Bounds. Two threads over two slices, five operations between them and capacities up to
two suffice for a reader, a second reader of the same slice and one that purges, writes
or resizes, and let a thread meet what it left behind. Four jobs fall into every
window of a worker's turn, with a second one behind; a restarted job leaves no trace, so
more of them repeat states but for their numbers. Two slices, two settings and three
inputs let a viewer receive a change while the result of the previous one is still
queued and the one before it is being drawn. Six slices with rounds of up to three
steps of one or two reach both ends of the volume, and batches of width two make a
round of several batches. Two threads with three lookups each, over three chunks, a
missing one and a cache that is full with three, load a chunk twice, evict
chunks that the other thread or their own row still points to, and leak. Four commands
allow start, stop and restart within a round, or closing and opening in it. Five slices
leave room for an anchor on either side of a run of several slices; rows of two points
have a near and a far end, which is all that a reset distinguishes. The three segments
are a single curve, a segment between two curves drawn by hand, and one whose annotations
do not cover it. Two starts let the answers of the first be what the second one works on,
and two touches let the user both move a point and set an anchor before a start.

`Tools` has a segment with two rows and a new one, curves of two points and two stamps:
a drag of one point leaves the other, and a second operation can follow the first or its
undo. `PackageSession` has two volumes, so that a loop can be half done, one segmentation, one
render, slices 0 to 2 and two deaths, so that the program that repairs may die as well.
`VolumeServer` has two clients, three volumes in two packages of which two share an id, a
budget of nine bytes that holds a few slices, and four batches, one of them for a volume
that is not there. `RenderPipeline` gives the first program two pointers, two identifiers and
three calls on four prepared transforms (forward, backward, a stack that turns, an empty
stack), which suffices to add a transform, change it behind the registry's back and
reopen, or to put a stack into a stack. `SurfaceViews` has the manual plane, one plane
along the axes, one across the segmentation and the segmentation, volumes of three, two and
no scales, and five actions: a volume, a segmentation and three things to do with them. Two
planes and more matter: the first crop that is published makes each of them answer with its
lines inside the answer of the one before. The two segmentations that load are
interchangeable (symmetry; no property of the run is of liveness).

Fairness. Weak fairness of each thread's own steps: the scheduler runs a thread
that can run. The event loop handles queued signals. `join` and `wait` return when
their thread has ended. Nothing is assumed of locks (each thread of `SliceCache`
performs finitely many operations) and nothing of spurious wake-ups, which may
happen and need not. Programs on a package get on with what they have begun, a window is
closed some day although its user may always find something else to do, and
`vc_volpkg_upgrade` is run again and again (strong fairness of these two, since other
programs come between). The network delivers, clients send what they have begun and
look at what arrives, and the server's event loop comes to every connection although others
keep it busy (strong fairness of accepting and reading). The user is never obliged
to act. The other specifications assume no fairness, their properties being of
safety; that runs come to an end is plain, since every answer, failed or not, takes one from
the queue and none adds to it, and signals die down because no view publishes again
while what it published is still being heard (`NoSignalFeedsItself`), so that no more
publications are nested than there are views, and the work of each is finite.

Stopping. The stuck states that the destructors can reach (the worker asleep, the
destructor waiting) are given a stuttering step `Rest`, since the properties speak of
them; TLC's deadlock check then reports every other state from which nothing moves. It is
switched off where the system may stop: `SegmentationRun` (mode `undefined`), `Tools` and
`SurfaceViews` (the program went down, or the bound on the user's actions),
`PackageSession` (a package nobody can open), `VolumeServer` (all clients done),
`RenderPipeline` (the program has ended).

## 5. Findings

`StartsAreServed` (`apps/VC/CWindow.cpp:1609`) is checked as violated: a request that
breaks off a round is overwritten at that round's end.

Two comments of `core/include/vc/core/types/Transforms.hpp` say what the code does not do. The
model does what the code does, and the properties except what follows from it:

* "When transforming points and vectors, each transform is applied sequentially to the input"
  (`:400-401`). A stack returns vectors as they were given (`core/src/Transforms.cpp:404`,
  where the one computed is `vec`). A surface that a stack turns keeps its old normals:
  the exception `spoils` of `NormalsFitTheSurface`.
* "If the transform is also a CompositeTransform, its transform stack is expanded and copied to
  the end of this transform's stack" (`:464-466`). The whole stack `t` is cloned once per
  part (`core/src/Transforms.cpp:429`, where `tfm` was meant), and if it has a stack in it, the
  loop does not end (`:424`, likewise). Loading pushes the parts of a stack in the same
  way, so that a stack of several parts within a stack comes back repeated: the exception
  of `ReopenRestores`.

What follows is stated, in the properties, as what does hold; we found no document that
says otherwise.

* Slice cache: a smaller capacity set between the `contains` and the `get` of a read
  evicts its slice and the read throws, `setCacheCapacity` taking no lock
  (`core/include/vc/core/types/Volume.hpp:230`; `ShrinkingAloneCausesMisses`). A `.jxl` that
  cannot be read throws to whoever reads (`core/src/Volume.cpp:394`), every time anew; in the
  prefetcher's threads, where nobody catches it, that ends VC (`Batch`).
* A prefetching round reads its index again after the wait. Cleared in between, it is -1, and
  the round reads slice -1, that is, takes a mutex from before the first one
  (`apps/VC/CWindow.cpp:1591`, `core/src/Volume.cpp:421`; `OutwardsFromIndex`).
* The destructor's notification can fall between the worker's test and its sleep; `join`
  then never returns (`apps/VC/CWindow.cpp:202`; `ExitReturnsOrSleeps`). The viewers'
  threads have the same window (`DestructorReturns`).
* A chunk that a row still points to may be deleted when the cache is full, even by the
  row's own lookup of a neighbour: the row then reads freed memory
  (`core/src/Slicing.cpp:278`; in the model, a thread at `use` whose chunk is not in `heap`). A
  second load of a chunk that overlaps the first leaks one of the two, and `_stored` counts
  the leaked one for good (`OnlyDoubleLoadsLeak`).
* After a run that stopped early the window clears the annotations of all slices the run
  was asked for, also those it never reached (`apps/VC/CWindow.cpp:1431`); if the segment
  ends before the target, the loop writes beside the annotation cloud
  (`OnlyEarlyRunsUnmark`, `OnlyEarlyRunsOverrun`).
* Tools: undo and evening out leave the starting path behind; marks of a drag that grew
  are undone in part; the tool's own Keep and runs that all fail leave changes unflagged;
  "Display all" makes the pen draw into another segment than the new one; starting the
  tool for a highlighted segment that is hidden, or with no points to fit, ends the
  program (`CWindow.cpp:2570`). Hiding a segment drops unsaved rows unasked.
* Packages: version 3 hands on metadata without a path, so that the first upgrade
  from there always throws and a later one completes it; deaths in the places of `Fatal`
  leave a package no program opens.
* Volume server: volumes are kept under their id alone (`AnswersComeFromThePackage`).
* Transforms: `ApplyTransform` turns normals by `applyVector`, which for an affine map is the
  matrix itself (`core/src/Transforms.cpp:182-186`): after `scale` by different factors
  (`:288-294`) they do not fit the surface (`NormalsFitTheSurface`); an empty stack simplifies to
  one with a null part.
* `vc_render`: with the raw default and no transform found the mesh is measured with another
  volume's voxels (`CountedInItsOwnVoxels`); scaling and orienting a mesh that is
  not resampled leaves normals uninitialised; reusing the map of a file that has
  none dereferences null.
* VC3D: a level chosen by zooming is kept for a volume that has not got it
  (`apps/VC3D/CVolumeViewer.cpp:436`; `OnlyNewVolumesLackLevels`); zooming before a volume
  is loaded, opening a second package with a segmentation selected, clicking a
  segmentation that was never drawn, appending an operation without a dataset and the
  "layer enabled" box before any operation each end the program (the values of `broken`),
  and so does a `.vcps` that cannot be read (`apps/VC3D/CWindow.cpp:710`); a view that is scrolled
  is drawn for the place it leaves, so that one jump beyond the margin shows nothing
  until the next event (`apps/VC3D/CVolumeViewerView.cpp:19`; `ImagesAreCurrent`); a
  plane shifted along its normal leaves its old lines in the collection
  (`LinesAreCurrent`).

## 6. Proofs

TLAPS checks every proof to the last leaf. The assumptions are the `ASSUME`s on the
constants, nothing else; TLC evaluates them in every run.

* `SliceCache_proofs`, first half, about `LRUCache`: `CacheInv` = types,
  `IndexMatchesList`, `WithinCapacity`. It is inductive as it stands once the list
  operations are known to preserve distinctness of keys; most of it is those facts (erase,
  cons, cut) and the fact that a list of distinct keys is as long as its key set is large,
  which links the code's test on the index's size to the list's length. The lemmas about
  methods also say what happens to values, for use above.
* `SliceCache_proofs`, second half: the invariant `Inv` adds to the checked properties which
  thread holds which lock where: a loading thread owns its slice's mutex, a thread at
  `get` is a reader, a slice mutex is owned only by a thread in the second half of
  `cache_slice_`. Without it `LoadsAreNeeded` is not inductive: two threads could both
  pass the second check. For `CleanIsFresh` it also says what a thread at `read` or
  `store` carries: the file's content or `Torn`, if its slice is clean. The refinement of
  `SliceMemo` maps the index to the table and the loading threads to the set of loads;
  `CheckMiss` under the slice mutex is `BeginLoad`, `Store` is `EndLoad`, `LoadThrows` is
  `AbortLoad`, `GetThrows` is `Refuse`, evictions, purges and
  capacity changes are `Forget`, and the rest is invisible.
* `Viewers_proofs`, first part, about `RestartThread`: the invariant says that wherever the
  worker is, a job newer than the one it holds has set `restart_` unless the worker is about
  to read it. From it follow `AsleepMeansServed`, `ServesNewer` and the refinement of
  `LatestJob`.
* `Viewers_proofs`, second part, about `SurfaceViews`: `NoSignalFeedsItself` is not inductive,
  as it does not say what may come before a pending call. `Nested` says it: before the
  segmentation goes on with its image only calls about the crop are left, and before a plane
  listens again only calls about lines, none of which makes it listen again; besides, such
  a plane ignores its own lines and has drawn the crop's (`Publishing`). A handler may
  then put its calls in front if they are of the kind of the call they replace
  (`PushedNested`), and a plane that hears of another view's lines while it publishes has
  nothing left to trace (`LinedKeeps`, `IntersectionKeeps`). `OnlyNewVolumesLackLevels` needs that
  a plane's image is at a level its volume has (`LevelFits`) and that every plane which can be
  drawn shows the volume that is set or is the very next to draw (`DrawnInv`): zooming, at
  rest, then chooses among the levels of the volume shown, of which there are two at least.
* `Viewers_proofs`, third part: that images and lines are current holds at rest only, so
  `ShownInv` says for every view what is still to run that will make it so. A view that can
  be drawn has the image its state calls for, or a call is pending after which it is drawn
  whatever its area (`Forced`); it covers the place shown or the one before the last scroll, or
  `renderVisible` is pending; a scroll bar is ahead of its view only until
  `scrollContentsBy` has run, which comes right after the drawing; it has
  the current volume, or will hear of it, and no volume is set before all viewers have
  heard of the last. A plane's lines are those of the crop, or the plane will hear of one of
  the two; they are in the collection, or are the next to be; the segmentation's lines are
  those of the collection, or it will hear of the plane that traced them, and it lacks none
  unless it will draw its lines anew. Lines and the crop are published before anything else
  runs (`HeadsOnly`), without which a plane could hear of the old crop after the new one. Each
  handler takes the first call off and may put calls in its place; most of the proof
  goes view by view over which of the pending calls are lost and which are gained. With
  nothing pending, `ImagesAreCurrent` and `LinesAreCurrent` are what is left. The assumption
  is that the places a view is centred on are integers (`CentresAssumption`).
* `Rendering_proofs`, interpolated reads: the count of stored bytes is not inductive without
  knowing that a chunk in transit (read, and not yet put) is its thread's own and not in
  the store, that a stored chunk carries its key, so that evicting a key deletes no
  other key's chunk, and that a load never gives a chunk that exists. With these a `put`
  takes counted chunks out and puts a new one in, which the cardinality lemmas turn into the
  code's additions and subtractions. `OnlyRacesLeak` adds that a chunk in transit
  whose key another thread is loading as well, or has stored meanwhile, is of a key with two
  loads at once (`RacedInv`), so that only such a `put` pushes a chunk out of the store:
  evictions delete what they take out (`PutRaced`).
* `Rendering_proofs`, transforms: the type invariant says that every pointer points to a
  transform that is still there and that stacks nest twice at most, for stacks of any length. A
  recursive function over an interval exists and satisfies its equation at each place
  (`StepsDefine`, place after place), and what holds at 0 and is kept
  by each step holds at each place (`Climb`, from a least counterexample, since induction
  principles take operators); what the three loops compute follows: maps compose
  associatively (`MapsCompose`), a part more is a map more (`InTurnExtends`), and the parts
  `simplify` has finished and the one in its hand do to points what the parts taken do
  (`SimplifyRuns`, `SimplifiedMap`; `SimplifyingKeepsPoints`). For `ReopeningRestores`,
  `RegistryInv` says that a registered transform that was not changed since is what its file
  holds, as saved or as loaded, whatever other pointers do to it; and loading gives
  back a stack whose parts are plain, or are stacks of one part at most (`ReloadedParts`).
* `Rendering_proofs`, `vc_render`: each property speaks of the end of `main`, so `RenderInv`
  says at each stage what its options have made by then: whose volume the texture is from and
  where a chosen transform leads (`VolumesInv`, `ChoiceInv`), where the mesh is once it is moved
  (`PlaceInv`), how its normals may have come not to fit (`NormalsInv`), and which vertices
  each UV map belongs to (`MapInv`). There is one lemma per stage. Transforms enter by the types
  of what is found, inverted or read, which is where `PointersStayLive` is used.
* `SegmentationRun_proofs`: the invariant `SegmentInv` says that both clouds are one
  interval of slices, that the decoded copy is current, and that every run, computed or
  waiting, leaves a slice with an anchor and meets none. `CloudsAgree` rests on
  `MergeKeepsCover`: rows that touch the cloud and extend it at one end at most extend
  both clouds alike, and on `AnswerIsBeside`: every answer, early or not, is such a set of
  rows, because it begins at or beside the slice the run leaves. That runs prepared
  end before the next anchor (`PreparedAreKept`) needs the decoded copy to be
  current at the start; that they stay so needs only that an answer adds no anchor and takes
  none outside its own slices (`AnswerKeepsAnchors`). `AnchorsAreProtected` and
  `OnlyEarlyRunsOverrun` follow from the same invariant. `OnlyEarlyRunsUnmark` takes the
  handlers one by one: an edit makes only the curve of the slice shown the user's, and
  marks it (`EditsHand`), starting runs and leaving the tool leave every curve made by
  hand marked (`StartingMarks`, `LeavingMarks`), an answer takes none outside the slices of its run
  (`AnswerKeepsMarks`), and a complete answer leaves by hand only curves that were before
  and that its run did not replace (`CompleteHand`). The types (`SegmentTypeCorrect`) need
  that answers given and runs still pending are at most two for every start. That sets of slices have a least
  and a greatest element comes from the library's theorem on well-founded relations.
* `VolumeServer_proofs`: the invariant says that a client's pieces run ahead of what has
  arrived and that of what was taken, that a batch is taken whole or not at all, that
  answers follow the batch, and which volume is loaded for each answer given. From it
  follow `AnsweredAsAsked`, `NoReadAfterDelete` (the last piece and the last `readyRead` come
  before the answer), `AnswersComeFromThePackage` (a volume in the table under an id was
  asked for by somebody, and was answered from there), and `MemoryIsShared`: the volumes'
  capacities keep within the budget as long as each share has room for a slice.
* `Threads_proofs`, slice viewers: a viewer at rest shows what its controls call for
  (`AtRestShowsControls`; that it comes to rest is `EventuallyShowsControls`, left to TLC).
  `ViewerInv` follows the image there: the slider's slice is due (the fetching thread will emit
  for the last job before it sleeps), or the last `fetchedSlice` waiting carries it, or it has
  arrived; and unless a slice is still to come, with which its overlay will be asked for, the
  overlay of the controls is the drawing thread's last job, and is due, or is carried by the
  last `ranOverlay` waiting, or is shown. An overlay of the previous slice may thus be shown
  for a while, but never last.
* `Threads_proofs`, prefetcher: `OutwardsFromIndex` needs that between batches the offset is a whole
  number of steps and what has been read is what lies within so many; a batch then adds
  the next ring (`BatchIsRing`, `RingsAddUp`), and rings beyond `prefetchSize` steps are
  empty (`NothingBeyond`), so that the last batch may overshoot. A round around -1 reads
  -1 itself besides, and has `cleared` set since its wait. `CrashMeansClosedBusy` needs
  that after a quiet close no index is stored before another volume is there, and that a
  worker woken meanwhile has been told to stop.

* `PackageSession_proofs`, first half, about `VolumePkg` with the window's writes between:
  `BrokenOnlyByFatal` speaks of what no step may have left behind, so the invariant says
  for each place in a program what the files are there (`StepInv`, `FileInv`, `EntryInv`):
  that only a package in the making lacks its file, which single entry is incomplete and
  which program knows it, which volumes an upgrade has still to visit. It holds
  as long as no program died in a fatal place (`Sound`); a death elsewhere leaves files
  from which the next program begins in the invariant (`CrashKeepsPackage`,
  `UpgradeKeepsPackage`, `OpenKeepsPackage`).
* `PackageSession_proofs`, second half: `AnnotationsAlign` is about what was loaded, which a
  save may have written in part, so the invariant relates the files of a segmentation to one another
  and to the window's copy (`Fit`): annotations on file never reach beyond the cloud on
  file or in memory, and a linked file is complete but for the one being written. That the
  loader's alignment then gives equal sets is `AlignedFits`.
* `Tools_proofs`: `ToolsInv` joins facts of several handlers: the segmentation tool stays on only
  while every segment shown has rows, and the pen only while one has none, so that the two exclude
  each other whatever the buttons do; a segment not shown has no rows; the starting path is the
  curve edited on the tool's slice, which need not be the slice shown (`Edited`). From it follow
  `EditsBelongToTheTool`, `RunsStartFromTheCurve`, `UnsavedIsFlagged` and `PenDrawsOnTheNew`.
* `Tools_proofs`, undo: that undo gives back what an edit took is about the command on top,
  and is kept only if every command on the stack fits those below it. `UndoInv` says so without
  replaying the stack: what the first n commands make of a curve (`Made`) has at each
  point the position of the last command that moved it, and the curve edited is what the
  commands done make of it; each command's positions before are what those below it made, and
  the points it marked as new are those that none below had marked (`Fits`). A drag that grows, an
  edit that cuts off what was undone, undo and redo each change one place of this. Where a
  drag grew, its marks are not what a replay sets (`amiss`), and nothing is claimed once such a
  command has been replayed (`astray`).

Model-checked only: liveness (`ReadsEnd`, `LatestJobServed`, `DestructorReturns`,
`EventuallyShowsControls`, `ExitReturnsOrSleeps`, `UpgradeConverges`, `EveryBatchIsAnswered`),
which the prover does not reach. The claim that
every request to prefetch is served is refuted by its run.

## 7. Not modelled

Section 1 and `PROJECT.json` name every part left out and why. Most of the repository's
lines are of kinds a state model says nothing about: image processing and geometry on
floating-point numbers (segmentation algorithms, structure tensors, meshing, flattening,
texturing, surfaces and the `Zarr...` experiments of `apps/src`), readers and writers of
mesh and image formats, the construction of windows and menus, option parsing, the
vendored mathematics, which the tree holds twice, tests and examples, and the files
of VC3D that repeat VC's. The smgl library is external.

In the parts that are modelled: image contents beyond identity, zooming and
drawing in VC, memory ordering weaker than sequential (the flags the threads share are
atomics or under a mutex, except `step_size`, which is a free choice), and failure to
allocate. Of the tools: the undo commands' pointers to segments that have been removed
(`apps/VC/CWindow.cpp:2139`), since removal is `PackageSession`'s; the navigation between
slices beyond one step. Of the programs on packages: two of them at a time, and disks that
are full. Of the server: the log lines, one of which fails when a share is below one slice,
and the wrong axis a request's second vector is given. Of `vc_render`: saving a graph and
taking it up again, and the state of a node that failed, after which the program still
reports success.
