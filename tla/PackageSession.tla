--------------------------- MODULE PackageSession ---------------------------
(***************************************************************************)
(* VC's window on a volume package: segmentations are made, removed,       *)
(* loaded, extended and saved (apps/VC/CWindow.cpp and its                 *)
(* SegmentationStruct.hpp, core/src/Segmentation.cpp).  A save writes, one *)
(* after the other, the link to the point cloud, the cloud, the link to    *)
(* the annotations, the annotations and the name of the volume; the        *)
(* window may die between and within them.                                 *)
(***************************************************************************)
EXTENDS VolumePkg

VARIABLES
    listed,    \* the package object's segmentations
    items,     \* the window's list of them
    loaded,    \* clouds in the window
    stamp      \* the name made last: a name is the second it was made in

window == <<listed, items, loaded, stamp>>
vars   == <<pkgVars, window>>

NotLoaded == [cloud |-> NoFile, notes |-> NoFile]
Empty     == [cloud |-> {}, notes |-> {}]

\* A segmentation has a row for every slice between its ends.
Clouds == {a .. b : a, b \in Heights} \ {{}}

NoStamp == "no name"

A == INSTANCE Annotations WITH NumSlices <- Cardinality(Heights), Width <- 2

\* The slices the annotations reach once they are aligned with a point cloud.
AlignedNotes(cloud, notes) ==
    DOMAIN A!Aligned([s \in cloud |-> s], [s \in notes |-> [p \in 1..2 |-> {}]])

NoWindow ==
    /\ listed' = {} /\ items' = {} /\ stamp' = NoStamp
    /\ loaded' = [s \in Segments |-> NotLoaded]

Quit == Exit /\ NoWindow /\ UNCHANGED <<disk, scars>>

\* One step of a sequence about segmentation s that changes its directory.
Writes(s, dir, l) ==
    /\ segment' = [segment EXCEPT ![s] = dir]
    /\ pc' = l
    /\ UNCHANGED <<config, dirs, top, volume, render, prog, todo, before, located, home, scars>>

----------------------------------------------------------------------------
(* Opening and closing the package.                                         *)

\* The window needs a volume to show.
OpenWindow ==
    /\ AtOpen("vc")
    /\ IF Opens /\ Present(volume) # {}
       THEN /\ Goto("session")
            /\ listed' = {s \in Segments : segment[s].meta = "whole"}
            /\ items' = listed'
            /\ UNCHANGED <<loaded, stamp>>
       ELSE Exit /\ NoWindow

CloseWindow == pc = "session" /\ Quit

----------------------------------------------------------------------------
(* Making and removing segmentations.                                       *)

\* A name of an earlier second does not come back.  When the directory is there
\* already the window says so and nothing has happened.
NewPath(s) ==
    /\ pc = "session"
    /\ segment[s].meta = "absent" /\ (s \notin listed \/ s = stamp)
    /\ Writes(s, [NoSegment EXCEPT !.meta = "bare"], "newmeta")
    /\ at' = s /\ stamp' = s
    /\ UNCHANGED <<listed, items, loaded>>

\* The name of a segmentation removed in the same second is still taken: the
\* window says so and leaves the directory.
NewMeta ==
    /\ pc = "newmeta"
    /\ Writes(at, [NoSegment EXCEPT !.meta = "whole"],
              IF at \in listed THEN "session" ELSE "newvol")
    /\ listed' = listed \cup {at}
    /\ UNCHANGED <<at, items, loaded, stamp>>

NewVolumeID ==
    /\ pc = "newvol"
    /\ Goto("session")
    /\ items' = items \cup {at} /\ loaded' = [loaded EXCEPT ![at] = Empty]
    /\ UNCHANGED <<disk, scars, listed, stamp>>

RemovePath(s) ==
    /\ pc = "session" /\ s \in items
    /\ Writes(s, NoSegment, "session")
    /\ items' = items \ {s} /\ loaded' = [loaded EXCEPT ![s] = NotLoaded]
    /\ UNCHANGED <<at, listed, stamp>>

----------------------------------------------------------------------------
(* Loading.                                                                 *)

Loadable(s) == pc = "session" /\ s \in items /\ loaded[s].cloud \in {NoFile, {}}

\* What the two files give when they are read: nothing where there is no cloud
\* yet; an exception, or rows of zeros, for a torn cloud; no annotations where
\* theirs cannot be read.
CloudRead(s) == IF segment[s].vcps THEN segment[s].cloud ELSE {}

\* Mutant of NotesRead: annotations are taken as they are on file.
NotesUnaligned(s) ==
    CASE segment[s].notes \in Clouds -> {segment[s].notes}
      [] segment[s].notes = TornFile -> {{}, TornFile}
      [] OTHER -> {{}}

NotesRead(s) ==
    CASE segment[s].notes \in Clouds -> {AlignedNotes(segment[s].cloud, segment[s].notes)}
      [] segment[s].notes = TornFile -> {{}, TornFile}
      [] OTHER -> {{}}

Shows(s, cloud, notes) ==
    /\ loaded' = [loaded EXCEPT ![s] = [cloud |-> cloud, notes |-> notes]]
    /\ UNCHANGED <<disk, scars, listed, items, stamp>>

LoadPath(s) ==
    /\ Loadable(s)
    /\ \/ /\ CloudRead(s) = {}
          /\ Shows(s, {}, {})
       \/ /\ CloudRead(s) = TornFile
          /\ Shows(s, TornFile, TornFile)
       \/ /\ CloudRead(s) \in Clouds /\ segment[s].vcano
          /\ \E n \in NotesRead(s) : Shows(s, CloudRead(s), n)
    /\ UNCHANGED program

\* Nobody catches the exception.
LoadThrows(s) ==
    /\ Loadable(s) /\ CloudRead(s) \in {NoFile, TornFile}
    /\ Quit

\* Annotations are made, and stored, for a cloud that has none.
MakeAnnotations(s) ==
    /\ Loadable(s) /\ CloudRead(s) \in Clouds /\ ~segment[s].vcano
    /\ Shows(s, CloudRead(s), CloudRead(s))
    /\ pc' = "walink" /\ at' = s
    /\ UNCHANGED <<prog, todo, before, located, home>>

\* What is not displayed is dropped, saved or not.
HidePath(s) ==
    /\ pc = "session" /\ loaded[s] # NotLoaded
    /\ loaded' = [loaded EXCEPT ![s] = NotLoaded]
    /\ UNCHANGED <<pkgVars, listed, items, stamp>>

----------------------------------------------------------------------------
(* Extending and saving.                                                    *)

Shown == {s \in Segments : loaded[s].cloud \notin {NoFile, {}}}

\* A run's result; it is refused when the two clouds differ in height.
Extend(s, x) ==
    /\ pc = "session" /\ loaded[s].cloud \in Clouds /\ loaded[s].notes = loaded[s].cloud
    /\ x \notin loaded[s].cloud /\ (x - 1 \in loaded[s].cloud \/ x + 1 \in loaded[s].cloud)
    /\ loaded' = [loaded EXCEPT ![s] = [cloud |-> @.cloud \cup {x}, notes |-> @.notes \cup {x}]]
    /\ UNCHANGED <<pkgVars, listed, items, stamp>>

\* The first curve, drawn with the pen, is followed by a save of everything.
DrawPath(s, x) ==
    /\ pc = "session" /\ loaded[s] = Empty
    /\ loaded' = [loaded EXCEPT ![s] = [cloud |-> {x}, notes |-> {x}]]
    /\ Over("save", Shown \cup {s})
    /\ UNCHANGED <<disk, scars, listed, items, stamp>>

SavePointCloud ==
    /\ pc = "session" /\ Shown # {}
    /\ Over("save", Shown)
    /\ UNCHANGED <<disk, scars, window>>

SaveNext(s) ==
    /\ pc = "save" /\ s \in todo
    /\ at' = s /\ pc' = (IF segment[s].vcps THEN "wcloud" ELSE "wlink")
    /\ UNCHANGED <<disk, prog, todo, before, located, home, scars, window>>

WriteLink ==
    /\ pc = "wlink"
    /\ Writes(at, [segment[at] EXCEPT !.vcps = TRUE], "wcloud")
    /\ UNCHANGED <<at, window>>

WriteCloud ==
    /\ pc = "wcloud"
    /\ Writes(at, [segment[at] EXCEPT !.cloud = loaded[at].cloud],
              IF segment[at].vcano THEN "wnotes" ELSE "walink")
    /\ UNCHANGED <<at, window>>

WriteNotesLink ==
    /\ pc = "walink"
    /\ Writes(at, [segment[at] EXCEPT !.vcano = TRUE], "wnotes")
    /\ UNCHANGED <<at, window>>

\* Reached from a save, and from a load that makes annotations.
WriteNotes ==
    /\ pc = "wnotes"
    /\ Writes(at, [segment[at] EXCEPT !.notes = loaded[at].notes],
              IF at \in todo THEN "wvol" ELSE "session")
    /\ UNCHANGED <<at, window>>

WriteVolumeID ==
    /\ pc = "wvol"
    /\ Over("save", todo \ {at})
    /\ UNCHANGED <<disk, scars, window>>

SaveEnds ==
    /\ pc = "save" /\ todo = {}
    /\ Goto("session")
    /\ UNCHANGED <<disk, scars, window>>

----------------------------------------------------------------------------
(* Death of the window.                                                     *)

Tears(s, dir, scar) ==
    /\ Dies(scar)
    /\ segment' = [segment EXCEPT ![s] = dir]
    /\ UNCHANGED <<config, dirs, top, volume, render>>

TearWrite ==
    \/ /\ pc \in {"newmeta", "newvol", "wlink", "walink", "wvol"}
       /\ Tears(at, [segment[at] EXCEPT !.meta = "torn"], "segment")
    \/ /\ pc = "wcloud" /\ Tears(at, [segment[at] EXCEPT !.cloud = TornFile], "cloud")
    \/ /\ pc = "wnotes" /\ Tears(at, [segment[at] EXCEPT !.notes = TornFile], "notes")

\* Files are removed one by one.
TearRemoval(s) ==
    /\ pc = "session" /\ s \in items
    /\ \E meta \in {"bare", "whole"}, c \in {NoFile, segment[s].cloud},
          n \in {NoFile, segment[s].notes} :
          Tears(s, [segment[s] EXCEPT !.meta = meta, !.cloud = c, !.notes = n], "removing")

WindowCrash == (Crash \/ TearWrite \/ \E s \in Segments : TearRemoval(s)) /\ NoWindow

----------------------------------------------------------------------------
(* The package as it is found, and all that can happen to it.               *)

\* What a package of each version holds; version 3 has its slices elsewhere.
DirsOf(v) ==
    CASE v = Missing -> {}
      [] v = 3 -> {"root", "paths"}
      [] v = 4 -> {"root", "paths", "volumes"}
      [] v = 5 \/ v = 6 -> Required \ {"transforms"}
      [] OTHER -> Required

VolumesOf(v) ==
    LET some(e) == {f \in [Volumes -> {"absent", e}] : \E x \in Volumes : f[x] = e}
    IN  CASE v \in {4, 5} -> some("untyped")
          [] v \in {6, 7} -> some("whole")
          [] OTHER -> {[x \in Volumes |-> "absent"]}

SegmentsOf(v) ==
    CASE v = Missing -> {NoSegment}
      [] v \in {3, 4} -> {NoSegment} \cup
             {[NoSegment EXCEPT !.meta = "bare", !.cloud = c] : c \in Clouds \cup {NoFile}}
      [] OTHER -> {NoSegment} \cup
             {[NoSegment EXCEPT !.meta = "whole", !.vcps = TRUE, !.cloud = c] : c \in Clouds}

Init ==
    /\ config \in Versions \cup {Missing}
    /\ dirs = DirsOf(config) /\ top = (config = 3)
    /\ volume \in VolumesOf(config)
    /\ render = [r \in Renders |-> "absent"]
    /\ segment \in [Segments -> SegmentsOf(config)]
    /\ prog = "none" /\ pc = "off" /\ todo = {} /\ before = Missing
    /\ at = NoVolume /\ located = TRUE /\ home = FALSE
    /\ scars = {}
    /\ listed = {} /\ items = {} /\ stamp = NoStamp
    /\ loaded = [s \in Segments |-> NotLoaded]

Runs ==
    \/ RunPackager
    \/ \E p \in {"vc", "packager", "render"} : RunProgram(p)

\* Steps of a running program that nobody decides on.
Works ==
    \/ (Upgrade \/ OpenUpgraded \/ Restore \/ Fill) /\ UNCHANGED window
    \/ OpenWindow \/ NewMeta \/ NewVolumeID
    \/ WriteLink \/ WriteCloud \/ WriteNotesLink \/ WriteNotes \/ WriteVolumeID
    \/ SaveEnds
    \/ \E s \in Segments : SaveNext(s)

\* What the user asks for.
Asks ==
    \/ SavePointCloud
    \/ \E s \in Segments :
        \/ NewPath(s) \/ RemovePath(s)
        \/ LoadPath(s) \/ LoadThrows(s) \/ MakeAnnotations(s) \/ HidePath(s)
        \/ \E x \in Heights : Extend(s, x) \/ DrawPath(s, x)

Next ==
    \/ (RunUpgrade \/ Runs) /\ UNCHANGED window
    \/ Works \/ Asks \/ CloseWindow
    \/ WindowCrash

Spec == Init /\ [][Next]_vars

\* Programs get on, a window is closed some day, and vc_volpkg_upgrade is run
\* again and again.
FairSpec ==
    /\ Spec
    /\ WF_vars(Works) /\ SF_vars(CloseWindow)
    /\ SF_vars(RunUpgrade /\ UNCHANGED window)

----------------------------------------------------------------------------
(* Properties.                                                              *)

\* A point cloud that is shown has annotations for the same slices, also when
\* a save was cut off between the two files, unless the annotations' own file
\* was left incomplete.
AnnotationsAlign ==
    \A s \in Segments : loaded[s].cloud \in Clouds =>
        \/ loaded[s].notes = loaded[s].cloud
        \/ /\ loaded[s].notes \in {{}, TornFile}
           /\ scars \cap {"wnotes", "notes", "removing"} # {}

\* Whoever keeps running vc_volpkg_upgrade has the latest version in the end,
\* wherever earlier runs died outside the fatal places.
UpgradeConverges ==
    config \in Versions ~> (config = Latest \/ scars \cap Fatal # {})
=============================================================================
