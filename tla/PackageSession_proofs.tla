------------------------ MODULE PackageSession_proofs ------------------------
(***************************************************************************)
(* Proofs about VolumePkg and PackageSession, for any volumes, segments,   *)
(* renders and heights and any number of deaths.                           *)
(***************************************************************************)
EXTENDS PackageSession, FiniteSetTheorems, TLAPS

(***************************************************************************)
(* The package.                                                            *)
(***************************************************************************)
\* Type invariant of what the programs make.
PackageTypes ==
    /\ config \in Versions \cup {Torn, Missing}
    /\ before \in Versions \cup {Missing}
    /\ volume \in [Volumes -> Entries]
    /\ render \in [Renders -> Entries \ {"untyped"}]

Untyped == {v \in Volumes : volume[v] = "untyped"}

\* Where an upgrade is, it knows the version.
StepInv ==
    /\ pc \in {"v3dir", "v3move", "v3meta", "v4segs", "v4save"} => config = 4
    /\ pc = "v5vols" => config = 5 /\ Untyped \subseteq todo
    /\ pc \in {"v6dirs", "v6save"} => config = 6
    /\ pc = "open" /\ prog = "upgrade" => config = Latest

\* Only a package that is being made lacks its file, and then it has nothing in it; one
\* without a directory has no file.
FileInv ==
    /\ config \in Versions \cup {Missing}
    /\ config = Missing => /\ Present(volume) = {}
                           /\ \/ pc \in {"off", "mkdirs"} /\ "root" \notin dirs
                              \/ pc = "mksave" /\ "root" \in dirs
    /\ "root" \notin dirs \/ pc \in {"mkdirs", "mksave"} => config = Missing

\* Only what a program is making is incomplete, and it knows which.
EntryInv ==
    /\ \A v \in Volumes : /\ volume[v] # "torn"
                          /\ volume[v] = "bare" => pc \in {"v3meta", "pkmeta"} /\ v = at
    /\ \A r \in Renders : /\ render[r] # "torn"
                          /\ render[r] = "bare" => pc = "rdsave"
    /\ \A q, r \in Renders : render[q] = "bare" /\ render[r] = "bare" => q = r
    /\ config >= 6 => Untyped = {}
    /\ top => config = 3 \/ pc \in {"v3dir", "v3move"}

\* As long as no program died in a fatal place, no step is taken back.
Sound == scars \cap Fatal = {}

PackageInv ==
    /\ PackageTypes
    /\ Sound => StepInv /\ FileInv /\ EntryInv /\ pc # "restore"

-----------------------------------------------------------------------------
(***************************************************************************)
(* The window.                                                             *)
(***************************************************************************)
LoadedClouds == Clouds \cup {{}, NoFile, TornFile}
SegmentTypes == [meta : {"absent", "bare", "torn", "whole"}, vcps : BOOLEAN, vcano : BOOLEAN,
                 cloud : Clouds \cup {NoFile, TornFile}, notes : LoadedClouds]
LoadedTypes  == [cloud : LoadedClouds, notes : LoadedClouds]

WindowSteps  == {"session", "newmeta", "newvol", "save", "wlink", "wcloud", "walink", "wnotes", "wvol"}
UpgradeSteps == {"v3", "v3dir", "v3move", "v3meta", "v4segs", "v4save", "v5vols"}

\* Only vc_volpkg_upgrade raises an early version and puts one back.
ProgramInv ==
    /\ pc \in UpgradeSteps => prog = "upgrade" /\ before \in 3 .. 5
    /\ pc = "restore" => prog = "upgrade"
    /\ pc \notin WindowSteps /\ prog = "vc" => todo = {}

\* Type invariant of segmentations on file and in the window.
WindowTypes ==
    /\ segment \in [Segments -> SegmentTypes]
    /\ loaded \in [Segments -> LoadedTypes]
    /\ pc \in WindowSteps => config >= 6 /\ prog = "vc" /\ todo \subseteq Shown
    /\ pc \in WindowSteps \ {"session", "save"} => at \in Segments
    /\ pc \in {"session", "newmeta", "newvol"} => todo = {}
    /\ pc \notin WindowSteps => loaded = [s \in Segments |-> NotLoaded]

\* A package of an early version, or one that may be written back to it.
Early == config \in 3 .. 5 \/ (prog = "upgrade" /\ before \in 3 .. 5)

\* No annotations on file are older than the link to the cloud, which no version
\* before the sixth has.
LinkInv ==
    /\ \A s \in Segments : ~segment[s].vcps => ~segment[s].vcano /\ segment[s].notes = NoFile
    /\ Early => \A s \in Segments : segment[s].notes = NoFile

\* Nothing that cuts off the annotations has happened.
NotesWhole == scars \cap {"wnotes", "notes", "removing"} = {}

\* Annotations on file reach no slice that the cloud does not have, and those of a linked
\* file are complete, but for the one that is being written.
Fit(dir, held, writing) ==
    /\ dir.cloud \in Clouds /\ dir.notes \in Clouds => dir.notes \subseteq dir.cloud
    /\ held.cloud \in Clouds /\ dir.notes \in Clouds => dir.notes \subseteq held.cloud
    /\ (dir.cloud \in Clouds \/ held.cloud \in Clouds) /\ NotesWhole /\ dir.vcano /\ ~writing
         => dir.notes \in Clouds
    /\ held.cloud = {} => ~dir.vcps

NotesInv == \A s \in Segments : Fit(segment[s], loaded[s], pc = "wnotes" /\ s = at)

\* AnnotationsAlign for one segmentation.
Aligns(held) ==
    held.cloud \in Clouds =>
        held.notes = held.cloud \/ (held.notes \in {{}, TornFile} /\ ~NotesWhole)

\* The steps of a save follow one another on the same segmentation.
SaveInv ==
    /\ pc \in {"wlink", "wcloud", "walink", "wnotes"} => loaded[at].cloud \in Clouds \cup {TornFile}
    /\ pc \in {"wcloud", "walink", "wnotes"} => segment[at].vcps
    /\ pc \in {"walink", "wnotes"} => segment[at].cloud = loaded[at].cloud
    /\ pc = "wnotes" => segment[at].vcano
    /\ pc \in {"wlink", "wcloud", "walink", "wnotes"} => at \in todo \/ todo = {}
    /\ pc = "newvol" => ~segment[at].vcps

WindowInv == ProgramInv /\ WindowTypes /\ LinkInv /\ NotesInv /\ SaveInv /\ AnnotationsAlign
-----------------------------------------------------------------------------
(***************************************************************************)
(* The package keeps its invariant.                                        *)
(***************************************************************************)
LEMMA PackageInit == Init => PackageInv
<1> SUFFICES ASSUME Init PROVE PackageInv
  OBVIOUS
<1> USE DEF Init, Entries, Versions, Latest, Missing, Torn
<1>1. volume \in [Volumes -> {"absent", "untyped", "whole"}]
  BY DEF VolumesOf
<1>2. PackageTypes
  BY <1>1 DEF PackageTypes
<1>3. config >= 6 => \A v \in Volumes : volume[v] # "untyped"
  BY DEF VolumesOf
<1>4. /\ config = Missing => "root" \notin dirs /\ \A v \in Volumes : volume[v] = "absent"
      /\ config # Missing => "root" \in dirs
  BY DEF VolumesOf, DirsOf, Required
<1>5. StepInv
  BY DEF StepInv
<1>6. FileInv
  BY <1>1, <1>4 DEF FileInv, Present
<1>7. EntryInv
  BY <1>1, <1>3 DEF EntryInv, Untyped
<1> QED
  BY <1>2, <1>5, <1>6, <1>7 DEF PackageInv

\* A step that leaves the package's directories and its version alone.
LEMMA QuietStep ==
    ASSUME PackageInv, UNCHANGED <<config, top, volume, render>>,
           "root" \in dirs' \/ dirs' = dirs,
           before' \in {before, Missing}, scars \subseteq scars',
           pc \in WindowSteps \cup {"open"}, pc' \in WindowSteps \cup {"off"}
    PROVE  PackageInv'
<1>1. Sound' => Sound
  BY DEF Sound
<1>2. PackageTypes'
  BY DEF PackageInv, PackageTypes
<1> SUFFICES ASSUME Sound' PROVE StepInv' /\ FileInv' /\ EntryInv' /\ pc' # "restore"
  BY <1>2 DEF PackageInv
<1>3. pc' \notin {"restore", "mkdirs", "mksave", "open", "v5vols", "v3dir", "v3move", "v3meta", "v4segs",
                  "v4save", "v6dirs", "v6save"}
  BY DEF WindowSteps
<1>4. pc \notin {"off", "mkdirs", "mksave", "v3meta", "pkmeta", "rdsave", "v3dir", "v3move"}
  BY DEF WindowSteps
<1>5. StepInv'
  BY <1>3 DEF StepInv
<1>6. FileInv'
  BY <1>1, <1>3, <1>4 DEF FileInv, PackageInv, Present
<1>7. EntryInv'
  BY <1>1, <1>4 DEF EntryInv, PackageInv, Untyped
<1> QED
  BY <1>3, <1>5, <1>6, <1>7

LEMMA UpgradeKeepsPackage ==
    ASSUME PackageInv, Upgrade
    PROVE  PackageInv'
<1> USE DEF PackageInv, PackageTypes, Sound, Entries, Versions, Latest, Missing, Torn, disk, program
<1>1. CASE V3Config
  <2>1. PackageTypes'
    BY <1>1 DEF V3Config, Goto
  <2> QED
    BY <1>1, <2>1 DEF V3Config, Goto, StepInv, FileInv, EntryInv, Untyped, Present
<1>2. CASE V3VolumesDir
  BY <1>2 DEF V3VolumesDir, Goto, StepInv, FileInv, EntryInv, Untyped, Present
<1>3. CASE V3NothingToMove
  BY <1>3 DEF V3NothingToMove, Exit, StepInv, FileInv, EntryInv, Untyped, Present
<1>4. CASE V3VolumeMeta
  <2>1. volume' \in [Volumes -> Entries] /\ UNCHANGED <<config, dirs, before, top, render, scars>>
    BY <1>4 DEF V3VolumeMeta
  <2>2. PackageTypes'
    BY <2>1
  <2> SUFFICES ASSUME Sound PROVE StepInv' /\ FileInv' /\ EntryInv' /\ pc' # "restore"
    BY <2>1, <2>2
  <2>3. pc = "v3meta" /\ config = 4 /\ pc' = "v4segs"
    BY <1>4 DEF V3VolumeMeta, StepInv
  <2>4. \A v \in Volumes : volume'[v] = IF v = at THEN "untyped" ELSE volume[v]
    BY <1>4 DEF V3VolumeMeta
  <2>5. StepInv' /\ FileInv'
    BY <2>1, <2>3 DEF StepInv, FileInv
  <2>6. EntryInv'
    BY <2>1, <2>3, <2>4 DEF EntryInv
  <2> QED
    BY <2>3, <2>5, <2>6
<1>5. ASSUME NEW v \in Volumes, V3MoveSlices(v) PROVE PackageInv'
  BY <1>5 DEF V3MoveSlices, StepInv, FileInv, EntryInv, Untyped, Present
<1>6. ASSUME NEW v \in Volumes, V5VolumeMeta(v) PROVE PackageInv'
  BY <1>6 DEF V5VolumeMeta, Over, StepInv, FileInv, EntryInv, Untyped, Present
<1>7. ASSUME NEW s \in Segments, V4SegmentMeta(s) PROVE PackageInv'
  BY <1>7 DEF V4SegmentMeta, Over, StepInv, FileInv, EntryInv, Untyped, Present
<1>8. CASE V4Lost
  BY <1>8 DEF V4Lost, Exit, StepInv, FileInv, EntryInv, Untyped, Present
<1>9. CASE V4RendersDir
  BY <1>9 DEF V4RendersDir, Goto, StepInv, FileInv, EntryInv, Untyped, Present
<1>10. CASE V4SaveLost
  BY <1>10 DEF V4SaveLost, Exit, StepInv, FileInv, EntryInv, Untyped, Present
<1>11. CASE V4Save
  BY <1>11 DEF V4Save, Over, StepInv, FileInv, EntryInv, Untyped, Present
<1>12. CASE V5Fails
  BY <1>12 DEF V5Fails, Exit, StepInv, FileInv, EntryInv, Untyped, Present
<1>13. CASE V5Save
  BY <1>13 DEF V5Save, Goto, StepInv, FileInv, EntryInv, Untyped, Present
<1>14. CASE V6Dirs
  BY <1>14 DEF V6Dirs, Goto, StepInv, FileInv, EntryInv, Untyped, Present
<1>15. CASE V6Save
  BY <1>15 DEF V6Save, Goto, StepInv, FileInv, EntryInv, Untyped, Present
<1> QED
  BY <1>1, <1>2, <1>3, <1>4, <1>5, <1>6, <1>7, <1>8, <1>9, <1>10, <1>11, <1>12, <1>13, <1>14, <1>15
  DEF Upgrade

LEMMA StartKeepsPackage ==
    ASSUME PackageInv, RunUpgrade \/ RunPackager \/ (\E p \in {"vc", "packager", "render"} : RunProgram(p))
    PROVE  PackageInv'
<1> USE DEF PackageInv, PackageTypes, Sound, Entries, Versions, Latest, Missing, Torn, disk
<1>1. CASE RunUpgrade
  BY <1>1 DEF RunUpgrade, FirstStep, LoopOf, StepInv, FileInv, EntryInv, Untyped, Present
<1>2. CASE RunPackager
  BY <1>2 DEF RunPackager, StepInv, FileInv, EntryInv, Untyped, Present
<1>3. ASSUME NEW p \in {"vc", "packager", "render"}, RunProgram(p) PROVE PackageInv'
  BY <1>3 DEF RunProgram, StepInv, FileInv, EntryInv, Untyped, Present
<1> QED
  BY <1>1, <1>2, <1>3

\* After an upgrade nothing stands in the way of opening: the restore at its end writes
\* no old version over a sound package.
LEMMA OpenKeepsPackage ==
    ASSUME PackageInv, OpenUpgraded \/ Restore
    PROVE  PackageInv'
<1> USE DEF PackageInv, PackageTypes, Sound
<1>1. CASE OpenUpgraded
  <2>1. UNCHANGED <<config, top, volume, render, scars>> /\ pc = "open" /\ prog = "upgrade"
    BY <1>1 DEF OpenUpgraded, AtOpen
  <2>2. pc' \in {"off", "restore"} /\ before' \in {before, Missing}
    BY <1>1 DEF OpenUpgraded, Exit, Goto
  <2>3. PackageTypes'
    BY <2>1, <2>2
  <2> SUFFICES ASSUME Sound PROVE StepInv' /\ FileInv' /\ EntryInv' /\ pc' # "restore"
    BY <2>1, <2>3
  <2>4. config = Latest
    BY <2>1 DEF StepInv
  <2>5. Readable
    <3>1. EntryInv /\ config >= 6
      BY <2>4 DEF Latest
    <3>2. \A v \in Volumes : volume[v] \in Entries \ {"torn", "bare", "untyped"}
      BY <2>1, <3>1 DEF EntryInv, Untyped
    <3>3. \A r \in Renders : render[r] \in {"absent", "whole"}
      BY <2>1, <3>1 DEF EntryInv, Entries
    <3> QED
      BY <3>2, <3>3 DEF Readable, Entries
  <2>6. pc' = "off"
    BY <1>1, <2>5 DEF OpenUpgraded, Exit
  <2>7. "root" \in dirs'
    BY <1>1 DEF OpenUpgraded, AtOpen, Required
  <2> QED
    BY <2>1, <2>4, <2>6, <2>7 DEF StepInv, FileInv, EntryInv, Untyped, Latest, Missing, Versions
<1>2. CASE Restore
  <2>1. ~Sound'
    BY <1>2 DEF Restore
  <2>2. PackageTypes'
    BY <1>2 DEF Restore, Exit, Versions, Missing
  <2> QED
    BY <2>1, <2>2
<1> QED
  BY <1>1, <1>2

LEMMA FillKeepsPackage ==
    ASSUME PackageInv, Fill
    PROVE  PackageInv'
<1> USE DEF PackageInv, PackageTypes, Sound, Entries, Versions, Latest, Missing, Torn, disk
<1>1. CASE MakeDirs
  BY <1>1 DEF MakeDirs, Goto, Required, StepInv, FileInv, EntryInv, Untyped, Present
<1>2. CASE SaveNew
  <2>1. config' = 7 /\ pc = "mksave" /\ pc' = "pksave" /\ UNCHANGED <<dirs, top, volume, render, before, at, scars>>
    BY <1>2 DEF SaveNew, Goto
  <2> SUFFICES ASSUME Sound PROVE StepInv' /\ FileInv' /\ EntryInv' /\ pc' # "restore"
    BY <2>1
  <2>2. config = Missing /\ \A v \in Volumes : volume[v] = "absent"
    BY <2>1 DEF FileInv, Present
  <2>3. EntryInv'
    BY <2>1, <2>2 DEF EntryInv, Untyped
  <2>4. "root" \in dirs \/ config = Missing
    BY <2>2
  <2> QED
    BY <2>1, <2>3 DEF StepInv, FileInv
<1>3. CASE OpenToFill
  BY <1>3 DEF OpenToFill, AtOpen, Required, Goto, Exit, StepInv, FileInv, EntryInv, Untyped, Present
<1>4. CASE SaveConfig
  BY <1>4 DEF SaveConfig, Goto, StepInv, FileInv, EntryInv, Untyped, Present
<1>5. CASE NoVolumeAdded
  BY <1>5 DEF NoVolumeAdded, Exit, StepInv, FileInv, EntryInv, Untyped, Present
<1>6. CASE SaveVolume
  BY <1>6 DEF SaveVolume, Exit, StepInv, FileInv, EntryInv, Untyped, Present
<1>7. ASSUME NEW v \in Volumes, NewVolume(v) PROVE PackageInv'
  BY <1>7 DEF NewVolume, StepInv, FileInv, EntryInv, Untyped, Present
<1>8. ASSUME NEW r \in Renders, NewRender(r) PROVE PackageInv'
  BY <1>8 DEF NewRender, Goto, StepInv, FileInv, EntryInv, Untyped, Present
<1>9. ASSUME NEW r \in Renders, SaveRender(r) PROVE PackageInv'
  BY <1>9 DEF SaveRender, Exit, StepInv, FileInv, EntryInv, Untyped, Present
<1> QED
  BY <1>1, <1>2, <1>3, <1>4, <1>5, <1>6, <1>7, <1>8, <1>9 DEF Fill

\* Death in a fatal place makes no promise; anywhere else it leaves what a later run can
\* go on from.
LEMMA CrashKeepsPackage ==
    ASSUME PackageInv, Crash
    PROVE  PackageInv'
<1> USE DEF PackageInv, PackageTypes, Sound, Entries, Versions, Missing, Torn, Dies, Exit
<1>1. CASE Killed
  <2>1. UNCHANGED <<config, top, volume, render, dirs>> /\ pc' = "off" /\ before' = Missing
    BY <1>1 DEF Killed, disk
  <2>2. PackageTypes' /\ scars' = scars \cup {pc} /\ pc # "off"
    BY <1>1, <2>1 DEF Killed
  <2> SUFFICES ASSUME Sound' PROVE StepInv' /\ FileInv' /\ EntryInv' /\ pc' # "restore"
    BY <2>1, <2>2
  <2>3. Sound /\ pc \notin Fatal
    BY <2>2
  <2> QED
    BY <2>1, <2>2, <2>3 DEF Fatal, StepInv, FileInv, EntryInv, Untyped, Present
<1>2. CASE TearConfig
  BY <1>2 DEF TearConfig, Fatal
<1>3. CASE HalfMade
  BY <1>3 DEF HalfMade, Fatal
<1>4. ASSUME NEW v \in Volumes, TearVolume(v) PROVE PackageInv'
  BY <1>4 DEF TearVolume, Fatal
<1>5. ASSUME NEW r \in Renders, TearRender(r) PROVE PackageInv'
  BY <1>5 DEF TearRender, Fatal
<1>6. ASSUME NEW s \in Segments, TearSegment(s) PROVE PackageInv'
  BY <1>6 DEF TearSegment, StepInv, FileInv, EntryInv, Untyped, Present
<1> QED
  BY <1>1, <1>2, <1>3, <1>4, <1>5, <1>6 DEF Crash
-----------------------------------------------------------------------------
(***************************************************************************)
(* Annotations and clouds.                                                 *)
(***************************************************************************)
LEMMA CloudEnds ==
    ASSUME NEW cloud \in Clouds
    PROVE  \E a, b \in Nat : a <= b /\ cloud = a .. b
BY HeightsAssumption DEF Clouds

LEMMA IntervalEnds ==
    ASSUME NEW a \in Nat, NEW b \in Nat, a <= b
    PROVE  A!Min(a .. b) = a /\ A!Max(a .. b) = b
<1>1. \A x \in a .. b : (\A y \in a .. b : x =< y) <=> x = a
  OBVIOUS
<1>2. \A x \in a .. b : (\A y \in a .. b : x >= y) <=> x = b
  OBVIOUS
<1>3. a \in a .. b /\ b \in a .. b
  OBVIOUS
<1>4. (CHOOSE x \in a .. b : \A y \in a .. b : x =< y) = a
  BY <1>1, <1>3, Zenon
<1>5. (CHOOSE x \in a .. b : \A y \in a .. b : x >= y) = b
  BY <1>2, <1>3, Zenon
<1> QED
  BY <1>4, <1>5 DEF A!Min, A!Max

LEMMA BlankRows ==
    ASSUME NEW a, NEW b
    PROVE  DOMAIN A!Blank(a, b) = a .. b
BY DEF A!Blank

\* Annotations that reach no slice the cloud lacks fit it once they are aligned.
LEMMA AlignedFits ==
    ASSUME NEW cloud \in Clouds, NEW notes \in Clouds, notes \subseteq cloud
    PROVE  AlignedNotes(cloud, notes) = cloud
<1> DEFINE rows == [s \in cloud |-> s]
           marks == [s \in notes |-> [p \in 1..2 |-> {}]]
<1>1. PICK a, b \in Nat : a <= b /\ cloud = a .. b
  BY CloudEnds
<1>2. PICK c, d \in Nat : c <= d /\ notes = c .. d
  BY CloudEnds
<1>3. a <= c /\ d <= b
  BY <1>1, <1>2
<1>4. A!First(rows) = a /\ A!Last(rows) = b /\ A!First(marks) = c /\ A!Last(marks) = d
  BY <1>1, <1>2, IntervalEnds DEF A!First, A!Last
<1>5. CASE A!Height(rows) = A!Height(marks)
  <2>1. Cardinality(a .. b) = b - a + 1 /\ Cardinality(c .. d) = d - c + 1
    BY <1>1, <1>2, FS_Interval
  <2>2. DOMAIN rows = a .. b /\ DOMAIN marks = c .. d
    BY <1>1, <1>2
  <2>3. b - a + 1 = d - c + 1
    BY <1>5, <2>1, <2>2, Zenon DEF A!Height, A!Cardinality, Cardinality
  <2>4. a = c /\ b = d
    BY <1>3, <2>3
  <2> QED
    BY <1>1, <1>2, <1>5, <2>4 DEF AlignedNotes, A!Aligned
<1>6. CASE A!Height(rows) # A!Height(marks)
  <2> DEFINE front == A!Blank(a, c - 1)
             back == A!Blank(d + 1, b)
  <2>1. A!Aligned(rows, marks) = A!Over(A!Over(marks, front), back)
    <3> HIDE DEF rows, marks
    <3>1. a + (c - a) - 1 = c - 1 /\ d + (b - d) = b /\ ~(c - a < 0) /\ ~(b - d < 0)
      BY <1>1, <1>2, <1>3
    <3> QED
      BY <1>4, <1>6, <3>1 DEF A!Aligned
  <2>2. DOMAIN A!Over(A!Over(marks, front), back) = notes \cup (a .. c - 1) \cup (d + 1 .. b)
    BY BlankRows DEF A!Over
  <2>3. notes \cup (a .. c - 1) \cup (d + 1 .. b) = cloud
    BY <1>1, <1>2, <1>3
  <2> QED
    BY <2>1, <2>2, <2>3 DEF AlignedNotes
<1> QED
  BY <1>5, <1>6

\* What a merge adds at an end of a cloud leaves a cloud.
LEMMA GrownCloud ==
    ASSUME NEW cloud \in Clouds, NEW x \in Heights,
           x - 1 \in cloud \/ x + 1 \in cloud, x \notin cloud
    PROVE  cloud \cup {x} \in Clouds
<1>1. PICK a, b \in Heights : cloud = a .. b
  BY DEF Clouds
<1>2. a \in Nat /\ b \in Nat /\ x \in Nat
  BY HeightsAssumption
<1>3. CASE x - 1 \in cloud
  <2>1. x = b + 1 /\ cloud \cup {x} = a .. x
    BY <1>1, <1>2, <1>3
  <2> QED
    BY <2>1 DEF Clouds
<1>4. CASE x + 1 \in cloud
  <2>1. x = a - 1 /\ cloud \cup {x} = x .. b
    BY <1>1, <1>2, <1>4
  <2> QED
    BY <2>1 DEF Clouds
<1> QED
  BY <1>3, <1>4

LEMMA CloudsAreNoMarks ==
    /\ {} \notin Clouds /\ NoFile \notin Clouds /\ TornFile \notin Clouds
    /\ {} # NoFile /\ {} # TornFile /\ NoFile # TornFile
BY HeightsAssumption DEF Clouds, NoFile, TornFile
-----------------------------------------------------------------------------
(***************************************************************************)
(* The window keeps its invariant.                                         *)
(***************************************************************************)
LEMMA WindowInit == Init => WindowInv
<1> SUFFICES ASSUME Init PROVE WindowInv
  OBVIOUS
<1>1. \A s \in Segments : /\ segment[s] \in SegmentTypes
                          /\ segment[s].notes = NoFile /\ ~segment[s].vcano
  <2> DEFINE Found(dir) == dir \in SegmentTypes /\ dir.notes = NoFile /\ ~dir.vcano
  <2>1. Found(NoSegment)
    BY DEF NoSegment, SegmentTypes, LoadedClouds
  <2>2. \A c \in Clouds \cup {NoFile} : Found([NoSegment EXCEPT !.meta = "bare", !.cloud = c])
    BY DEF NoSegment, SegmentTypes, LoadedClouds
  <2>3. \A c \in Clouds : Found([NoSegment EXCEPT !.meta = "whole", !.vcps = TRUE, !.cloud = c])
    BY DEF NoSegment, SegmentTypes, LoadedClouds
  <2>4. \A dir \in SegmentsOf(config) : Found(dir)
    <3> HIDE DEF Found
    <3> QED
      BY <2>1, <2>2, <2>3 DEF SegmentsOf
  <2> QED
    BY <2>4 DEF Init
<1>2. segment \in [Segments -> SegmentTypes]
  BY <1>1 DEF Init
<1>3. \A s \in Segments : loaded[s] = NotLoaded /\ NotLoaded \in LoadedTypes
  BY DEF Init, NotLoaded, LoadedTypes, LoadedClouds
<1>4. NotLoaded.cloud = NoFile
  BY DEF NotLoaded
<1>5. ProgramInv /\ WindowTypes
  BY <1>2, <1>3 DEF Init, ProgramInv, WindowTypes, UpgradeSteps, WindowSteps
<1>6. LinkInv /\ SaveInv
  BY <1>1 DEF Init, LinkInv, SaveInv
<1>7. NotesInv /\ AnnotationsAlign
  BY <1>1, <1>3, <1>4, CloudsAreNoMarks DEF NotesInv, Fit, AnnotationsAlign
<1> QED
  BY <1>5, <1>6, <1>7 DEF WindowInv

\* Steps of the other programs, and of VC before its window is there.
LEMMA ProgramSteps ==
    ASSUME ProgramInv,
           \/ RunUpgrade \/ RunPackager \/ \E p \in {"vc", "packager", "render"} : RunProgram(p)
           \/ Upgrade \/ OpenUpgraded \/ Restore \/ Fill
    PROVE  /\ pc \notin WindowSteps /\ pc' \notin WindowSteps
           /\ ProgramInv' /\ (Early' => Early) /\ scars' = scars
           /\ \/ segment' = segment
              \/ \E s \in Segments : V4SegmentMeta(s)
<1> USE DEF ProgramInv, Early, WindowSteps, UpgradeSteps, disk, program, Versions, Latest, Missing
<1>1. CASE RunUpgrade
  BY <1>1 DEF RunUpgrade, FirstStep
<1>2. CASE RunPackager
  BY <1>2 DEF RunPackager
<1>3. ASSUME NEW p \in {"vc", "packager", "render"}, RunProgram(p)
      PROVE  /\ pc \notin WindowSteps /\ pc' \notin WindowSteps
             /\ ProgramInv' /\ (Early' => Early) /\ scars' = scars /\ segment' = segment
  BY <1>3 DEF RunProgram
<1>4. CASE V3Config \/ V3VolumesDir \/ V3NothingToMove \/ V3VolumeMeta
  BY <1>4 DEF V3Config, V3VolumesDir, V3NothingToMove, V3VolumeMeta, Goto, Exit
<1>5. ASSUME NEW v \in Volumes, V3MoveSlices(v) \/ V5VolumeMeta(v)
      PROVE  /\ pc \notin WindowSteps /\ pc' \notin WindowSteps
             /\ ProgramInv' /\ (Early' => Early) /\ scars' = scars /\ segment' = segment
  BY <1>5 DEF V3MoveSlices, V5VolumeMeta, Over
<1>6. ASSUME NEW s \in Segments, V4SegmentMeta(s)
      PROVE  /\ pc \notin WindowSteps /\ pc' \notin WindowSteps
             /\ ProgramInv' /\ (Early' => Early) /\ scars' = scars
  BY <1>6 DEF V4SegmentMeta, Over
<1>7. CASE V4Lost \/ V4RendersDir \/ V4SaveLost \/ V4Save
  BY <1>7 DEF V4Lost, V4RendersDir, V4SaveLost, V4Save, Goto, Over, Exit
<1>8. CASE V5Fails \/ V5Save \/ V6Dirs \/ V6Save
  BY <1>8 DEF V5Fails, V5Save, V6Dirs, V6Save, Goto, Exit
<1>9. CASE OpenUpgraded \/ Restore
  BY <1>9 DEF OpenUpgraded, Restore, AtOpen, Goto, Exit
<1>10. CASE MakeDirs \/ SaveNew \/ OpenToFill
  BY <1>10 DEF MakeDirs, SaveNew, OpenToFill, AtOpen, Goto, Exit
<1>11. CASE SaveConfig \/ NoVolumeAdded \/ SaveVolume
  BY <1>11 DEF SaveConfig, NoVolumeAdded, SaveVolume, Goto, Exit
<1>12. ASSUME NEW v \in Volumes, NewVolume(v)
       PROVE  /\ pc \notin WindowSteps /\ pc' \notin WindowSteps
              /\ ProgramInv' /\ (Early' => Early) /\ scars' = scars /\ segment' = segment
  BY <1>12 DEF NewVolume
<1>13. ASSUME NEW r \in Renders, NewRender(r) \/ SaveRender(r)
       PROVE  /\ pc \notin WindowSteps /\ pc' \notin WindowSteps
              /\ ProgramInv' /\ (Early' => Early) /\ scars' = scars /\ segment' = segment
  BY <1>13 DEF NewRender, SaveRender, Goto, Exit
<1> QED
  BY <1>1, <1>2, <1>3, <1>4, <1>5, <1>6, <1>7, <1>8, <1>9, <1>10, <1>11, <1>12, <1>13
  DEF Upgrade, Fill

\* With nothing in the window only the files count.
LEMMA NothingLoaded ==
    ASSUME WindowInv, loaded' = [s \in Segments |-> NotLoaded],
           segment' \in [Segments -> SegmentTypes], scars \subseteq scars',
           pc = "wnotes" => ~NotesWhole',
           \A s \in Segments :
               \/ segment'[s] = segment[s]
               \/ segment'[s].notes = NoFile /\ ~segment'[s].vcano
               \/ segment'[s].notes = segment[s].notes /\ segment'[s].vcano = segment[s].vcano
                  /\ segment'[s].cloud \in {segment[s].cloud, NoFile, TornFile}
               \/ /\ segment'[s].cloud \in {segment[s].cloud, NoFile}
                  /\ segment'[s].notes \in {segment[s].notes, NoFile, TornFile}
                  /\ ~NotesWhole'
    PROVE  NotesInv' /\ AnnotationsAlign'
<1>1. \A s \in Segments : loaded'[s].cloud = NoFile
  BY DEF NotLoaded
<1>2. NotesWhole' => NotesWhole
  BY DEF NotesWhole
<1>3. AnnotationsAlign'
  BY <1>1, CloudsAreNoMarks DEF AnnotationsAlign
<1>4. NotesInv'
  BY <1>1, <1>2, CloudsAreNoMarks DEF WindowInv, NotesInv, Fit, NotesWhole
<1> QED
  BY <1>3, <1>4

LEMMA ProgramsKeepWindow ==
    ASSUME WindowInv, UNCHANGED window,
           \/ RunUpgrade \/ RunPackager \/ \E p \in {"vc", "packager", "render"} : RunProgram(p)
           \/ Upgrade \/ OpenUpgraded \/ Restore \/ Fill
    PROVE  WindowInv'
<1>1. /\ pc \notin WindowSteps /\ pc' \notin WindowSteps
      /\ ProgramInv' /\ (Early' => Early) /\ scars' = scars
      /\ segment' = segment \/ \E s \in Segments : V4SegmentMeta(s)
  BY ProgramSteps DEF WindowInv
<1>2. loaded = [s \in Segments |-> NotLoaded] /\ loaded' = loaded
  BY <1>1 DEF WindowInv, WindowTypes, window
<1>3. SaveInv'
  BY <1>1 DEF SaveInv, WindowSteps
<1>4. pc \notin WindowSteps /\ pc' # "wnotes" /\ pc # "wnotes"
  BY <1>1 DEF WindowSteps
<1>5. CASE segment' = segment
  <2>1. WindowTypes' /\ LinkInv'
    BY <1>1, <1>2, <1>5 DEF WindowInv, WindowTypes, LinkInv, WindowSteps
  <2>2. NotesInv' /\ AnnotationsAlign'
    BY <1>1, <1>2, <1>4, <1>5, NothingLoaded DEF WindowInv, WindowTypes
  <2> QED
    BY <1>1, <1>3, <2>1, <2>2 DEF WindowInv
<1>6. ASSUME NEW t \in Segments, V4SegmentMeta(t) PROVE WindowInv'
  <2>1. segment[t].notes = NoFile
    BY <1>6 DEF WindowInv, LinkInv, Early, ProgramInv, UpgradeSteps, V4SegmentMeta
  <2>2. segment \in [Segments -> SegmentTypes]
    BY DEF WindowInv, WindowTypes
  <2>3. /\ FreshMeta(t) \in SegmentTypes /\ ~FreshMeta(t).vcano
        /\ FreshMeta(t).notes = NoFile
    <3>1. (segment[t].cloud # NoFile) \in BOOLEAN
      OBVIOUS
    <3> QED
      BY <2>1, <2>2, <3>1 DEF FreshMeta, SegmentTypes
  <2>4. segment' = [segment EXCEPT ![t] = FreshMeta(t)]
    BY <1>6 DEF V4SegmentMeta
  <2>5. segment' \in [Segments -> SegmentTypes]
    BY <2>2, <2>3, <2>4
  <2>6. WindowTypes'
    BY <1>1, <1>2, <2>5 DEF WindowTypes, WindowInv, WindowSteps
  <2>7. \A s \in Segments : segment'[s] = IF s = t THEN FreshMeta(t) ELSE segment[s]
    BY <2>2, <2>4
  <2>8. LinkInv'
    BY <1>1, <2>3, <2>7 DEF WindowInv, LinkInv
  <2>9. NotesInv' /\ AnnotationsAlign'
    BY <1>1, <1>2, <1>4, <2>3, <2>5, <2>7, NothingLoaded
  <2> QED
    BY <1>1, <1>3, <2>6, <2>8, <2>9 DEF WindowInv
<1> QED
  BY <1>1, <1>5, <1>6

\* Annotations that a crash cuts off are noted as cut off.
LEMMA CrashKeepsWindow ==
    ASSUME WindowInv, WindowCrash
    PROVE  WindowInv'
<1> DEFINE Left(s) ==
        \/ segment'[s] = segment[s]
        \/ /\ segment'[s].notes = segment[s].notes /\ segment'[s].vcano = segment[s].vcano
           /\ segment'[s].vcps = segment[s].vcps
           /\ segment'[s].cloud \in {segment[s].cloud, NoFile, TornFile}
        \/ /\ segment'[s].cloud \in {segment[s].cloud, NoFile}
           /\ segment'[s].notes \in {segment[s].notes, NoFile, TornFile}
           /\ segment'[s].vcano = segment[s].vcano /\ segment'[s].vcps = segment[s].vcps
           /\ segment[s].vcano \/ segment'[s].notes \in {segment[s].notes, NoFile}
           /\ ~Early \/ segment'[s].notes \in {segment[s].notes, NoFile}
           /\ ~NotesWhole'
<1>1. PICK scar : Dies(scar) /\ NoWindow
                  /\ config' \in {config, Torn}
  BY DEF WindowCrash, Crash, Killed, TearConfig, HalfMade, TearVolume, TearRender, TearSegment,
         TearWrite, TearRemoval, Tears, disk
<1>2. /\ pc' = "off" /\ prog' = "none" /\ todo' = {} /\ scars \subseteq scars'
      /\ loaded' = [s \in Segments |-> NotLoaded]
  BY <1>1 DEF Dies, Exit, NoWindow
<1>3. ProgramInv' /\ (Early' => Early)
  BY <1>1, <1>2 DEF ProgramInv, Early, UpgradeSteps, Torn
<1>4. SaveInv'
  BY <1>2 DEF SaveInv
<1>5. segment \in [Segments -> SegmentTypes] /\ WindowTypes /\ SaveInv /\ LinkInv
  BY DEF WindowInv, WindowTypes
<1>6. /\ segment' \in [Segments -> SegmentTypes]
      /\ \A s \in Segments : Left(s)
      /\ pc = "wnotes" => ~NotesWhole'
  <2>1. CASE Killed
    <3>1. segment' = segment /\ scars' = scars \cup {pc}
      BY <2>1 DEF Killed, disk, Dies
    <3> QED
      BY <1>5, <3>1 DEF NotesWhole
  <2>2. CASE TearConfig \/ HalfMade \/ (\E v \in Volumes : TearVolume(v)) \/ (\E r \in Renders : TearRender(r))
    <3>1. segment' = segment
      BY <2>2 DEF TearConfig, HalfMade, TearVolume, TearRender
    <3>2. pc # "wnotes"
      BY <2>2 DEF TearConfig, HalfMade, TearVolume, TearRender, SavesConfig, SavesVolume
    <3> QED
      BY <1>5, <3>1, <3>2
  <2>3. ASSUME NEW t \in Segments, TearSegment(t)
        PROVE  segment' \in [Segments -> SegmentTypes] /\ (\A s \in Segments : Left(s)) /\ pc # "wnotes"
    BY <1>5, <2>3 DEF TearSegment, SegmentTypes
  <2>4. CASE TearWrite
    <3>1. at \in Segments
      BY <1>5, <2>4 DEF TearWrite, WindowTypes, WindowSteps
    <3>2. CASE pc = "wcloud"
      BY <1>5, <2>4, <3>1, <3>2 DEF TearWrite, Tears, SegmentTypes
    <3>3. CASE pc = "wnotes"
      <4>1. segment' = [segment EXCEPT ![at] = [segment[at] EXCEPT !.notes = TornFile]] /\ "notes" \in scars'
        BY <2>4, <3>3 DEF TearWrite, Tears, Dies
      <4>2. segment[at].vcano
        BY <1>5, <3>3 DEF SaveInv
      <4>3. ~Early
        BY <1>5, <3>3 DEF Early, WindowTypes, WindowSteps
      <4>4. segment' \in [Segments -> SegmentTypes]
        BY <1>5, <3>1, <4>1 DEF SegmentTypes, LoadedClouds
      <4>5. \A s \in Segments : Left(s)
        BY <1>5, <3>1, <4>1, <4>2, <4>3 DEF NotesWhole, SegmentTypes
      <4> QED
        BY <4>1, <4>4, <4>5 DEF NotesWhole
    <3>4. CASE pc \notin {"wcloud", "wnotes"}
      BY <1>5, <2>4, <3>1, <3>4 DEF TearWrite, Tears, SegmentTypes
    <3> QED
      BY <3>2, <3>3, <3>4
  <2>5. ASSUME NEW t \in Segments, TearRemoval(t)
        PROVE  segment' \in [Segments -> SegmentTypes] /\ (\A s \in Segments : Left(s)) /\ pc # "wnotes"
    <3>1. PICK meta \in {"bare", "whole"}, c \in {NoFile, segment[t].cloud}, n \in {NoFile, segment[t].notes} :
              /\ segment' = [segment EXCEPT ![t] = [segment[t] EXCEPT !.meta = meta, !.cloud = c, !.notes = n]]
              /\ "removing" \in scars' /\ pc = "session"
      BY <2>5 DEF TearRemoval, Tears, Dies
    <3>2. segment' \in [Segments -> SegmentTypes]
      BY <1>5, <3>1 DEF SegmentTypes, LoadedClouds
    <3>3. \A s \in Segments : Left(s)
      BY <1>5, <3>1 DEF NotesWhole, SegmentTypes
    <3> QED
      BY <3>1, <3>2, <3>3
  <2> QED
    BY <2>1, <2>2, <2>3, <2>4, <2>5 DEF WindowCrash, Crash
<1>7. WindowTypes'
  BY <1>2, <1>6 DEF WindowTypes, WindowSteps, LoadedTypes, LoadedClouds, NotLoaded
<1>8. LinkInv'
  BY <1>3, <1>5, <1>6 DEF LinkInv
<1>9. NotesInv' /\ AnnotationsAlign'
  BY <1>2, <1>6, NothingLoaded
<1> QED
  BY <1>3, <1>4, <1>7, <1>8, <1>9 DEF WindowInv

\* Every step of the window is about one segmentation; the others stay as they are.
LEMMA OneSegmentation ==
    ASSUME WindowInv, NEW t \in Segments, NEW dir \in SegmentTypes, NEW held \in LoadedTypes,
           pc \in WindowSteps, pc' \in WindowSteps, UNCHANGED <<config, prog, scars>>,
           segment' = [segment EXCEPT ![t] = dir],
           loaded' = [loaded EXCEPT ![t] = held],
           pc = "wnotes" => at = t,
           pc' = "wnotes" => at' = t,
           ~dir.vcps => ~dir.vcano /\ dir.notes = NoFile,
           Fit(dir, held, pc' = "wnotes"),
           Aligns(held)
    PROVE  /\ segment' \in [Segments -> SegmentTypes]
           /\ loaded' \in [Segments -> LoadedTypes]
           /\ config' >= 6 /\ prog' = "vc"
           /\ ProgramInv' /\ LinkInv' /\ NotesInv' /\ AnnotationsAlign'
           /\ pc' \notin {"walink", "wnotes", "wcloud", "wlink", "newvol"} => SaveInv'
<1>1. /\ segment \in [Segments -> SegmentTypes] /\ loaded \in [Segments -> LoadedTypes]
      /\ config >= 6 /\ prog = "vc"
  BY DEF WindowInv, WindowTypes
<1>2. /\ segment' \in [Segments -> SegmentTypes] /\ loaded' \in [Segments -> LoadedTypes]
      /\ config' >= 6 /\ prog' = "vc"
  BY <1>1
<1>3. \A s \in Segments : /\ segment'[s] = IF s = t THEN dir ELSE segment[s]
                          /\ loaded'[s] = IF s = t THEN held ELSE loaded[s]
  BY <1>1
<1>4. ProgramInv' /\ ~Early'
  BY <1>2 DEF ProgramInv, Early, WindowSteps, UpgradeSteps
<1>5. LinkInv'
  BY <1>3, <1>4 DEF LinkInv, WindowInv
<1>6. NotesWhole' = NotesWhole
  BY DEF NotesWhole
<1>7. NotesInv'
  <2> SUFFICES ASSUME NEW s \in Segments
               PROVE  Fit(segment[s], loaded[s], pc = "wnotes" /\ s = at)'
    BY DEF NotesInv
  <2>1. CASE s = t
    <3>1. segment'[s] = dir /\ loaded'[s] = held
      BY <1>3, <2>1
    <3>2. ~(pc' = "wnotes" /\ s = at') => ~(pc' = "wnotes")
      BY <2>1
    <3> QED
      BY <1>6, <3>1, <3>2 DEF Fit
  <2>2. CASE s # t
    <3>1. segment'[s] = segment[s] /\ loaded'[s] = loaded[s]
      BY <1>3, <2>2
    <3>2. ~(pc = "wnotes" /\ s = at)
      BY <2>2
    <3> QED
      BY <1>6, <3>1, <3>2 DEF Fit, NotesInv, WindowInv
  <2> QED
    BY <2>1, <2>2
<1>8. AnnotationsAlign'
  BY <1>3, <1>6 DEF AnnotationsAlign, Aligns, NotesWhole, WindowInv
<1>9. pc' \notin {"walink", "wnotes", "wcloud", "wlink", "newvol"} => SaveInv'
  BY DEF SaveInv
<1> QED
  BY <1>2, <1>4, <1>5, <1>7, <1>8, <1>9

LEMMA StillWindow ==
    ASSUME WindowInv, UNCHANGED <<segment, loaded, config, prog, scars>>,
           pc \in WindowSteps \ {"wnotes"}, pc' \in WindowSteps \ {"wnotes"}
    PROVE  /\ segment' \in [Segments -> SegmentTypes]
           /\ loaded' \in [Segments -> LoadedTypes]
           /\ config' >= 6 /\ prog' = "vc"
           /\ ProgramInv' /\ LinkInv' /\ NotesInv' /\ AnnotationsAlign'
<1>1. /\ segment \in [Segments -> SegmentTypes] /\ loaded \in [Segments -> LoadedTypes]
      /\ config >= 6 /\ prog = "vc"
  BY DEF WindowInv, WindowTypes
<1>2. ProgramInv' /\ ~Early'
  BY <1>1 DEF ProgramInv, Early, WindowSteps, UpgradeSteps
<1>3. LinkInv'
  BY <1>2 DEF LinkInv, WindowInv
<1>4. NotesInv'
  BY DEF NotesInv, Fit, NotesWhole, WindowInv
<1>5. AnnotationsAlign'
  BY DEF AnnotationsAlign, WindowInv
<1> QED
  BY <1>1, <1>2, <1>3, <1>4, <1>5

\* What is known of one segmentation in a step of the window.
LEMMA OneKnown ==
    ASSUME WindowInv, NEW s \in Segments, pc \in WindowSteps
    PROVE  /\ segment[s] \in SegmentTypes /\ loaded[s] \in LoadedTypes
           /\ segment = [segment EXCEPT ![s] = segment[s]]
           /\ loaded = [loaded EXCEPT ![s] = loaded[s]]
           /\ ~segment[s].vcps => ~segment[s].vcano /\ segment[s].notes = NoFile
           /\ Fit(segment[s], loaded[s], pc = "wnotes" /\ s = at)
           /\ Aligns(loaded[s])
           /\ todo \subseteq Shown
           /\ pc \in WindowSteps \ {"session", "save"} => at \in Segments
           /\ pc \in {"session", "newmeta", "newvol"} => todo = {}
BY DEF WindowInv, WindowTypes, LinkInv, NotesInv, AnnotationsAlign, Aligns, NotesWhole

\* The next part of a save.
LEMMA SaveOrder ==
    ASSUME WindowInv,
           SavePointCloud \/ WriteVolumeID \/ SaveEnds \/ \E s \in Segments : SaveNext(s)
    PROVE  WindowInv'
<1>1. UNCHANGED <<segment, loaded, config, prog, scars>>
  BY DEF SavePointCloud, WriteVolumeID, SaveEnds, SaveNext, Over, Goto, disk, window
<1>2. Shown' = Shown
  BY <1>1 DEF Shown
<1>3. pc \in WindowSteps => todo \subseteq Shown
  BY DEF WindowInv, WindowTypes
<1>4. CASE SavePointCloud \/ WriteVolumeID \/ SaveEnds
  <2>1. /\ pc \in WindowSteps \ {"wnotes"} /\ pc' \in {"save", "session"} /\ todo' \subseteq Shown'
        /\ pc' = "session" => todo' = {}
    BY <1>2, <1>3, <1>4 DEF SavePointCloud, WriteVolumeID, SaveEnds, Over, Goto, WindowSteps
  <2>2. SaveInv' /\ pc' \in WindowSteps \ {"wnotes"}
    BY <2>1 DEF SaveInv, WindowSteps
  <2>3. WindowTypes'
    BY <1>1, <2>1, <2>2, StillWindow DEF WindowTypes
  <2> QED
    BY <1>1, <2>1, <2>2, <2>3, StillWindow DEF WindowInv
<1>5. ASSUME NEW s \in Segments, SaveNext(s) PROVE WindowInv'
  <2>1. /\ pc = "save" /\ s \in todo /\ at' = s /\ todo' = todo
        /\ pc' = IF segment[s].vcps THEN "wcloud" ELSE "wlink"
    BY <1>5 DEF SaveNext
  <2>2. pc \in WindowSteps \ {"wnotes"} /\ pc' \in {"wcloud", "wlink"} /\ pc' \in WindowSteps \ {"wnotes"}
    BY <2>1 DEF WindowSteps
  <2>3. loaded[s].cloud \in Clouds \cup {TornFile}
    BY <1>3, <2>1, <2>2, OneKnown DEF Shown, LoadedTypes, LoadedClouds
  <2>4. SaveInv'
    BY <1>1, <2>1, <2>3 DEF SaveInv
  <2>5. WindowTypes'
    BY <1>1, <1>2, <1>3, <2>1, <2>2, StillWindow DEF WindowTypes, WindowSteps
  <2> QED
    BY <1>1, <2>2, <2>4, <2>5, StillWindow DEF WindowInv
<1> QED
  BY <1>4, <1>5

\* A save writes the two files one after the other: the cloud it writes holds the slices of
\* the annotations that are on file, and after the annotations both are the window's.
LEMMA SaveWrites ==
    ASSUME WindowInv, WriteLink \/ WriteCloud \/ WriteNotesLink \/ WriteNotes
    PROVE  WindowInv'
<1>1. /\ pc \in {"wlink", "wcloud", "walink", "wnotes"} /\ at' = at /\ todo' = todo
      /\ UNCHANGED <<config, prog, scars, loaded>>
  BY DEF WriteLink, WriteCloud, WriteNotesLink, WriteNotes, Writes, window
<1>2. pc \in WindowSteps
  BY <1>1 DEF WindowSteps
<1>3. at \in Segments /\ todo \subseteq Shown
  BY <1>1, <1>2 DEF WindowInv, WindowTypes
<1> DEFINE dir == segment[at]
           held == loaded[at]
<1>4. /\ dir \in SegmentTypes /\ held \in LoadedTypes
      /\ loaded' = [loaded EXCEPT ![at] = held]
      /\ ~dir.vcps => ~dir.vcano /\ dir.notes = NoFile
      /\ Fit(dir, held, pc = "wnotes") /\ Aligns(held)
  BY <1>1, <1>2, <1>3, OneKnown
<1>5. SaveInv /\ held.cloud \in Clouds \cup {TornFile} /\ (at \in todo \/ todo = {})
  BY <1>1 DEF WindowInv, SaveInv
<1>6. Shown' = Shown
  BY <1>1 DEF Shown
<1>7. ASSUME NEW new \in SegmentTypes, segment' = [segment EXCEPT ![at] = new],
             pc' \in {"wcloud", "walink", "wnotes", "wvol", "session"},
             new.vcps, Fit(new, held, pc' = "wnotes"),
             pc' \in {"walink", "wnotes"} => new.cloud = held.cloud,
             pc' = "wnotes" => new.vcano,
             pc' = "session" => todo = {}
      PROVE  WindowInv'
  <2>1. pc' \in WindowSteps
    BY <1>7 DEF WindowSteps
  <2>2. /\ segment' \in [Segments -> SegmentTypes]
        /\ loaded' \in [Segments -> LoadedTypes]
        /\ config' >= 6 /\ prog' = "vc"
        /\ ProgramInv' /\ LinkInv' /\ NotesInv' /\ AnnotationsAlign'
    BY <1>1, <1>2, <1>3, <1>4, <1>7, <2>1, OneSegmentation
  <2>3. segment'[at] = new /\ loaded'[at] = held
    BY <1>1, <1>3, <1>7, <2>2
  <2>4. SaveInv'
    BY <1>1, <1>5, <1>7, <2>3 DEF SaveInv
  <2>5. WindowTypes'
    BY <1>1, <1>3, <1>6, <1>7, <2>1, <2>2 DEF WindowTypes, WindowSteps
  <2> QED
    BY <2>2, <2>4, <2>5 DEF WindowInv
<1>8. CASE WriteLink
  <2> DEFINE new == [dir EXCEPT !.vcps = TRUE]
  <2>1. new \in SegmentTypes /\ new.vcps /\ pc = "wlink" /\ pc' = "wcloud"
        /\ segment' = [segment EXCEPT ![at] = new]
    BY <1>4, <1>8 DEF WriteLink, Writes, SegmentTypes
  <2>2. Fit(new, held, FALSE)
    BY <1>4, <1>5, <2>1, CloudsAreNoMarks DEF Fit, SegmentTypes
  <2> QED
    BY <1>7, <2>1, <2>2
<1>9. CASE WriteCloud
  <2> DEFINE new == [dir EXCEPT !.cloud = held.cloud]
  <2>1. /\ new \in SegmentTypes /\ new.vcps /\ pc = "wcloud"
        /\ pc' = IF dir.vcano THEN "wnotes" ELSE "walink"
        /\ segment' = [segment EXCEPT ![at] = new]
    BY <1>4, <1>5, <1>9 DEF WriteCloud, Writes, SegmentTypes, SaveInv
  <2>2. new.cloud = held.cloud /\ new.vcano = dir.vcano /\ new.notes = dir.notes /\ new.vcps
    BY <1>4, <2>1 DEF SegmentTypes
  <2>3. Fit(new, held, pc' = "wnotes")
    BY <1>4, <1>5, <2>1, <2>2, CloudsAreNoMarks DEF Fit
  <2> QED
    BY <1>7, <2>1, <2>2, <2>3
<1>10. CASE WriteNotesLink
  <2> DEFINE new == [dir EXCEPT !.vcano = TRUE]
  <2>1. /\ new \in SegmentTypes /\ new.vcps /\ pc = "walink" /\ pc' = "wnotes"
        /\ segment' = [segment EXCEPT ![at] = new]
        /\ new.cloud = held.cloud /\ new.vcano /\ new.notes = dir.notes
    BY <1>4, <1>5, <1>10 DEF WriteNotesLink, Writes, SegmentTypes, SaveInv
  <2>2. Fit(new, held, TRUE)
    BY <1>4, <1>5, <2>1, CloudsAreNoMarks DEF Fit
  <2> QED
    BY <1>7, <2>1, <2>2
<1>11. CASE WriteNotes
  <2> DEFINE new == [dir EXCEPT !.notes = held.notes]
  <2>1. /\ new \in SegmentTypes /\ new.vcps /\ pc = "wnotes"
        /\ pc' = IF at \in todo THEN "wvol" ELSE "session"
        /\ segment' = [segment EXCEPT ![at] = new]
        /\ new.cloud = held.cloud /\ new.vcano /\ new.notes = held.notes
    BY <1>4, <1>5, <1>11 DEF WriteNotes, Writes, SegmentTypes, LoadedTypes, SaveInv
  <2>2. Fit(new, held, FALSE)
    BY <1>4, <1>5, <2>1, CloudsAreNoMarks DEF Fit, Aligns
  <2> QED
    BY <1>5, <1>7, <2>1, <2>2
<1> QED
  BY <1>8, <1>9, <1>10, <1>11

LEMMA MakingKeepsWindow ==
    ASSUME WindowInv,
           NewMeta \/ NewVolumeID \/ \E s \in Segments : NewPath(s) \/ RemovePath(s)
    PROVE  WindowInv'
<1>1. UNCHANGED <<config, prog, scars, todo>>
  BY DEF NewMeta, NewVolumeID, NewPath, RemovePath, Writes, Goto, disk
<1>2. /\ segment \in [Segments -> SegmentTypes] /\ loaded \in [Segments -> LoadedTypes]
      /\ pc \in {"session", "newmeta", "newvol"} => todo = {} /\ pc \in WindowSteps \ {"wnotes"}
      /\ pc \in {"newmeta", "newvol"} => at \in Segments
  BY DEF WindowInv, WindowTypes, WindowSteps
<1> DEFINE Fresh(new) == /\ new \in SegmentTypes /\ ~new.vcps /\ ~new.vcano
                         /\ new.notes = NoFile /\ new.cloud = NoFile
<1>3. ASSUME NEW t \in Segments, NEW new, Fresh(new),
             NEW held \in LoadedTypes, pc \in {"session", "newmeta", "newvol"},
             segment' = [segment EXCEPT ![t] = new],
             loaded' = [loaded EXCEPT ![t] = held], Aligns(held),
             pc' \in {"session", "newmeta", "newvol"}, pc' # "session" => at' = t
      PROVE  WindowInv'
  <2>1. Fresh(new)
    BY <1>3
  <2>2. pc \in WindowSteps /\ pc' \in WindowSteps /\ pc # "wnotes" /\ pc' # "wnotes"
    BY <1>3 DEF WindowSteps
  <2>3. Fit(new, held, pc' = "wnotes")
    BY <2>1, CloudsAreNoMarks DEF Fit
  <2>4. /\ segment' \in [Segments -> SegmentTypes]
        /\ loaded' \in [Segments -> LoadedTypes]
        /\ config' >= 6 /\ prog' = "vc"
        /\ ProgramInv' /\ LinkInv' /\ NotesInv' /\ AnnotationsAlign'
    BY <1>1, <1>3, <2>1, <2>2, <2>3, OneSegmentation
  <2>5. ~segment'[t].vcps
    BY <1>2, <1>3, <2>1
  <2>6. SaveInv'
    BY <1>3, <2>5 DEF SaveInv
  <2>7. WindowTypes'
    BY <1>1, <1>2, <1>3, <2>2, <2>4 DEF WindowTypes
  <2> QED
    BY <2>4, <2>6, <2>7 DEF WindowInv
<1>4. Fresh(NoSegment) /\ \A meta \in {"bare", "whole"} : Fresh([NoSegment EXCEPT !.meta = meta])
  BY DEF NoSegment, SegmentTypes, LoadedClouds
<1>5. NotLoaded \in LoadedTypes /\ Aligns(NotLoaded) /\ Empty \in LoadedTypes /\ Aligns(Empty)
  BY CloudsAreNoMarks DEF NotLoaded, Empty, LoadedTypes, LoadedClouds, Aligns
<1>6. CASE NewMeta
  <2>1. pc = "newmeta" /\ at \in Segments /\ pc' \in {"session", "newvol"} /\ at' = at
        /\ segment' = [segment EXCEPT ![at] = [NoSegment EXCEPT !.meta = "whole"]]
        /\ loaded' = loaded
    BY <1>2, <1>6 DEF NewMeta, Writes
  <2>2. pc \in WindowSteps
    BY <2>1 DEF WindowSteps
  <2>3. loaded[at] \in LoadedTypes /\ Aligns(loaded[at]) /\ loaded' = [loaded EXCEPT ![at] = loaded[at]]
    BY <2>1, <2>2, OneKnown
  <2> HIDE DEF Fresh
  <2> QED
    BY <1>4, <1>3, <2>1, <2>3
<1>7. ASSUME NEW s \in Segments, NewPath(s) PROVE WindowInv'
  <2>1. pc = "session" /\ pc' = "newmeta" /\ at' = s
        /\ segment' = [segment EXCEPT ![s] = [NoSegment EXCEPT !.meta = "bare"]]
        /\ loaded' = loaded
    BY <1>7 DEF NewPath, Writes
  <2>2. pc \in WindowSteps
    BY <2>1 DEF WindowSteps
  <2>3. loaded[s] \in LoadedTypes /\ Aligns(loaded[s]) /\ loaded' = [loaded EXCEPT ![s] = loaded[s]]
    BY <2>1, <2>2, OneKnown
  <2> HIDE DEF Fresh
  <2> QED
    BY <1>4, <1>3, <2>1, <2>3
<1>8. ASSUME NEW s \in Segments, RemovePath(s) PROVE WindowInv'
  <2>1. pc = "session" /\ pc' = "session" /\ segment' = [segment EXCEPT ![s] = NoSegment]
        /\ loaded' = [loaded EXCEPT ![s] = NotLoaded]
    BY <1>8 DEF RemovePath, Writes
  <2> QED
    BY <1>4, <1>3, <1>5, <2>1
<1>9. CASE NewVolumeID
  <2>1. pc = "newvol" /\ at \in Segments /\ pc' = "session" /\ segment' = segment
        /\ loaded' = [loaded EXCEPT ![at] = Empty] /\ at' = at
    BY <1>2, <1>9 DEF NewVolumeID, Goto, disk
  <2>2. pc \in WindowSteps /\ pc' \in WindowSteps
    BY <2>1 DEF WindowSteps
  <2>3. /\ segment[at] \in SegmentTypes /\ segment' = [segment EXCEPT ![at] = segment[at]]
        /\ ~segment[at].vcps /\ ~segment[at].vcano /\ segment[at].notes = NoFile
    BY <2>1, <2>2, OneKnown DEF WindowInv, SaveInv
  <2>4. Fit(segment[at], Empty, FALSE)
    <3>1. Empty.cloud = {}
      BY DEF Empty
    <3> QED
      BY <2>3, <3>1, CloudsAreNoMarks DEF Fit
  <2>5. /\ segment' \in [Segments -> SegmentTypes]
        /\ loaded' \in [Segments -> LoadedTypes]
        /\ config' >= 6 /\ prog' = "vc"
        /\ ProgramInv' /\ LinkInv' /\ NotesInv' /\ AnnotationsAlign'
        /\ SaveInv'
    BY <1>1, <1>5, <2>1, <2>2, <2>3, <2>4, OneSegmentation
  <2>6. WindowTypes'
    BY <1>1, <1>2, <2>1, <2>2, <2>5 DEF WindowTypes
  <2> QED
    BY <2>5, <2>6 DEF WindowInv
<1> QED
  BY <1>6, <1>7, <1>8, <1>9

\* Only the window's content changes.
LEMMA ShowingKeepsWindow ==
    ASSUME WindowInv, NEW t \in Segments, NEW held \in LoadedTypes,
           pc = "session", pc' \in {"session", "walink", "save"},
           UNCHANGED <<segment, config, prog, scars>>,
           loaded' = [loaded EXCEPT ![t] = held],
           Fit(segment[t], held, FALSE), Aligns(held),
           todo' \subseteq (IF held.cloud \in {NoFile, {}} THEN {} ELSE Shown \cup {t}),
           pc' # "save" => todo' = {},
           pc' = "walink" => /\ at' = t /\ segment[t].vcps /\ held.cloud \in Clouds
                             /\ segment[t].cloud = held.cloud
    PROVE  WindowInv'
<1>1. pc \in WindowSteps /\ pc' \in WindowSteps /\ pc' # "wnotes"
  BY DEF WindowSteps
<1>2. /\ segment[t] \in SegmentTypes /\ segment' = [segment EXCEPT ![t] = segment[t]]
      /\ ~segment[t].vcps => ~segment[t].vcano /\ segment[t].notes = NoFile
  BY <1>1, OneKnown
<1>3. /\ segment' \in [Segments -> SegmentTypes]
      /\ loaded' \in [Segments -> LoadedTypes]
      /\ config' >= 6 /\ prog' = "vc"
      /\ ProgramInv' /\ LinkInv' /\ NotesInv' /\ AnnotationsAlign'
  BY <1>1, <1>2, OneSegmentation
<1>4. \A s \in Segments : loaded'[s] = IF s = t THEN held ELSE loaded[s]
  BY DEF WindowInv, WindowTypes
<1>5. todo' \subseteq Shown'
  BY <1>4 DEF Shown
<1>6. SaveInv'
  BY <1>4 DEF SaveInv
<1>7. WindowTypes'
  BY <1>1, <1>3, <1>5 DEF WindowTypes, WindowSteps
<1> QED
  BY <1>3, <1>6, <1>7 DEF WindowInv

LEMMA LoadingKeepsWindow ==
    ASSUME WindowInv, NEW s \in Segments, LoadPath(s) \/ MakeAnnotations(s) \/ HidePath(s)
    PROVE  WindowInv'
<1>1. /\ pc = "session" /\ UNCHANGED <<segment, config, prog, scars, todo>>
  BY DEF LoadPath, MakeAnnotations, HidePath, Loadable, Shows, disk, program, pkgVars
<1>2. pc \in WindowSteps /\ todo = {}
  BY <1>1 DEF WindowInv, WindowTypes, WindowSteps
<1>3. /\ segment[s] \in SegmentTypes /\ loaded[s] \in LoadedTypes
      /\ ~segment[s].vcps => ~segment[s].vcano /\ segment[s].notes = NoFile
      /\ Fit(segment[s], loaded[s], FALSE)
  BY <1>1, <1>2, OneKnown
<1>4. ASSUME NEW c \in LoadedClouds, NEW n \in LoadedClouds
      PROVE  [cloud |-> c, notes |-> n] \in LoadedTypes
  BY DEF LoadedTypes
<1>5. CASE HidePath(s)
  <2>1. loaded' = [loaded EXCEPT ![s] = NotLoaded] /\ pc' = pc
    BY <1>5 DEF HidePath, pkgVars, program
  <2>2. NotLoaded \in LoadedTypes /\ NotLoaded.cloud = NoFile
    BY DEF NotLoaded, LoadedTypes, LoadedClouds
  <2>3. Fit(segment[s], NotLoaded, FALSE) /\ Aligns(NotLoaded)
    BY <1>3, <2>2, CloudsAreNoMarks DEF Fit, Aligns
  <2> QED
    BY <1>1, <1>2, <2>1, <2>2, <2>3, ShowingKeepsWindow
<1>6. CASE MakeAnnotations(s)
  <2> DEFINE cloud == segment[s].cloud
             held == [cloud |-> cloud, notes |-> cloud]
  <2>1. segment[s].vcps /\ cloud \in Clouds /\ CloudRead(s) = cloud /\ ~segment[s].vcano
    BY <1>6, CloudsAreNoMarks DEF MakeAnnotations, CloudRead
  <2>2. loaded' = [loaded EXCEPT ![s] = held] /\ pc' = "walink" /\ at' = s
    BY <1>6, <2>1 DEF MakeAnnotations, Shows
  <2>3. held \in LoadedTypes /\ held.cloud = cloud /\ held.notes = cloud
    BY <1>4, <2>1 DEF LoadedClouds
  <2>4. Fit(segment[s], held, FALSE) /\ Aligns(held)
    BY <1>3, <2>1, <2>3, CloudsAreNoMarks DEF Fit, Aligns
  <2> QED
    BY <1>1, <1>2, <2>1, <2>2, <2>3, <2>4, ShowingKeepsWindow
<1>7. CASE LoadPath(s)
  <2>1. PICK c \in LoadedClouds, n \in LoadedClouds :
            /\ loaded' = [loaded EXCEPT ![s] = [cloud |-> c, notes |-> n]]
            /\ c = {} => CloudRead(s) = {}
            /\ c \in Clouds => /\ segment[s].vcps /\ segment[s].vcano /\ c = segment[s].cloud
                               /\ n \in NotesRead(s)
    <3>1. CASE CloudRead(s) = {} /\ Shows(s, {}, {})
      BY <3>1, CloudsAreNoMarks DEF Shows, LoadedClouds
    <3>2. CASE CloudRead(s) = TornFile /\ Shows(s, TornFile, TornFile)
      BY <3>2, CloudsAreNoMarks DEF Shows, LoadedClouds
    <3>3. ASSUME CloudRead(s) \in Clouds, segment[s].vcano, NEW n \in NotesRead(s), Shows(s, CloudRead(s), n)
          PROVE  \E c \in LoadedClouds, m \in LoadedClouds :
                    /\ loaded' = [loaded EXCEPT ![s] = [cloud |-> c, notes |-> m]]
                    /\ c = {} => CloudRead(s) = {}
                    /\ c \in Clouds => /\ segment[s].vcps /\ segment[s].vcano /\ c = segment[s].cloud
                                       /\ m \in NotesRead(s)
      <4>1. segment[s].vcps /\ CloudRead(s) = segment[s].cloud
        BY <3>3, CloudsAreNoMarks DEF CloudRead
      <4>2. n \in LoadedClouds
        <5>1. segment[s].notes \in Clouds => n = AlignedNotes(segment[s].cloud, segment[s].notes)
          BY <3>3, CloudsAreNoMarks DEF NotesRead
        <5>2. segment[s].notes \notin Clouds => n \in {{}, TornFile}
          BY <3>3 DEF NotesRead
        <5>3. segment[s].notes \in Clouds => n = segment[s].cloud
          BY <1>3, <3>3, <4>1, <5>1, AlignedFits DEF Fit
        <5> QED
          BY <3>3, <4>1, <5>2, <5>3 DEF LoadedClouds
      <4> QED
        BY <3>3, <4>1, <4>2 DEF Shows, LoadedClouds
    <3> QED
      BY <1>7, <3>1, <3>2, <3>3 DEF LoadPath
  <2> DEFINE held == [cloud |-> c, notes |-> n]
  <2>2. held \in LoadedTypes /\ held.cloud = c /\ held.notes = n
    BY <1>4
  <2>3. c \in Clouds => IF segment[s].notes \in Clouds THEN n = c ELSE n \in {{}, TornFile} /\ ~NotesWhole
    <3> HAVE c \in Clouds
    <3>1. segment[s].notes \in Clouds => n = AlignedNotes(segment[s].cloud, segment[s].notes)
      BY <2>1, CloudsAreNoMarks DEF NotesRead
    <3>2. segment[s].notes \in Clouds => n = c
      BY <1>3, <2>1, <3>1, AlignedFits DEF Fit
    <3>3. segment[s].notes \notin Clouds => n \in {{}, TornFile}
      BY <2>1 DEF NotesRead
    <3>4. segment[s].notes \notin Clouds => ~NotesWhole
      BY <1>3, <2>1 DEF Fit
    <3> QED
      BY <3>2, <3>3, <3>4
  <2>4. c = {} => ~segment[s].vcps
    BY <1>3, <2>1, CloudsAreNoMarks DEF CloudRead, SegmentTypes
  <2>5. Fit(segment[s], held, FALSE)
    BY <1>3, <2>1, <2>2, <2>3, <2>4, CloudsAreNoMarks DEF Fit
  <2>6. Aligns(held)
    BY <2>2, <2>3 DEF Aligns
  <2>7. pc' = "session" /\ todo' = {}
    BY <1>1, <1>2, <1>7 DEF LoadPath, program
  <2> HIDE DEF held
  <2> QED
    BY <1>1, <2>1, <2>2, <2>5, <2>6, <2>7, ShowingKeepsWindow DEF held
<1> QED
  BY <1>5, <1>6, <1>7

LEMMA DrawingKeepsWindow ==
    ASSUME WindowInv, NEW s \in Segments, NEW x \in Heights, Extend(s, x) \/ DrawPath(s, x)
    PROVE  WindowInv'
<1>1. /\ pc = "session" /\ UNCHANGED <<segment, config, prog, scars>>
  BY DEF Extend, DrawPath, pkgVars, disk, program, Over
<1>2. pc \in WindowSteps /\ todo = {}
  BY <1>1 DEF WindowInv, WindowTypes, WindowSteps
<1>3. /\ segment[s] \in SegmentTypes /\ loaded[s] \in LoadedTypes
      /\ ~segment[s].vcps => ~segment[s].vcano /\ segment[s].notes = NoFile
      /\ Fit(segment[s], loaded[s], FALSE)
  BY <1>1, <1>2, OneKnown
<1>4. CASE Extend(s, x)
  <2> DEFINE cloud == loaded[s].cloud \cup {x}
             held == [cloud |-> cloud, notes |-> cloud]
  <2>1. loaded[s].cloud \in Clouds /\ loaded[s].notes = loaded[s].cloud
    BY <1>4 DEF Extend
  <2>2. cloud \in Clouds
    BY <1>4, GrownCloud DEF Extend
  <2>3. loaded' = [loaded EXCEPT ![s] = held] /\ pc' = pc /\ todo' = todo
    BY <1>4, <2>1 DEF Extend, pkgVars, program
  <2>4. held \in LoadedTypes /\ held.cloud = cloud /\ held.notes = cloud
    BY <2>2 DEF LoadedTypes, LoadedClouds
  <2>5. Fit(segment[s], held, FALSE) /\ Aligns(held)
    BY <1>3, <2>1, <2>2, <2>4, CloudsAreNoMarks DEF Fit, Aligns
  <2> HIDE DEF held
  <2> QED
    BY <1>1, <1>2, <2>3, <2>4, <2>5, ShowingKeepsWindow
<1>5. CASE DrawPath(s, x)
  <2> DEFINE held == [cloud |-> {x}, notes |-> {x}]
  <2>1. {x} \in Clouds
    <3>1. x \in Nat
      BY HeightsAssumption
    <3>2. {x} = x .. x /\ {x} # {}
      BY <3>1
    <3>3. \E a, b \in Heights : {x} = a .. b
      BY <3>2
    <3> QED
      BY <3>2, <3>3 DEF Clouds
  <2>2. loaded' = [loaded EXCEPT ![s] = held] /\ pc' = "save" /\ todo' = Shown \cup {s}
    BY <1>5 DEF DrawPath, Over
  <2>3. held \in LoadedTypes /\ held.cloud = {x} /\ held.notes = {x}
    BY <2>1 DEF LoadedTypes, LoadedClouds
  <2>4. loaded[s].cloud = {}
    BY <1>5 DEF DrawPath, Empty
  <2>5. Fit(segment[s], held, FALSE) /\ Aligns(held)
    BY <1>3, <2>1, <2>3, <2>4, CloudsAreNoMarks DEF Fit, Aligns
  <2>6. todo' \subseteq (IF held.cloud \in {NoFile, {}} THEN {} ELSE Shown \cup {s})
    BY <2>1, <2>2, <2>3, CloudsAreNoMarks
  <2> HIDE DEF held
  <2> QED
    BY <1>1, <2>2, <2>3, <2>5, <2>6, ShowingKeepsWindow
<1> QED
  BY <1>4, <1>5

LEMMA OpeningKeepsWindow ==
    ASSUME WindowInv, OpenWindow \/ CloseWindow \/ \E s \in Segments : LoadThrows(s)
    PROVE  WindowInv'
<1>1. /\ segment \in [Segments -> SegmentTypes] /\ loaded \in [Segments -> LoadedTypes]
      /\ pc \notin WindowSteps => loaded = [s \in Segments |-> NotLoaded]
      /\ pc \notin WindowSteps /\ prog = "vc" => todo = {}
  BY DEF WindowInv, WindowTypes, ProgramInv
<1>2. UNCHANGED <<segment, config, scars>> /\ pc # "wnotes"
  BY DEF OpenWindow, CloseWindow, LoadThrows, Loadable, Quit, AtOpen, disk
<1>3. ASSUME Exit, NoWindow PROVE WindowInv'
  <2>1. pc' = "off" /\ prog' = "none" /\ todo' = {} /\ loaded' = [s \in Segments |-> NotLoaded]
    BY <1>3 DEF Exit, NoWindow
  <2>2. ProgramInv' /\ SaveInv' /\ (Early' => Early)
    BY <1>2, <2>1 DEF ProgramInv, SaveInv, Early, UpgradeSteps
  <2>3. LinkInv'
    BY <1>2, <2>2 DEF WindowInv, LinkInv
  <2>4. WindowTypes'
    BY <1>1, <1>2, <2>1 DEF WindowTypes, WindowSteps, LoadedTypes, LoadedClouds, NotLoaded
  <2>5. NotesInv' /\ AnnotationsAlign'
    BY <1>1, <1>2, <2>1, NothingLoaded
  <2> QED
    BY <2>2, <2>3, <2>4, <2>5 DEF WindowInv
<1>4. CASE pc = "open" /\ prog = "vc" /\ config >= 6 /\ Goto("session") /\ loaded' = loaded
  <2>1. pc \notin WindowSteps /\ pc' = "session" /\ prog' = "vc" /\ todo' = todo /\ todo = {} /\ before' = before
    BY <1>1, <1>4 DEF Goto, WindowSteps
  <2>2. loaded' = [s \in Segments |-> NotLoaded]
    BY <1>1, <1>4, <2>1
  <2>3. ProgramInv' /\ SaveInv' /\ (Early' => Early)
    BY <1>2, <1>4, <2>1 DEF ProgramInv, SaveInv, Early, UpgradeSteps, WindowSteps
  <2>4. LinkInv'
    BY <1>2, <2>3 DEF WindowInv, LinkInv
  <2>5. WindowTypes'
    BY <1>1, <1>2, <1>4, <2>1 DEF WindowTypes, WindowSteps
  <2>6. NotesInv' /\ AnnotationsAlign'
    BY <1>1, <1>2, <2>2, NothingLoaded
  <2> QED
    BY <2>3, <2>4, <2>5, <2>6 DEF WindowInv
<1> QED
  BY <1>3, <1>4 DEF OpenWindow, CloseWindow, LoadThrows, Quit, AtOpen, Opens

-----------------------------------------------------------------------------
(***************************************************************************)
(* The results.                                                            *)
(***************************************************************************)

\* Every package that was not left by a death in a fatal place is sound: each directory has
\* its metadata, but for the one that is being made, and the version says what is in it.
THEOREM PackageInvariant == Spec => []PackageInv
<1>1. Init => PackageInv
  BY PackageInit
<1>2. PackageInv /\ [Next]_vars => PackageInv'
  <2> SUFFICES ASSUME PackageInv, [Next]_vars PROVE PackageInv'
    OBVIOUS
  <2>1. CASE UNCHANGED vars
    BY <2>1 DEF vars, pkgVars, disk, program, PackageInv, PackageTypes, Sound, StepInv, FileInv, EntryInv,
                Untyped, Present
  <2>2. CASE RunUpgrade \/ Runs
    BY <2>2, StartKeepsPackage DEF Runs
  <2>3. CASE Upgrade
    BY <2>3, UpgradeKeepsPackage
  <2>4. CASE OpenUpgraded \/ Restore
    BY <2>4, OpenKeepsPackage
  <2>5. CASE Fill
    BY <2>5, FillKeepsPackage
  <2>6. CASE Crash
    BY <2>6, CrashKeepsPackage
  <2>7. CASE OpenWindow
    <3>1. pc = "open" /\ UNCHANGED <<config, top, volume, render, scars>> /\ "root" \in dirs'
      BY <2>7 DEF OpenWindow, AtOpen, Required
    <3>2. pc' \in {"off", "session"} /\ before' \in {before, Missing}
      BY <2>7 DEF OpenWindow, Goto, Exit
    <3> QED
      BY <3>1, <3>2, QuietStep DEF WindowSteps
  <2>8. CASE CloseWindow \/ NewMeta \/ NewVolumeID
    <3>1. /\ UNCHANGED <<config, dirs, top, volume, render, scars>> /\ before' \in {before, Missing}
          /\ pc \in WindowSteps /\ pc' \in WindowSteps \cup {"off"}
      BY <2>8 DEF CloseWindow, NewMeta, NewVolumeID, Quit, Exit, Writes, Goto, disk, WindowSteps
    <3> QED
      BY <3>1, QuietStep
  <2>9. CASE WriteLink \/ WriteCloud \/ WriteNotesLink \/ WriteNotes \/ WriteVolumeID \/ SaveEnds
    <3>1. /\ UNCHANGED <<config, dirs, top, volume, render, scars>> /\ before' = before
          /\ pc \in WindowSteps /\ pc' \in WindowSteps
      BY <2>9 DEF WriteLink, WriteCloud, WriteNotesLink, WriteNotes, WriteVolumeID, SaveEnds, Writes, Goto,
                  Over, disk, WindowSteps
    <3> QED
      BY <3>1, QuietStep
  <2>10. ASSUME NEW s \in Segments, SaveNext(s) \/ NewPath(s) \/ RemovePath(s) PROVE PackageInv'
    <3>1. /\ UNCHANGED <<config, dirs, top, volume, render, scars>> /\ before' = before
          /\ pc \in WindowSteps /\ pc' \in WindowSteps
      BY <2>10 DEF SaveNext, NewPath, RemovePath, Writes, disk, WindowSteps
    <3> QED
      BY <3>1, QuietStep
  <2>11. ASSUME NEW s \in Segments, LoadPath(s) \/ LoadThrows(s) \/ MakeAnnotations(s) \/ HidePath(s)
         PROVE  PackageInv'
    <3>1. /\ UNCHANGED <<config, dirs, top, volume, render, scars>> /\ before' \in {before, Missing}
          /\ pc \in WindowSteps /\ pc' \in WindowSteps \cup {"off"}
      BY <2>11 DEF LoadPath, LoadThrows, MakeAnnotations, HidePath, Loadable, Shows, Quit, Exit, disk,
                   program, pkgVars, WindowSteps
    <3> QED
      BY <3>1, QuietStep
  <2>12. ASSUME NEW s \in Segments, NEW x \in Heights, Extend(s, x) \/ DrawPath(s, x) PROVE PackageInv'
    <3>1. /\ UNCHANGED <<config, dirs, top, volume, render, scars>> /\ before' = before
          /\ pc \in WindowSteps /\ pc' \in WindowSteps
      BY <2>12 DEF Extend, DrawPath, Over, disk, program, pkgVars, WindowSteps
    <3> QED
      BY <3>1, QuietStep
  <2>13. CASE SavePointCloud
    <3>1. /\ UNCHANGED <<config, dirs, top, volume, render, scars>> /\ before' = before
          /\ pc \in WindowSteps /\ pc' \in WindowSteps
      BY <2>13 DEF SavePointCloud, Over, disk, WindowSteps
    <3> QED
      BY <3>1, QuietStep
  <2>14. CASE TearWrite \/ \E s \in Segments : TearRemoval(s)
    <3>1. /\ UNCHANGED <<config, dirs, top, volume, render>> /\ before' = Missing /\ scars \subseteq scars'
          /\ pc \in WindowSteps /\ pc' = "off"
      BY <2>14 DEF TearWrite, TearRemoval, Tears, Dies, Exit, WindowSteps
    <3> QED
      BY <3>1, QuietStep
  <2> QED
    BY <2>1, <2>2, <2>3, <2>4, <2>5, <2>6, <2>7, <2>8, <2>9, <2>10, <2>11, <2>12, <2>13, <2>14
    DEF Next, Works, Asks, WindowCrash
<1> QED
  BY <1>1, <1>2, PTL DEF Spec

\* Wherever a program dies outside the fatal places, the package it leaves can be upgraded
\* and opened (VolumePkg.cpp).
THEOREM BrokenOnlyByFatalHolds == Spec => []BrokenOnlyByFatal
<1>1. PackageInv => BrokenOnlyByFatal
  <2> SUFFICES ASSUME PackageInv, pc = "off", Sound PROVE ~Broken
    BY DEF BrokenOnlyByFatal, Sound
  <2>1. config \notin Versions => "root" \notin dirs
    BY DEF PackageInv, FileInv
  <2>2. \A v \in Volumes : volume[v] \notin {"bare", "torn"}
    BY DEF PackageInv, EntryInv
  <2>3. config >= 6 => \A v \in Volumes : volume[v] # "untyped"
    BY DEF PackageInv, EntryInv, Untyped
  <2>4. \A r \in Renders : render[r] \notin {"bare", "torn"}
    BY DEF PackageInv, EntryInv
  <2>5. top => config = 3
    BY DEF PackageInv, EntryInv
  <2> QED
    BY <2>1, <2>2, <2>3, <2>4, <2>5 DEF Broken
<1> QED
  BY <1>1, PackageInvariant, PTL

THEOREM WindowInvariant == Spec => []WindowInv
<1>1. Init => WindowInv
  BY WindowInit
<1>2. WindowInv /\ [Next]_vars => WindowInv'
  <2> SUFFICES ASSUME WindowInv, [Next]_vars PROVE WindowInv'
    OBVIOUS
  <2>1. CASE UNCHANGED vars
    BY <2>1 DEF vars, pkgVars, disk, program, window, WindowInv, ProgramInv, WindowTypes, LinkInv, Early,
                NotesInv, Fit, NotesWhole, SaveInv, Shown, AnnotationsAlign
  <2>2. CASE (RunUpgrade \/ Runs) /\ UNCHANGED window
    BY <2>2, ProgramsKeepWindow DEF Runs
  <2>3. CASE (Upgrade \/ OpenUpgraded \/ Restore \/ Fill) /\ UNCHANGED window
    BY <2>3, ProgramsKeepWindow
  <2>4. CASE OpenWindow \/ CloseWindow \/ \E s \in Segments : LoadThrows(s)
    BY <2>4, OpeningKeepsWindow
  <2>5. CASE NewMeta \/ NewVolumeID \/ \E s \in Segments : NewPath(s) \/ RemovePath(s)
    BY <2>5, MakingKeepsWindow
  <2>6. CASE WriteLink \/ WriteCloud \/ WriteNotesLink \/ WriteNotes
    BY <2>6, SaveWrites
  <2>7. CASE SavePointCloud \/ WriteVolumeID \/ SaveEnds \/ \E s \in Segments : SaveNext(s)
    BY <2>7, SaveOrder
  <2>8. CASE \E s \in Segments : LoadPath(s) \/ MakeAnnotations(s) \/ HidePath(s)
    BY <2>8, LoadingKeepsWindow
  <2>9. CASE \E s \in Segments : \E x \in Heights : Extend(s, x) \/ DrawPath(s, x)
    BY <2>9, DrawingKeepsWindow
  <2>10. CASE WindowCrash
    BY <2>10, CrashKeepsWindow
  <2> QED
    BY <2>1, <2>2, <2>3, <2>4, <2>5, <2>6, <2>7, <2>8, <2>9, <2>10 DEF Next, Works, Asks
<1> QED
  BY <1>1, <1>2, PTL DEF Spec

\* A point cloud that is shown has annotations for the same slices, also after a save that
\* was cut off between the two files (Segmentation.cpp, SegmentationStruct.hpp).
THEOREM AnnotationsStayAligned == Spec => []AnnotationsAlign
<1>1. WindowInv => AnnotationsAlign
  BY DEF WindowInv
<1> QED
  BY <1>1, WindowInvariant, PTL
=============================================================================
