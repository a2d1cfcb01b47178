----------------------------- MODULE VolumePkg -----------------------------
(***************************************************************************)
(* A volume package on disk and the programs that open, upgrade and fill   *)
(* it (core/src/VolumePkg.cpp): vc_volpkg_upgrade, vc_packager, vc_render  *)
(* and the window of VC.  One program runs at a time, and every step may   *)
(* be its last.  A metadata file is written in place: its content is gone  *)
(* when it is opened, so a program that dies in a save leaves it torn.     *)
(***************************************************************************)
EXTENDS Integers, FiniteSets

CONSTANTS
    Volumes, Segments, Renders,   \* names of directories in the package
    Heights,                      \* slices a segment may reach
    MaxCrashes                    \* bound on the programs that die

ASSUME BoundAssumption == MaxCrashes \in Nat
ASSUME HeightsAssumption == Heights \subseteq Nat

VARIABLES
    config,    \* version in config.json, or one of the two values below
    dirs,      \* directories that exist
    top,       \* are the slices still where version 3 keeps them?
    volume,    \* state of each volume's directory
    render,    \* state of each render's directory
    segment,   \* content of each segmentation's directory
    prog,      \* the program that runs
    pc,        \* its next step, "off" when none runs
    todo,      \* directories its loop has not come to
    before,    \* the version it found
    at,        \* the volume it is making
    located,   \* does the metadata in its hands know their file?
    home,      \* was it started inside the package?
    scars      \* auxiliary: where programs died

disk    == <<config, dirs, top, volume, render, segment>>
program == <<prog, pc, todo, before, at, located, home>>
pkgVars == <<disk, program, scars>>

Latest   == 7
Torn     == 0      \* config.json is there, its content is not
Missing  == 1      \* no config.json
Versions == 3 .. Latest
Required == {"root", "volumes", "paths", "renders", "transforms"}

\* A directory with metadata: without its file, with a torn one, with the
\* metadata of a volume before version 6, with complete metadata.
Entries == {"absent", "bare", "torn", "untyped", "whole"}

NoFile   == {-1}
TornFile == {-2}
Files    == SUBSET Heights \cup {NoFile, TornFile}

\* A segmentation: its metadata, with the links to its two files, and the files.
SegmentDirs == [meta : {"absent", "bare", "torn", "whole"}, vcps : BOOLEAN,
                vcano : BOOLEAN, cloud : Files, notes : Files]
NoSegment == [meta |-> "absent", vcps |-> FALSE, vcano |-> FALSE,
              cloud |-> NoFile, notes |-> NoFile]

\* A volume has no name of its own here.
NoVolume == "none"
ASSUME NamesAssumption == NoVolume \notin Volumes

Present(entry) == {x \in DOMAIN entry : entry[x] # "absent"}
SegmentsOnDisk == {s \in Segments : segment[s].meta # "absent"}

Goto(l)  == pc' = l /\ UNCHANGED <<prog, todo, before, at, located, home>>
Over(l, names) == pc' = l /\ todo' = names /\ UNCHANGED <<prog, before, at, located, home>>
Exit     == /\ pc' = "off" /\ prog' = "none" /\ todo' = {} /\ at' = NoVolume
            /\ before' = Missing /\ located' = TRUE /\ home' = FALSE

----------------------------------------------------------------------------
(* Starting a program.  Without a readable config.json every one of them    *)
(* throws before it has changed anything.                                   *)

FirstStep == [v \in Versions |->
    CASE v = 3 -> "v3" [] v = 4 -> "v4segs" [] v = 5 -> "v5vols" [] v = 6 -> "v6dirs"
      [] v = 7 -> "open"]

LoopOf(v) == CASE v = 4 -> SegmentsOnDisk [] v = 5 -> Present(volume) [] OTHER -> {}

\* vc_volpkg_upgrade forces the upgrade from any version.
RunUpgrade ==
    /\ pc = "off" /\ config \in Versions
    /\ prog' = "upgrade" /\ pc' = FirstStep[config] /\ todo' = LoopOf(config)
    /\ before' = config /\ located' = TRUE /\ home' \in BOOLEAN
    /\ UNCHANGED <<disk, at, scars>>

\* The others upgrade from version 6 only.
RunProgram(p) ==
    /\ pc = "off" /\ config \in Versions
    /\ prog' = p /\ pc' = (IF config = 6 THEN "v6dirs" ELSE "open") /\ todo' = {}
    /\ before' = config
    /\ UNCHANGED <<disk, at, located, home, scars>>

\* vc_packager makes a package where there is no directory yet.
RunPackager ==
    /\ pc = "off" /\ "root" \notin dirs
    /\ prog' = "packager" /\ pc' = "mkdirs" /\ before' = Missing
    /\ UNCHANGED <<disk, todo, at, located, home, scars>>

----------------------------------------------------------------------------
(* Making a package.                                                        *)

MakeDirs ==
    /\ pc = "mkdirs"
    /\ dirs' = Required
    /\ Goto("mksave")
    /\ UNCHANGED <<config, top, volume, render, segment, scars>>

\* The constructor's save, and after it vc_packager's own.
SaveNew ==
    /\ pc = "mksave"
    /\ config' = Latest
    /\ Goto("pksave")
    /\ UNCHANGED <<dirs, top, volume, render, segment, scars>>

----------------------------------------------------------------------------
(* The upgrade functions.                                                   *)

\* Version 3 to 4 begins with the version.
V3Config ==
    /\ pc = "v3"
    /\ config' = 4
    /\ Goto("v3dir")
    /\ UNCHANGED <<dirs, top, volume, render, segment, scars>>

V3VolumesDir ==
    /\ pc = "v3dir"
    /\ dirs' = dirs \cup {"volumes"}
    /\ Goto("v3move")
    /\ UNCHANGED <<config, top, volume, render, segment, scars>>

V3MoveSlices(v) ==
    /\ pc = "v3move" /\ top
    /\ volume[v] = "absent"
    /\ top' = FALSE
    /\ volume' = [volume EXCEPT ![v] = "bare"]
    /\ pc' = "v3meta" /\ at' = v
    /\ UNCHANGED <<config, dirs, render, segment, prog, todo, before, located, home, scars>>

\* rename() throws when there is nothing to move.
V3NothingToMove ==
    /\ pc = "v3move" /\ ~top
    /\ Exit /\ UNCHANGED <<disk, scars>>

\* The metadata handed to the next function were saved under a given name and
\* do not know it.
V3VolumeMeta ==
    /\ pc = "v3meta"
    /\ volume' = [volume EXCEPT ![at] = "untyped"]
    /\ pc' = "v4segs" /\ todo' = SegmentsOnDisk /\ located' = FALSE
    /\ UNCHANGED <<config, dirs, top, render, segment, prog, before, at, home, scars>>

\* Without a path the next function looks for "paths" where the program was
\* started.
V4Lost ==
    /\ pc = "v4segs" /\ ~located /\ ~home
    /\ Exit /\ UNCHANGED <<disk, scars>>

FreshMeta(s) == [segment[s] EXCEPT !.meta = "whole", !.vcano = FALSE,
                                   !.vcps = segment[s].cloud # NoFile]

V4SegmentMeta(s) ==
    /\ pc = "v4segs" /\ (located \/ home)
    /\ s \in todo
    /\ segment' = [segment EXCEPT ![s] = FreshMeta(s)]
    /\ Over("v4segs", todo \ {s})
    /\ UNCHANGED <<config, dirs, top, volume, render, scars>>

V4RendersDir ==
    /\ pc = "v4segs" /\ (located \/ home)
    /\ todo = {}
    /\ dirs' = dirs \cup {"renders"}
    /\ Goto("v4save")
    /\ UNCHANGED <<config, top, volume, render, segment, scars>>

\* save() without a path throws.
V4SaveLost ==
    /\ pc = "v4save" /\ ~located
    /\ Exit /\ UNCHANGED <<disk, scars>>

V4Save ==
    /\ pc = "v4save" /\ located
    /\ config' = 5
    /\ Over("v5vols", Present(volume))
    /\ UNCHANGED <<dirs, top, volume, render, segment, scars>>

\* The volumes are looked for in a directory that must be there, and each needs
\* metadata to add to.
V5Fails ==
    /\ pc = "v5vols"
    /\ \/ "volumes" \notin dirs
       \/ \E v \in todo : volume[v] \in {"bare", "torn"}
    /\ Exit /\ UNCHANGED <<disk, scars>>

V5VolumeMeta(v) ==
    /\ pc = "v5vols" /\ "volumes" \in dirs
    /\ v \in todo /\ volume[v] \in {"untyped", "whole"}
    /\ volume' = [volume EXCEPT ![v] = "whole"]
    /\ Over("v5vols", todo \ {v})
    /\ UNCHANGED <<config, dirs, top, render, segment, scars>>

\* Mutant of V5Save: the version is raised before the volumes are done.
V5SaveEarly ==
    /\ pc = "v5vols" /\ "volumes" \in dirs
    /\ config' = 6
    /\ IF todo = {} THEN Goto("v6dirs") ELSE Goto("v5vols")
    /\ UNCHANGED <<dirs, top, volume, render, segment, scars>>

V5Save ==
    /\ pc = "v5vols" /\ "volumes" \in dirs
    /\ todo = {}
    /\ config' = 6
    /\ Goto("v6dirs")
    /\ UNCHANGED <<dirs, top, volume, render, segment, scars>>

V6Dirs ==
    /\ pc = "v6dirs"
    /\ dirs' = dirs \cup {"transforms"}
    /\ Goto("v6save")
    /\ UNCHANGED <<config, top, volume, render, segment, scars>>

\* Mutant of V6Save: the version stays.
V6SaveForgets ==
    /\ pc = "v6save"
    /\ Goto("open")
    /\ UNCHANGED <<disk, scars>>

V6Save ==
    /\ pc = "v6save"
    /\ config' = Latest
    /\ Goto("open")
    /\ UNCHANGED <<dirs, top, volume, render, segment, scars>>

Upgrade ==
    \/ V3Config \/ V3VolumesDir \/ V3NothingToMove \/ V3VolumeMeta
    \/ \E v \in Volumes : V3MoveSlices(v) \/ V5VolumeMeta(v)
    \/ \E s \in Segments : V4SegmentMeta(s)
    \/ V4Lost \/ V4RendersDir \/ V4SaveLost \/ V4Save
    \/ V5Fails \/ V5Save
    \/ V6Dirs \/ V6Save

----------------------------------------------------------------------------
(* Opening a package: the constructor makes the directories that are        *)
(* missing, then reads what is in them.  A volume or a render that cannot   *)
(* be read makes it throw; a segmentation is left out.                      *)

Readable ==
    /\ \A v \in Volumes : volume[v] \in {"absent", "whole"}
    /\ \A r \in Renders : render[r] \in {"absent", "whole"}

AtOpen(p) ==
    /\ pc = "open" /\ prog = p
    /\ dirs' = Required
    /\ UNCHANGED <<config, top, volume, render, segment, scars>>

\* vc_volpkg_upgrade ends with an attempt to open what it has upgraded, and
\* writes the old metadata back when that fails.
OpenUpgraded ==
    /\ AtOpen("upgrade")
    /\ IF Readable \/ (before = Latest) THEN Exit ELSE Goto("restore")

Restore ==
    /\ pc = "restore"
    /\ config' = before
    /\ Exit
    /\ UNCHANGED <<dirs, top, volume, render, segment, scars>>

\* Programs that work on a package want version 6 at least.
Opens == Readable /\ config >= 6

OpenToFill ==
    \/ AtOpen("packager") /\ (IF Opens THEN Goto("pksave") ELSE Exit)
    \/ AtOpen("render") /\ (IF Opens THEN Goto("rdmake") ELSE Exit)

----------------------------------------------------------------------------
(* vc_packager adds a volume: the directory first, then, once the metadata  *)
(* of the slices are set, its file.  vc_render adds a render.               *)

SaveConfig ==
    /\ pc = "pksave"
    /\ Goto("pkmake")
    /\ UNCHANGED <<disk, scars>>

\* Slices that do not fit together end the program here.
NoVolumeAdded ==
    /\ pc = "pkmake"
    /\ Exit /\ UNCHANGED <<disk, scars>>

NewVolume(v) ==
    /\ pc = "pkmake" /\ volume[v] = "absent"
    /\ volume' = [volume EXCEPT ![v] = "bare"]
    /\ pc' = "pkmeta" /\ at' = v
    /\ UNCHANGED <<config, dirs, top, render, segment, prog, todo, before, located, home, scars>>

SaveVolume ==
    /\ pc = "pkmeta"
    /\ volume' = [volume EXCEPT ![at] = "whole"]
    /\ Exit
    /\ UNCHANGED <<config, dirs, top, render, segment, scars>>

NewRender(r) ==
    /\ pc = "rdmake" /\ render[r] = "absent"
    /\ render' = [render EXCEPT ![r] = "bare"]
    /\ Goto("rdsave")
    /\ UNCHANGED <<config, dirs, top, volume, segment, scars>>

SaveRender(r) ==
    /\ pc = "rdsave" /\ render[r] = "bare"
    /\ render' = [render EXCEPT ![r] = "whole"]
    /\ Exit
    /\ UNCHANGED <<config, dirs, top, volume, segment, scars>>

Fill ==
    \/ MakeDirs \/ SaveNew
    \/ OpenToFill \/ SaveConfig \/ NoVolumeAdded \/ SaveVolume
    \/ \E v \in Volumes : NewVolume(v)
    \/ \E r \in Renders : NewRender(r) \/ SaveRender(r)

----------------------------------------------------------------------------
(* Death.                                                                   *)

Dies(scar) ==
    /\ pc # "off" /\ scar \notin scars
    /\ Cardinality(scars) < MaxCrashes
    /\ scars' = scars \cup {scar}
    /\ Exit

\* Before its next step.
Killed == Dies(pc) /\ UNCHANGED disk

\* In a save of config.json.
SavesConfig ==
    \/ pc \in {"v3", "v4save", "v6save", "mksave", "pksave", "restore"}
    \/ pc = "v5vols" /\ todo = {}

TearConfig ==
    /\ SavesConfig /\ Dies("config")
    /\ config' = Torn
    /\ UNCHANGED <<dirs, top, volume, render, segment>>

\* In a save of a volume's metadata.
SavesVolume(v) ==
    \/ pc \in {"v3meta", "pkmeta"} /\ v = at
    \/ pc = "v5vols" /\ v \in todo

TearVolume(v) ==
    /\ SavesVolume(v) /\ Dies("volume")
    /\ volume' = [volume EXCEPT ![v] = "torn"]
    /\ UNCHANGED <<config, dirs, top, render, segment>>

TearRender(r) ==
    /\ pc = "rdsave" /\ render[r] = "bare" /\ Dies("render")
    /\ render' = [render EXCEPT ![r] = "torn"]
    /\ UNCHANGED <<config, dirs, top, volume, segment>>

TearSegment(s) ==
    /\ pc = "v4segs" /\ s \in todo /\ Dies("segment")
    /\ segment' = [segment EXCEPT ![s].meta = "torn"]
    /\ UNCHANGED <<config, dirs, top, volume, render>>

\* Among the directories of a new package.
HalfMade ==
    /\ pc = "mkdirs" /\ Dies("made")
    /\ dirs' = {"root"}
    /\ UNCHANGED <<config, top, volume, render, segment>>

Crash ==
    \/ Killed \/ TearConfig \/ HalfMade
    \/ \E v \in Volumes : TearVolume(v)
    \/ \E r \in Renders : TearRender(r)
    \/ \E s \in Segments : TearSegment(s)

----------------------------------------------------------------------------
(* Properties.                                                              *)

\* Nothing but a new start by hand helps a package in such a state.
Broken ==
    \/ config \notin Versions /\ "root" \in dirs
    \/ \E v \in Volumes : volume[v] \in {"bare", "torn"}
    \/ config >= 6 /\ (\E v \in Volumes : volume[v] = "untyped")
    \/ \E r \in Renders : render[r] \in {"bare", "torn"}
    \/ top /\ config # 3

\* The places where the death of a program may have that effect.
Fatal == {"config", "volume", "render", "made", "mksave",
          "v3dir", "v3move", "v3meta", "pkmeta", "rdsave"}

\* Wherever a program dies outside those places, in the middle of the upgrade
\* functions, of their loops and of the metadata of segmentations, the package
\* it leaves can be upgraded and opened.
BrokenOnlyByFatal == pc = "off" /\ Broken => scars \cap Fatal # {}
============================================================================
