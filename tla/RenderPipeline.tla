--------------------------- MODULE RenderPipeline ---------------------------
(***************************************************************************)
(* vc_render (apps/src/Render.cpp): from options and a volume package to a *)
(* graph of nodes (graph/src) that is then updated once. A program before  *)
(* it has edited the transforms of the package.                            *)
(*                                                                         *)
(* main() connects nodes' ports in the order of its statements, each stage *)
(* reading the ports the earlier ones left under "mesh", "uvMap" and so on *)
(* of its map "results". A port is modelled by the value it has once the   *)
(* graph is updated, so that a stage that connects a port left by the      *)
(* wrong earlier stage shows in that value. An option is chosen where it   *)
(* is read.                                                                *)
(*                                                                         *)
(* A mesh is: whose coordinates its points are in, how its normals stand   *)
(* to its surface, whether its vertices are the input's or resampled ones, *)
(* and whether the user had it scaled. A UV map belongs to vertices and    *)
(* may have been turned since it was made.                                 *)
(***************************************************************************)
EXTENDS Transforms

CONSTANTS FileTfms,     \* transforms in the files --transform may name
          Nil,         \* a port's nullptr, as opposed to no port
          Astray        \* coordinates of no volume

ASSUME AstrayAssumption == Astray \notin Volumes
ASSUME FilesAssumption == FileTfms \subseteq Saved

\* What is applied of a transform.
Uses == [src : Volumes \cup {None}, tgt : Volumes \cup {None}, spoils : BOOLEAN]

ASSUME NilAssumption == Nil \notin Uses

VARIABLES stage,        \* what main() comes to next
          offered,      \* the transforms of the opened package
          vols,         \* volumes: of the package, of the input, and the options
          tfm,          \* the transform in use and when it is applied
          mesh,         \* results["mesh"]
          uv,           \* results["uvMap"], ["uvMesh"], ["flatteningError"] and the UV plot
          counted,      \* whose voxels the number of vertices is computed from
          ppm,          \* results["ppm"]
          result,       \* the texturing method and what is written in the end
          exit          \* of vc_render

renderVars == <<stage, offered, vols, tfm, mesh, uv, counted, ppm, result, exit>>
pipelineVars == <<tfmVars, renderVars>>

\* volume(): the first of the package's volumes.
First(here) == CHOOSE v \in here : TRUE

Goes(from, to) == stage = from /\ stage' = to

\* An early return of EXIT_FAILURE, or an exception nobody catches.
Fails(from) ==
    /\ Goes(from, "done")
    /\ exit' = "failure"
    /\ UNCHANGED <<tfmVars, offered, vols, tfm, mesh, uv, counted, ppm, result>>

-----------------------------------------------------------------------------
(***************************************************************************)
(* The input and the volumes.                                              *)
(***************************************************************************)
\* The package is opened; the heap of the program that edited it is of no interest any more.
Open ==
    /\ Goes("off", "input")
    /\ condition = "running"
    /\ offered' = Opened
    /\ \E here \in SUBSET Volumes : vols' = [vols EXCEPT !.here = here]
    /\ condition' = "over"
    /\ handle' = [h \in Handles |-> h]
    /\ cell' = [c \in Cells |-> IF c \in Handles THEN IdentityTfm(None, None) ELSE None]
    /\ registry' = [i \in Ids |-> None]
    /\ disk' = registry'
    /\ unsaved' = {}
    /\ edits' = 0
    /\ UNCHANGED <<tfm, mesh, uv, counted, ppm, result, exit>>

\* OrderedPointSetMesher computes the normals, a file may have none.
Meshed(home) == [space |-> home, normals |-> "fit", cut |-> 0, scaled |-> FALSE]
Loaded(home) == {[Meshed(home) EXCEPT !.normals = n] : n \in {"fit", "none"}}

\* --seg: meshed with normals; its volume may be unknown, and may be gone from the package.
Segmentation ==
    /\ Goes("input", "volume")
    /\ \E home \in Volumes, src \in {None} \cup Volumes :
           /\ src \in {None, home}
           /\ vols' = [vols EXCEPT !.seg = TRUE, !.home = home, !.src = src]
           /\ mesh' = Meshed(home)
    /\ UNCHANGED <<tfmVars, offered, tfm, uv, counted, ppm, result, exit>>

\* --input-mesh, perhaps with --uv-reuse: a file without a map gives nullptr.
MeshFile ==
    /\ Goes("input", "volume")
    /\ \E home \in Volumes :
           /\ vols' = [vols EXCEPT !.home = home]
           /\ mesh' \in Loaded(home)
    /\ \E map \in {None, Nil, [cut |-> 0, turned |-> FALSE]} : uv' = [uv EXCEPT !.map = map]
    /\ UNCHANGED <<tfmVars, offered, tfm, counted, ppm, result, exit>>

\* --volume: taken from the segmentation when it is not given.
Volume ==
    /\ Goes("volume", "transform")
    /\ vols.here # {}
    /\ \E asked \in {None} \cup Volumes :
           LET follows == vols.src # None /\ asked = None
               tgt == IF follows THEN vols.src ELSE asked
           IN  /\ tgt # None => tgt \in vols.here
               /\ vols' = [vols EXCEPT !.tgt = tgt, !.differ = ~follows /\ vols.src # asked,
                                       !.texture = IF tgt = None THEN First(vols.here) ELSE tgt]
    /\ UNCHANGED <<tfmVars, offered, tfm, mesh, uv, counted, ppm, result, exit>>

-----------------------------------------------------------------------------
(***************************************************************************)
(* The transform.                                                          *)
(***************************************************************************)
\* What is applied: labels, and whether normals fit the surface no more.
Applied(t) == [src |-> t.src, tgt |-> t.tgt, spoils |-> SpoilsNormals(t)]

\* --invert-transform: a transform that cannot be inverted is used as it is.
Inverted(t) == IF Invertible(t) THEN Invert(t) ELSE t

\* --transform: an identifier of the package, also with a star, or else a file.
AskedFor ==
    LET known == {i \in Ids : offered[i] # None}
    IN  {offered[i] : i \in known}
        \cup {Invert(offered[i]) : i \in {j \in known : Invertible(offered[j])}}
        \cup FileTfms

\* Mutant of Default: the way back.
DefaultBack ==
    LET found == Found(offered, vols.tgt, vols.src)
    IN  IF DOMAIN found = {} THEN {} ELSE {found[Min(DOMAIN found)]}

\* transform(src, tgt): the first one found.
Default ==
    LET found == Found(offered, vols.src, vols.tgt)
    IN  IF DOMAIN found = {} THEN {} ELSE {found[Min(DOMAIN found)]}

Choose(way, ts) ==
    /\ Goes("transform", "raw")
    /\ \E t \in ts, at \in {"raw", "resampled", "ppm"}, invert \in BOOLEAN :
           tfm' = [way |-> IF invert THEN "asked" ELSE way, at |-> at,
                   use |-> Applied(IF invert THEN Inverted(t) ELSE t)]
    /\ offered' = [i \in Ids |-> None]
    /\ UNCHANGED <<tfmVars, vols, mesh, uv, counted, ppm, result, exit>>

NoTransform(way) ==
    /\ Goes("transform", "raw")
    /\ \E at \in {"raw", "resampled", "ppm"} : tfm' = [way |-> way, at |-> at, use |-> None]
    /\ offered' = [i \in Ids |-> None]
    /\ UNCHANGED <<tfmVars, vols, mesh, uv, counted, ppm, result, exit>>

TransformAsked == Choose("asked", AskedFor)

\* A name that is neither an identifier nor a file: the node that loads it throws.
TransformUnknown ==
    /\ Goes("transform", "raw")
    /\ \E at \in {"raw", "resampled", "ppm"} : tfm' = [way |-> "asked", at |-> at, use |-> Nil]
    /\ offered' = [i \in Ids |-> None]
    /\ UNCHANGED <<tfmVars, vols, mesh, uv, counted, ppm, result, exit>>

Needed == vols.src # None /\ vols.tgt # None /\ vols.differ

TransformFound == Needed /\ Choose("default", Default)

\* --disable-transform
TransformDisabled == NoTransform("asked")

\* None is needed, or there is none: a warning.
TransformNone ==
    /\ Needed => Default = {}
    /\ NoTransform("default")

\* ApplyTransform: points by applyPoint, normals by applyUnitVector.
Moved(m, t) ==
    [m EXCEPT !.space = IF @ = t.src /\ t.tgt \in Volumes THEN t.tgt ELSE Astray,
              !.normals = IF @ = "fit" /\ t.spoils THEN "off" ELSE @]

\* The transform is applied to m where at says so.
MovedAt(m, at) == IF tfm.at = at /\ tfm.use \notin {None, Nil} THEN Moved(m, tfm.use) ELSE m

-----------------------------------------------------------------------------
(***************************************************************************)
(* The mesh.                                                               *)
(***************************************************************************)
TransformRaw ==
    /\ Goes("raw", "scale")
    /\ mesh' = MovedAt(mesh, "raw")
    /\ UNCHANGED <<tfmVars, offered, vols, tfm, uv, counted, ppm, result, exit>>

\* DeepCopy gives every vertex a normal, whatever is in its variable if there is none.
Copied(m) == [m EXCEPT !.normals = IF @ = "none" THEN "garbage" ELSE @]

Scaled(m) == [Copied(m) EXCEPT !.space = Astray, !.scaled = TRUE]

\* --scale-mesh
Scale ==
    /\ Goes("scale", "resample")
    /\ mesh' \in {mesh, Scaled(mesh)}
    /\ UNCHANGED <<tfmVars, offered, vols, tfm, uv, counted, ppm, result, exit>>

\* Mutant of Measure: it is not asked whether the raw mesh was moved.
MeasureByInput ==
    IF vols.differ THEN IF vols.src = None THEN First(vols.here) ELSE vols.src ELSE vols.texture

\* The volume whose voxels measure the mesh when the number of vertices is computed: the
\* input's while the mesh has not been moved, else that of the texture.
Measure ==
    IF vols.differ /\ tfm.at # "raw"
    THEN IF vols.src = None THEN First(vols.here) ELSE vols.src
    ELSE vols.texture

\* Mutant of Resampled: the normals are carried over.
CarriedOver(m) == [m EXCEPT !.cut = 1]

\* ACVD has other vertices than its input and computes the normals anew, as the smoothing
\* before or after it does.
Resampled(m) == [m EXCEPT !.normals = "fit", !.cut = 1]

\* Segmentations are resampled, mesh files on request. --mesh-resample-vcount and
\* -keep-vcount count nothing.
Resample ==
    /\ Goes("resample", "orient")
    /\ mesh' = Resampled(mesh)
    /\ \/ counted' = None
       \/ Measure \in vols.here /\ counted' = [by |-> Measure, of |-> mesh.space]
    /\ UNCHANGED <<tfmVars, offered, vols, tfm, uv, ppm, result, exit>>

KeepVertices ==
    /\ Goes("resample", "orient")
    /\ ~vols.seg
    /\ UNCHANGED <<tfmVars, offered, vols, tfm, mesh, uv, counted, ppm, result, exit>>

\* All normals are flipped or none, and the faces with them.
Oriented(m) == Copied(m)

\* --orient-normals
Orient ==
    /\ Goes("orient", "resampled")
    /\ mesh' \in {mesh, Oriented(mesh)}
    /\ UNCHANGED <<tfmVars, offered, vols, tfm, uv, counted, ppm, result, exit>>

TransformResampled ==
    /\ Goes("resampled", "flatten")
    /\ mesh' = MovedAt(mesh, "resampled")
    /\ UNCHANGED <<tfmVars, offered, vols, tfm, uv, counted, ppm, result, exit>>

-----------------------------------------------------------------------------
(***************************************************************************)
(* The UV map.                                                             *)
(***************************************************************************)
\* A loaded map is of no use to a mesh that was resampled.
Reused == uv.map # None /\ mesh.cut = 0

\* ABF and LSCM give the flat mesh and its error, the projection the mesh alone.
Flatten ==
    /\ Goes("flatten", "turn")
    /\ LET new == [cut |-> mesh.cut, turned |-> FALSE]
       IN  uv' \in IF Reused THEN {uv}
                   ELSE {[uv EXCEPT !.map = new, !.mesh = new, !.error = e] : e \in {None, new}}
    /\ UNCHANGED <<tfmVars, offered, vols, tfm, mesh, counted, ppm, result, exit>>

\* Mutant of Turned: the mesh is kept.
TurnedWithoutMesh == [uv EXCEPT !.map = IF @ = Nil THEN Nil ELSE [@ EXCEPT !.turned = TRUE]]

\* A changed map takes the mesh made from the old one with it.
Turned == [uv EXCEPT !.map = IF @ = Nil THEN Nil ELSE [@ EXCEPT !.turned = TRUE], !.mesh = None]

\* --uv-align-to-axis, --uv-rotate and --uv-flip, any of them, in this order.
TurnMap ==
    /\ Goes("turn", "plot")
    /\ uv' \in {uv, Turned}
    /\ UNCHANGED <<tfmVars, offered, vols, tfm, mesh, counted, ppm, result, exit>>

\* UVMapToITKMesh of the map there is now.
WithMesh == IF uv.mesh = None THEN [uv EXCEPT !.mesh = uv.map] ELSE uv

\* --uv-plot and --uv-plot-error
Plot ==
    /\ Goes("plot", "ppm")
    /\ \/ uv' = uv
       \/ uv' = [WithMesh EXCEPT !.drawn = TRUE]
       \/ \E drawn \in BOOLEAN :
              uv' = [WithMesh EXCEPT !.drawn = drawn, !.errorDrawn = TRUE,
                                     !.error = IF @ = None THEN WithMesh.mesh ELSE @]
    /\ UNCHANGED <<tfmVars, offered, vols, tfm, mesh, counted, ppm, result, exit>>

-----------------------------------------------------------------------------
(***************************************************************************)
(* The per-pixel map, the texture and the files.                           *)
(***************************************************************************)
\* Flat shading takes normals from the faces, smooth shading those of the vertices, which
\* are computed when there are none.
PixelMap(m, flat) == [m EXCEPT !.normals = IF flat \/ @ = "none" THEN "fit" ELSE @]

GeneratePPM ==
    /\ Goes("ppm", "texture")
    /\ \E flat \in BOOLEAN : ppm' = MovedAt(PixelMap(mesh, flat), "ppm")
    /\ UNCHANGED <<tfmVars, offered, vols, tfm, mesh, uv, counted, result, exit>>

\* --method: layers are a sequence of images. The thickness needs --volume-mask.
Texture ==
    /\ Goes("texture", "write")
    /\ result' \in {"image", "sequence"}
    /\ UNCHANGED <<tfmVars, offered, vols, tfm, mesh, uv, counted, ppm, exit>>

\* --output-file: by default an OBJ, or images for a sequence. A PLY file is written
\* without its texture; of an unknown kind nothing is, which is logged.
Write ==
    /\ Goes("write", "update")
    /\ result' \in {"textured", "nothing"} \cup (IF result = "sequence" THEN {} ELSE {"mesh"})
    /\ UNCHANGED <<tfmVars, offered, vols, tfm, mesh, uv, counted, ppm, exit>>

\* A node that is certain to fail: the transform cannot be loaded, or there is no map.
Doomed == tfm.use = Nil \/ uv.map = Nil

UpdateGraph ==
    /\ Goes("update", "done")
    /\ ~Doomed
    /\ exit' = "success"
    /\ UNCHANGED <<tfmVars, offered, vols, tfm, mesh, uv, counted, ppm, result>>

\* A node throws: update() throws, or returns the state Error, which is logged.
UpdateFails ==
    /\ Goes("update", "done")
    /\ exit' \in {"failure", "success"}
    /\ UNCHANGED <<tfmVars, offered, vols, tfm, mesh, uv, counted, ppm, result>>

-----------------------------------------------------------------------------
(***************************************************************************)
(* Early returns.                                                          *)
(***************************************************************************)
\* Both inputs or neither; an unknown segmentation.
NoInput == Fails("input")

\* No volume at all, or not the one to use.
NoVolume == Fails("volume")

\* The volume to measure by is gone.
NoMeasure ==
    /\ Fails("resample")
    /\ Measure \notin vols.here

\* An unknown number for the algorithm.
NoFlattening ==
    /\ Fails("flatten")
    /\ ~Reused

\* The thickness without a mask.
NoMask == Fails("texture")

\* A sequence into a mesh file.
NoSequence ==
    /\ Fails("write")
    /\ result = "sequence"

-----------------------------------------------------------------------------
RenderInit ==
    /\ stage = "off"
    /\ offered = [i \in Ids |-> None]
    /\ vols = [here |-> {}, seg |-> FALSE, home |-> None, src |-> None, tgt |-> None,
               differ |-> FALSE, texture |-> None]
    /\ tfm = [way |-> "default", at |-> "raw", use |-> None]
    /\ mesh = None
    /\ uv = [map |-> None, mesh |-> None, error |-> None, drawn |-> FALSE, errorDrawn |-> FALSE]
    /\ counted = None
    /\ ppm = None
    /\ result = None
    /\ exit = None

Init == TfmInit /\ RenderInit

Edit == TfmNext /\ UNCHANGED renderVars

Build ==
    \/ Segmentation \/ MeshFile \/ NoInput
    \/ Volume \/ NoVolume
    \/ TransformAsked \/ TransformUnknown \/ TransformFound \/ TransformDisabled \/ TransformNone
    \/ TransformRaw \/ Scale \/ Resample \/ KeepVertices \/ NoMeasure
    \/ Orient \/ TransformResampled
    \/ Flatten \/ NoFlattening \/ TurnMap \/ Plot
    \/ GeneratePPM \/ Texture \/ NoMask \/ Write \/ NoSequence

Next == Edit \/ Open \/ Build \/ UpdateGraph \/ UpdateFails

Spec == Init /\ [][Next]_pipelineVars

-----------------------------------------------------------------------------
(***************************************************************************)
(* Properties.                                                             *)
(***************************************************************************)
\* The surface is where its input's label says, and is brought to the volume by default.
Straight == tfm.way = "default" /\ vols.src # None /\ ~mesh.scaled

\* Whoever leaves the choice of the transform to the program gets a texture of the place
\* the segmentation was made at: the transform found, forward or inverted, wherever it is
\* applied, ends in the coordinates of the volume the texture is sampled from.
DefaultsLandInTheVolume ==
    (ppm # None /\ Straight /\ (tfm.use # None \/ ~vols.differ)) => ppm.space = vols.texture

\* The number of vertices is computed with the voxel size of the volume whose coordinates
\* the mesh is in at that point, before or after the transform. Not so where no transform
\* was found and it would have been applied to the raw mesh: the mesh is then measured
\* with voxels of a volume it is not in.
CountedInItsOwnVoxels ==
    (counted # None /\ Straight /\ (tfm.use = None /\ vols.differ => tfm.at # "raw"))
    => counted.by = counted.of

\* The texture is sampled along normals of the surface. The exceptions: a transform that
\* takes normals along as plain vectors (an affine map that stretches one axis more than
\* another) or not at all (a stack that turns the surface, against Transforms.hpp:400-401),
\* where nothing computes them anew afterwards; a mesh file without normals that is copied
\* and not resampled.
NormalsFitTheSurface ==
    (ppm # None /\ ppm.normals # "fit") =>
        \/ /\ ppm.normals = "off"
           /\ tfm.use.spoils
           /\ tfm.at # "raw" \/ mesh.cut = 0
        \/ /\ ppm.normals = "garbage"
           /\ ~vols.seg /\ mesh.cut = 0

\* The UV map, the flat mesh drawn with it and the error drawn belong to the vertices of
\* the mesh that is sampled, and the flat mesh is that of the map as it was turned last.
MapsFitTheMesh ==
    (ppm # None /\ uv.map # Nil) =>
        /\ uv.map.cut = mesh.cut
        /\ uv.drawn => uv.mesh = uv.map
        /\ uv.errorDrawn => uv.error.cut = mesh.cut
=============================================================================
