----------------------------- MODULE Transforms -----------------------------
(***************************************************************************)
(* The coordinate transforms of core/src/Transforms.cpp and the registry   *)
(* of a volume package for them (core/src/VolumePkg.cpp).                  *)
(*                                                                         *)
(* A transform is an object on the heap that shared pointers share: a cell *)
(* here. The caller's pointers are handles. The registry keeps the pointer *)
(* it is given and hands out its own, so a caller may change a registered  *)
(* transform behind the registry's back; the file of a transform changes   *)
(* only when it is added or set.                                           *)
(*                                                                         *)
(* An affine map <<a, b, s>> takes the coordinate x, of the integers       *)
(* modulo 3, to a * x + b and stretches another axis s times, modulo 3:    *)
(* enough for maps that do not commute, for vectors (a * x) that are not   *)
(* moved as points are, and for stretches of one axis alone (scale), which *)
(* normals have to follow the other way round.                             *)
(***************************************************************************)
EXTENDS Integers, SequencesExt

CONSTANTS Handles,      \* the caller's pointers
          Ids,          \* identifiers of the registry, in the order of their times
          Volumes,      \* identifiers of volumes
          None,         \* "", nullptr, no transform, no file
          Unreadable,   \* a file of the transforms' directory that does not parse
          Prepared,     \* the transforms the caller may have at first
          MaxParts,     \* bound: parts of a stack
          MaxEdits      \* bound: calls of the caller

ASSUME HandlesAssumption == IsFiniteSet(Handles) /\ Handles = 1..Cardinality(Handles)
ASSUME IdsAssumption == IsFiniteSet(Ids) /\ Ids = 1..Cardinality(Ids)

VARIABLES cell,         \* the transforms on the heap
          handle,       \* the cell each pointer of the caller points to
          registry,     \* transforms_: the cell of each registered transform
          disk,         \* the file of each identifier
          condition,    \* of the program: "running", "over", "hung" or "crashed"
          unsaved,      \* auxiliary: registered transforms changed since they were saved
          edits         \* calls made so far

pointers == <<cell, handle>>
package == <<registry, disk, unsaved>>
tfmVars == <<pointers, package, condition, edits>>

Cells == 1..(Cardinality(Handles) + Cardinality(Ids) + 1)

ASSUME EditsAssumption == MaxParts \in Nat /\ MaxEdits \in Nat

-----------------------------------------------------------------------------
(***************************************************************************)
(* Values.                                                                 *)
(***************************************************************************)
Identity == <<1, 0, 0>>

\* The affine map f followed by g: the matrix product g * f.
Then(f, g) == <<(g[1] * f[1]) % 3, (g[1] * f[2] + g[2]) % 3, (f[3] + g[3]) % 3>>

\* cv::Matx::inv of an invertible matrix.
InverseMap(f) == <<f[1], (f[1] * (3 - f[2])) % 3, (3 - f[3]) % 3>>

\* What a map does to vectors: its matrix without the translation.
Linear(f) == <<f[1], 0, f[3]>>

Tfm(kind, map, parts, s, t) == [kind |-> kind, map |-> map, parts |-> parts, src |-> s, tgt |-> t]

Affine(map, s, t) == Tfm("affine", map, <<>>, s, t)
IdentityTfm(s, t) == Tfm("identity", Identity, <<>>, s, t)
Stack(parts, s, t) == Tfm("composite", Identity, parts, s, t)

Labels == Volumes \cup {None}
Maps == {1, 2} \X (0..2) \X (0..2)

\* Transforms of one map, and stacks of parts.
Plain == [kind : {"affine", "identity"}, map : Maps, parts : {<<>>}, src : Labels, tgt : Labels]
StacksOf(P) == [kind : {"composite"}, map : {Identity}, parts : Seq(P), src : Labels, tgt : Labels]

\* The parts of a stack, what a file can hold, and what can be in memory: a part may be a
\* stack, but not one that has stacks in it; simplify() may put nullptr at the head.
Parts == Plain \cup StacksOf(Plain)
Saved == Plain \cup StacksOf(Parts)
Transforms ==
    Plain \cup {t \in StacksOf(Parts \cup {None}) : \A n \in DOMAIN t.parts : t.parts[n] = None => n = 1}

ASSUME PreparedAssumption == Prepared \subseteq Transforms
ASSUME NoneAssumption ==
    /\ None \notin Volumes /\ None \notin Cells
    /\ None \notin Transforms /\ Unreadable \notin Transforms

IsStack(t) == t.kind = "composite"

\* A part that is nullptr: to apply, save or push the stack crashes.
HasNull(t) == None \in ToSet(t.parts)

\* Maps one after the other.
InTurn(maps) ==
    LET upTo[n \in 0..Len(maps)] ==
            IF n = 0 THEN Identity ELSE Then(upTo[n - 1], maps[n])
    IN  upTo[Len(maps)]

\* applyPoint: a stack applies its parts in their order.
PartMap(p) == IF IsStack(p) THEN InTurn([n \in DOMAIN p.parts |-> p.parts[n].map]) ELSE p.map
PartMaps(parts) == [n \in DOMAIN parts |-> PartMap(parts[n])]
PointMap(t) == IF IsStack(t) THEN InTurn(PartMaps(t.parts)) ELSE t.map

\* applyVector: a stack applies its parts in turn as well, and then returns the vector
\* it was given (Transforms.cpp:404), where Transforms.hpp:400-401 has points and vectors go
\* through each transform alike.
VectorMap(t) == Linear(t.map)

\* Normals of a surface moved by applyPoint turn by the inverse transpose of its matrix,
\* not by applyVector's: a stretch of one axis, and any turn within a stack, spoils them.
NormalMap(t) == Linear(InverseMap(PointMap(t)))
SpoilsNormals(t) == VectorMap(t) # NormalMap(t)

Invertible(t) == ~IsStack(t)
Composable(t) == ~IsStack(t)

Invert(t) == [t EXCEPT !.map = InverseMap(@), !.src = t.tgt, !.tgt = t.src]

\* Mutant of ComposeTfms: the parameters are multiplied in the order they are given.
ComposeTfmsSwapped(l, r) ==
    Tfm(IF l.kind = "identity" THEN r.kind ELSE "affine", Then(r.map, l.map), <<>>, l.src, r.tgt)

\* compose_ of two composable transforms: an identity gives a copy of the other.
ComposeTfms(l, r) ==
    Tfm(IF l.kind = "identity" THEN r.kind ELSE "affine", Then(l.map, r.map), <<>>, l.src, r.tgt)

\* CompositeTransform::push_back: for each part of a stack the whole stack is cloned,
\* where the part was meant.
Pushed(parts, t) == parts \o (IF IsStack(t) THEN [n \in DOMAIN t.parts |-> t] ELSE <<t>>)

\* The part of a stack that is itself a stack is expanded to the stack it is in, for ever.
HasStack(t) == \E n \in DOMAIN t.parts : t.parts[n] # None /\ IsStack(t.parts[n])
PushHangs(t) == IsStack(t) /\ HasStack(t)

\* CompositeTransform::simplify: done are the parts composed so far, lhs the one to go
\* on with. A leading nullptr is skipped; without any part lhs stays nullptr and becomes one.
SimplifyStep(acc, p) ==
    IF acc.lhs = None THEN [acc EXCEPT !.lhs = p]
    ELSE IF Composable(acc.lhs) /\ Composable(p)
         THEN [acc EXCEPT !.lhs = ComposeTfms(@, p)]
         ELSE [done |-> Append(acc.done, acc.lhs), lhs |-> p]

Simplified(parts) ==
    LET upTo[n \in 0..Len(parts)] ==
            IF n = 0 THEN [done |-> <<>>, lhs |-> None] ELSE SimplifyStep(upTo[n - 1], parts[n])
        end == upTo[Len(parts)]
    IN  Append(end.done, end.lhs)

\* Load after Save: from_meta_ pushes the parts back, which repeats the stacks in a stack.
PushedInTurn(parts) ==
    LET upTo[n \in 0..Len(parts)] ==
            IF n = 0 THEN <<>> ELSE Pushed(upTo[n - 1], parts[n])
    IN  upTo[Len(parts)]
Reloaded(t) == IF IsStack(t) THEN [t EXCEPT !.parts = PushedInTurn(@)] ELSE t

-----------------------------------------------------------------------------
(***************************************************************************)
(* The heap.                                                               *)
(***************************************************************************)
Value(h) == cell[handle[h]]

Held == {handle[h] : h \in Handles}
Registered == {registry[i] : i \in Ids} \ {None}

Fresh == Min(Cells \ (Held \cup Registered))

\* A cell nobody points to is deleted.
Collected(cells, hs, reg) ==
    [c \in Cells |-> IF \/ \E h \in Handles : hs[h] = c
                        \/ \E i \in Ids : reg[i] = c
                     THEN cells[c] ELSE None]

Call ==
    /\ condition = "running"
    /\ edits < MaxEdits
    /\ edits' = edits + 1

Point(h, c, t) ==
    /\ handle' = [handle EXCEPT ![h] = c]
    /\ cell' = Collected([cell EXCEPT ![c] = t], handle', registry)
    /\ UNCHANGED <<package, condition>>

\* h points to a transform of its own.
Make(h, t) == Point(h, Fresh, t)

\* The transform h points to changes, for everyone who points to it.
Change(h, t) ==
    /\ cell' = [cell EXCEPT ![handle[h]] = t]
    /\ unsaved' = unsaved \cup {i \in Ids : registry[i] = handle[h] /\ t # Value(h)}
    /\ UNCHANGED <<handle, registry, disk, condition>>

End(how) ==
    /\ condition' = how
    /\ UNCHANGED <<pointers, package>>

-----------------------------------------------------------------------------
(***************************************************************************)
(* The caller's pointers.                                                  *)
(***************************************************************************)
New(h) ==
    /\ Call
    /\ \E t \in {Affine(Identity, None, None), IdentityTfm(None, None), Stack(<<>>, None, None)} :
           Make(h, t)

Label(h, s, t) ==
    /\ Call
    /\ Change(h, [Value(h) EXCEPT !.src = s, !.tgt = t])

\* The parameters go back to their initial values, the labels stay.
ResetTfm(t) == [t EXCEPT !.map = Identity, !.parts = <<>>]

Reset(h) ==
    /\ Call
    /\ Change(h, ResetTfm(Value(h)))

Clear(h) ==
    /\ Call
    /\ Change(h, [ResetTfm(Value(h)) EXCEPT !.src = None, !.tgt = None])

\* translate, rotate and scale: the new map is applied after the one there is.
Move(h, f) ==
    /\ Call
    /\ Value(h).kind = "affine"
    /\ Change(h, [Value(h) EXCEPT !.map = Then(@, f)])

\* A stack pushed onto itself is left out.
PushBack(h, g) ==
    /\ Call
    /\ handle[h] # handle[g]
    /\ IsStack(Value(h))
    /\ \/ IsStack(Value(g)) /\ HasNull(Value(g)) /\ End("crashed")
       \/ ~HasNull(Value(g)) /\ PushHangs(Value(g)) /\ End("hung")
       \/ /\ ~HasNull(Value(g)) /\ ~PushHangs(Value(g))
          /\ LET parts == Pushed(Value(h).parts, Value(g))
             IN  Len(parts) <= MaxParts /\ Change(h, [Value(h) EXCEPT !.parts = parts])

Simplify(h) ==
    /\ Call
    /\ IsStack(Value(h))
    /\ Change(h, [Value(h) EXCEPT !.parts = Simplified(@)])

\* operator*: throws unless both are composable.
Multiply(h, l, r) ==
    /\ Call
    /\ Composable(Value(l)) /\ Composable(Value(r))
    /\ Make(h, ComposeTfms(Value(l), Value(r)))

Clone(h, g) ==
    /\ Call
    /\ Make(h, Value(g))

InvertInto(h, g) ==
    /\ Call
    /\ Invertible(Value(g))
    /\ Make(h, Invert(Value(g)))

-----------------------------------------------------------------------------
(***************************************************************************)
(* The registry.                                                           *)
(***************************************************************************)
\* Mutant of Store: a file that is there is kept.
StoreOnce(i, h) ==
    /\ registry' = [registry EXCEPT ![i] = handle[h]]
    /\ disk' = [disk EXCEPT ![i] = IF @ = None THEN Value(h) ELSE @]
    /\ unsaved' = unsaved \ {i}
    /\ cell' = Collected(cell, handle, registry')
    /\ UNCHANGED <<handle, condition>>

\* The pointer is registered and the file written; to write a stack of nullptr crashes.
Store(i, h) ==
    /\ registry' = [registry EXCEPT ![i] = handle[h]]
    /\ disk' = [disk EXCEPT ![i] = Value(h)]
    /\ unsaved' = unsaved \ {i}
    /\ cell' = Collected(cell, handle, registry')
    /\ UNCHANGED <<handle, condition>>

\* The time is asked for until it is nobody's identifier.
NewIds == {i \in Ids : registry[i] = None /\ disk[i] = None}

AddTransform(h) ==
    /\ Call
    /\ Value(h).src # None /\ Value(h).tgt # None
    /\ NewIds # {}
    /\ IF HasNull(Value(h)) THEN End("crashed") ELSE Store(Min(NewIds), h)

\* The labels are not looked at.
SetTransform(i, h) ==
    /\ Call
    /\ registry[i] # None
    /\ IF HasNull(Value(h)) THEN End("crashed") ELSE Store(i, h)

\* transform(id): the registry's own pointer.
Lookup(h, i) ==
    /\ Call
    /\ registry[i] # None
    /\ Point(h, registry[i], cell[registry[i]])

\* transform("id*")
LookupInverse(h, i) ==
    /\ Call
    /\ registry[i] # None /\ Invertible(cell[registry[i]])
    /\ Make(h, Invert(cell[registry[i]]))

\* What transform(src, tgt) finds among reg's transforms: forward or, as "id*", inverted.
Found(reg, s, t) ==
    LET known == {i \in Ids : reg[i] # None}
        forward == {i \in known : reg[i].src = s /\ reg[i].tgt = t}
        inverse == {i \in known \ forward : Invertible(reg[i]) /\ reg[i].src = t /\ reg[i].tgt = s}
    IN  [i \in forward \cup inverse |-> IF i \in forward THEN reg[i] ELSE Invert(reg[i])]

\* The transforms a package has when it is opened.
Opened == [i \in Ids |-> IF disk[i] \in {None, Unreadable} THEN None ELSE Reloaded(disk[i])]

\* The package is opened again; the caller keeps its pointers.
Reopen ==
    /\ Call
    /\ LET free == CHOOSE f \in [Ids -> Cells \ Held] : IsInjective(f)
       IN  registry' = [i \in Ids |-> IF Opened[i] = None THEN None ELSE free[i]]
    /\ cell' = [c \in Cells |-> IF \E i \in Ids : registry'[i] = c
                                THEN Opened[CHOOSE i \in Ids : registry'[i] = c]
                                ELSE IF c \in Held THEN cell[c] ELSE None]
    /\ unsaved' = {}
    /\ UNCHANGED <<handle, disk, condition>>

-----------------------------------------------------------------------------
TfmInit ==
    /\ handle = [h \in Handles |-> h]
    /\ cell \in {[c \in Cells |-> IF c \in Handles THEN f[c] ELSE None] :
                     f \in [Handles -> Prepared]}
    /\ registry = [i \in Ids |-> None]
    /\ disk \in {[i \in Ids |-> IF i = 1 THEN d ELSE None] : d \in {None, Unreadable}}
    /\ condition = "running"
    /\ unsaved = {}
    /\ edits = 0

OnPointers ==
    \E h \in Handles :
        \/ New(h)
        \/ \E s, t \in Volumes \cup {None} : Label(h, s, t)
        \/ Reset(h)
        \/ Clear(h)
        \/ \E f \in {<<1, 1, 0>>, <<2, 0, 0>>, <<1, 0, 1>>} : Move(h, f)
        \/ \E g \in Handles : PushBack(h, g)
        \/ Simplify(h)
        \/ \E l, r \in Handles : Multiply(h, l, r)
        \/ \E g \in Handles \ {h} : Clone(h, g)
        \/ \E g \in Handles : InvertInto(h, g)

OnRegistry ==
    \/ \E h \in Handles : AddTransform(h)
    \/ \E h \in Handles, i \in Ids : SetTransform(i, h)
    \/ \E h \in Handles, i \in Ids : Lookup(h, i)
    \/ \E h \in Handles, i \in Ids : LookupInverse(h, i)
    \/ Reopen

TfmNext == OnPointers \/ OnRegistry

-----------------------------------------------------------------------------
(***************************************************************************)
(* Properties.                                                             *)
(***************************************************************************)
\* Type invariant of the heap and the registry: every pointer points to a transform, and
\* what a file holds is one that can be read again. However stacks are pushed into each
\* other, simplified, saved and loaded, a stack within a stack has no stack in it: whatever
\* would make one never returns from push_back (Transforms.cpp:415-431).
TfmTypeOK ==
    /\ DOMAIN handle = Handles /\ \A h \in Handles : handle[h] \in Cells /\ Value(h) \in Transforms
    /\ DOMAIN registry = Ids
    /\ \A i \in Ids : registry[i] = None
                      \/ (registry[i] \in Cells /\ cell[registry[i]] \in Transforms)
    /\ DOMAIN disk = Ids /\ \A i \in Ids : disk[i] \in {None, Unreadable} \cup Saved
    /\ DOMAIN cell = Cells /\ \A c \in Cells : cell[c] = None \/ cell[c] \in Transforms
    /\ unsaved \subseteq Ids
    /\ condition \in {"running", "over", "crashed", "hung"}
    /\ edits \in 0..MaxEdits

\* simplify() composes neighbours and leaves what the stack does to points as it was,
\* identities and stacks within it included.
SimplifyKeepsPoints ==
    [][\A h \in Handles :
           (Simplify(h) /\ ~HasNull(Value(h)) /\ Value(h).parts # <<>>) => PointMap(Value(h)') = PointMap(Value(h))]_tfmVars

\* Opening a package again gives every registered transform its maps and labels back,
\* unless the caller changed it behind the registry's back, or it has a stack of
\* more than one part among its parts: those are repeated on the way. The last exception
\* goes against Transforms.hpp:464-466, where push_back, which from_meta_ loads parts with,
\* expands a stack and copies its transforms to the end of this one.
ReopenRestores ==
    [][Reopen =>
         \A i \in Ids :
             LET old == cell[registry[i]]
                 new == cell'[registry'[i]]
             IN  (/\ registry[i] # None
                  /\ i \notin unsaved
                  /\ ~HasNull(old)
                  /\ \A n \in DOMAIN old.parts : Len(old.parts[n].parts) <= 1)
                 => /\ registry'[i] # None
                    /\ PointMap(new) = PointMap(old)
                    /\ new.src = old.src /\ new.tgt = old.tgt]_tfmVars
=============================================================================
