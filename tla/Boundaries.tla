----------------------------- MODULE Boundaries -----------------------------
(***************************************************************************)
(* Which boundary a content and a compute lie in, and whom it admits       *)
(* (boundaries.py).  An application is [boundaries, content, computes]:    *)
(* boundaries a list of [contains, mode, scopes], content a set of names,  *)
(* computes a function from names to the list of the contents accessed.    *)
(* A boundary is known by its place in the list; 0 is the app boundary.    *)
(***************************************************************************)
EXTENDS Integers, Sequences, FiniteSetsExt, Functions

AppBoundary == 0

Containing(app, c) == {b \in DOMAIN app.boundaries : c \in app.boundaries[b].contains}

(* Later boundaries overwrite the entries of earlier ones.                 *)
LastOf(bs) == Max(bs \union {AppBoundary})

BoundaryForContent(app, c) == LastOf(Containing(app, c))

(* What the map of contents has an entry for.                              *)
Known(app, c) == c \in app.content \/ Containing(app, c) # {}

(* Fault: the first access decides, known or not.                          *)
MappedOrNot(app, x) == DOMAIN app.computes[x]

(* The accesses that are known.                                            *)
Mapped(app, x) == {i \in DOMAIN app.computes[x] : Known(app, app.computes[x][i])}

(* Inferred from the first of them.                                        *)
BoundaryForCompute(app, x) ==
    IF Mapped(app, x) = {} THEN AppBoundary
    ELSE BoundaryForContent(app, app.computes[x][Min(Mapped(app, x))])

Restricting(app, c) ==
    {b \in Containing(app, c) : app.boundaries[b].mode = "restrict" /\ app.boundaries[b].scopes # {}}

RequiredFor(app, c) ==
    IF Restricting(app, c) = {} THEN {} ELSE app.boundaries[Max(Restricting(app, c))].scopes

check_boundary_access(app, x, c) == BoundaryForCompute(app, x) = BoundaryForContent(app, c)

(* Fault: one of the scopes is enough.                                     *)
check_boundary_identity_any(app, c, caller) ==
    RequiredFor(app, c) = {} \/ RequiredFor(app, c) \intersect caller # {}

check_boundary_identity(app, c, caller) == RequiredFor(app, c) \subseteq caller

-----------------------------------------------------------------------------
(* Who is admitted to a content satisfies every restriction of the         *)
(* boundary it lies in.  Where boundaries overlap the content lies in the  *)
(* last one, and if that restricts nobody an earlier one still does.       *)
AdmittedByItsBoundary(app, caller) ==
    \A c \in app.content :
        LET b == BoundaryForContent(app, c) IN
        check_boundary_identity(app, c, caller) /\ b # AppBoundary =>
            (app.boundaries[b].mode = "restrict" => app.boundaries[b].scopes \subseteq caller)

(* A compute reaches all the contents it declares to access, unless two of *)
(* them lie in different boundaries; a name that is not known is no        *)
(* obstacle.                                                               *)
DeclaredAccessesWork(app) ==
    \A x \in DOMAIN app.computes :
        LET declared == {c \in Range(app.computes[x]) : Known(app, c)} IN
        (\A c \in declared, d \in declared : BoundaryForContent(app, c) = BoundaryForContent(app, d)) =>
            \A c \in declared : check_boundary_access(app, x, c)
=============================================================================
