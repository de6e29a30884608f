---------------------------- MODULE MCDocuments -----------------------------
(***************************************************************************)
(* Instances of Documents for TLC.                                         *)
(***************************************************************************)
EXTENDS Documents, TLC

CONSTANTS s, t, f, m, a, b, nan, inf

Statement(operation, changed) ==
    [operation |-> operation, changes |-> changed @@ [c \in Columns |-> Unchanged]]

Overwrite(value) == [Unchanged EXCEPT !.deleted = TRUE, !.value = value]
Assign(value) == [Unchanged EXCEPT !.value = value]
AddElements(elements) == [Unchanged EXCEPT !.value = elements]
RemoveElements(elements) == [Unchanged EXCEPT !.deleted_elements = elements]
Erase == [Unchanged EXCEPT !.deleted = TRUE]

\* A scalar, a set and a frozen map: a full insert; additions, removals and
\* overwrites of the set, also a removal and an addition in one batch, with NaN
\* and an infinity among the elements; a scalar set, set to NaN and set to null;
\* the map replaced; the row deleted.
RowStatements ==
    {Statement("RowInsert", s :> Assign(a) @@ t :> Overwrite({a, inf}) @@ f :> Assign({a})),
     Statement("RowUpdate", t :> AddElements({a, b})),
     Statement("RowUpdate", t :> [RemoveElements({a}) EXCEPT !.value = {b, nan}] @@ s :> Erase),
     Statement("RowUpdate", t :> RemoveElements({nan})),
     Statement("RowUpdate", t :> Erase @@ s :> Assign(nan) @@ f :> Assign({b})),
     Statement("RowDelete", << >>)}

\* A map that is not frozen.
MapStatements ==
    {Statement("RowInsert", m :> Overwrite({a})),
     Statement("RowUpdate", m :> AddElements({b})),
     Statement("RowUpdate", m :> RemoveElements({a}))}
=============================================================================
