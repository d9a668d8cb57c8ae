---------------------------- MODULE Collections ----------------------------
(***************************************************************************)
(* The SDK's calls on a tenant's tables, as what each statement does to    *)
(* the rows under a row-level-security policy that compares a row's user   *)
(* with the claims of the connection it runs on (no claims: no rows).      *)
(*                                                                         *)
(* rows maps every row to its content, 0 when absent.  A statement is a    *)
(* relation between the claims, the rows before, and a pair: the rows      *)
(* after and the set of rows its result is computed from.                  *)
(***************************************************************************)
EXTENDS Naturals

CONSTANTS Row,      \* the rows that can be stored
          TableOf,  \* documents, embeddings or geo
          OwnerOf,  \* data->>'user_id'
          User,
          NoUser    \* no claims set

ASSUME RowsAssumption == /\ TableOf \in [Row -> {"documents", "embeddings", "geo"}]
                         /\ OwnerOf \in [Row -> User]
                         /\ NoUser \notin User

Contents == 0..2
Stored(rows) == {i \in Row : rows[i] # 0}
In(t) == {i \in Row : TableOf[i] = t}

\* The policy, both USING and WITH CHECK.
Permits(claims, i) == claims # NoUser /\ OwnerOf[i] = claims
Visible(claims, rows, t) == {i \in Stored(rows) \cap In(t) : Permits(claims, i)}

\* Writing a row the policy rejects fails the whole statement.
Write(claims, rows, S, x) ==
    IF \A i \in S : Permits(claims, i)
    THEN {<<[i \in Row |-> IF i \in S THEN x ELSE rows[i]], {}>>}
    ELSE {}
\* UPDATE and DELETE pass over rows they cannot see; none left is ErrNotFound.
Change(claims, rows, t, i, x) ==
    {<<[rows EXCEPT ![i] = IF i \in Visible(claims, rows, t) THEN x ELSE @], {}>>}
Read(rows, S) == {<<rows, S>>}

(***************************************************************************)
(* Table.                                                                  *)
(***************************************************************************)
Absent(rows, t) == SUBSET (In(t) \ Stored(rows))

TableInsertMany(c, rows) == UNION {Write(c, rows, S, 1) : S \in Absent(rows, "documents") \ {{}}}
TableInsert(c, rows) == UNION {Write(c, rows, {i}, 1) : i \in In("documents") \ Stored(rows)}
TableGet(c, rows) == UNION {Read(rows, {i} \cap Visible(c, rows, "documents")) : i \in In("documents")}
\* Filter and limit take any part of what is visible.
TableFind(c, rows) == UNION {Read(rows, S) : S \in SUBSET Visible(c, rows, "documents")}
TableUpdate(c, rows) == UNION {Change(c, rows, "documents", i, 3 - rows[i]) :
                                 i \in In("documents") \cap Stored(rows)}
TableDelete(c, rows) == UNION {Change(c, rows, "documents", i, 0) : i \in In("documents")}
TableCount(c, rows) == UNION {Read(rows, S) : S \in SUBSET Visible(c, rows, "documents")}

(***************************************************************************)
(* Vector: rows are replaced by doc_id.  UpsertMany runs with the claims,  *)
(* the other calls go to the pool directly, hence without any.             *)
(***************************************************************************)
VectorUpsertMany(c, rows) == UNION {Write(c, rows, S, 2) : S \in (SUBSET In("embeddings")) \ {{}}}
VectorUpsert(c, rows) == UNION {Write(c, rows, {i}, 2) : i \in In("embeddings")}
VectorDelete(c, rows) == UNION {Change(c, rows, "embeddings", i, 0) : i \in In("embeddings")}
VectorSearch(c, rows) == UNION {Read(rows, S) : S \in SUBSET Visible(c, rows, "embeddings")}

(***************************************************************************)
(* Geo.                                                                    *)
(***************************************************************************)
GeoInsertPointMany(c, rows) == UNION {Write(c, rows, S, 1) : S \in Absent(rows, "geo") \ {{}}}
GeoInsertPoint(c, rows) == UNION {Write(c, rows, {i}, 1) : i \in In("geo") \ Stored(rows)}
GeoInsert(c, rows) == UNION {Write(c, rows, {i}, 1) : i \in In("geo") \ Stored(rows)}
GeoGet(c, rows) == UNION {Read(rows, {i} \cap Visible(c, rows, "geo")) : i \in In("geo")}
GeoDelete(c, rows) == UNION {Change(c, rows, "geo", i, 0) : i \in In("geo")}
\* Each takes part of what is visible, in the order and number it asks for.
scanFeatures(c, rows, S) == IF S \subseteq Visible(c, rows, "geo") THEN Read(rows, S) ELSE {}
WithinRadius(c, rows) == UNION {scanFeatures(c, rows, S) : S \in SUBSET In("geo")}
WithinBBox(c, rows) == UNION {scanFeatures(c, rows, S) : S \in SUBSET In("geo")}
\* Of the visible ones, the k nearest: none only if there is none.
Nearest(c, rows) == UNION {scanFeatures(c, rows, S) : S \in {T \in SUBSET In("geo") :
                             T = {} => Visible(c, rows, "geo") = {}}}
GeoCount(c, rows) == UNION {Read(rows, S) : S \in SUBSET Visible(c, rows, "geo")}
=============================================================================
