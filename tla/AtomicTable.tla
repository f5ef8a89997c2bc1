---------------------------- MODULE AtomicTable ----------------------------
(***************************************************************************)
(* What one table of the Parquet store promises its writers: the table is  *)
(* one set of rows; a writer works on a snapshot that the table really had *)
(* at one moment; and its result appears in one step, computed from that   *)
(* snapshot and nothing else.  It does NOT promise that nobody committed   *)
(* between the snapshot and the commit: the last commit wins.              *)
(*                                                                         *)
(* There are no files, no catalog rows and no versions here: TableStore    *)
(* implements this with them.                                              *)
(***************************************************************************)
EXTENDS Naturals

CONSTANTS Writers, Keys

VARIABLES
    data, \* the rows of the table
    role, \* what each writer is doing
    snap  \* the snapshot each writer works from

avars == <<data, role, snap>>

Row   == [key : Keys, val : Nat, cell : BOOLEAN]
Roles == {"none", "merge", "materialize", "strip", "rewrite", "append", "overwrite"}

(* Rows of new win over rows of old with the same key; the others stay.    *)
Upsert(old, new) == new \cup {r \in old : \A n \in new : n.key # r.key}

(* Every row with its enrichment cell filled, or taken out.                *)
WithCells(rows, b) == {[r EXCEPT !.cell = b] : r \in rows}

(* The rows one writer brought, untouched by enrichment.                   *)
Brought(rows, v) == {r \in rows : r.val = v /\ ~r.cell}

Init ==
    /\ data \in SUBSET Row
    /\ role = [w \in Writers |-> "none"]
    /\ snap = [w \in Writers |-> {}]

Start(w) ==
    /\ role[w] = "none"
    /\ \E k \in Roles : role' = [role EXCEPT ![w] = k]
    /\ UNCHANGED <<data, snap>>

(* A writer whose table was dropped under it finds nothing.                *)
Take(w) ==
    /\ \/ snap' = [snap EXCEPT ![w] = data]
       \/ snap' = [snap EXCEPT ![w] = {}]
    /\ UNCHANGED <<data, role>>

Commit(w) ==
    /\ \/ role[w] = "merge" /\ \E r \in data' : data' = Upsert(snap[w], Brought(data', r.val))
       \/ role[w] = "materialize" /\ data' = WithCells(snap[w], TRUE)
       \/ role[w] = "strip" /\ data' = WithCells(snap[w], FALSE)
       \/ role[w] = "rewrite" /\ \A r, s \in data' : r.val = s.val /\ ~r.cell
       \/ /\ role[w] \in {"append", "overwrite"}
          /\ data \subseteq data'
          /\ \A r, s \in data' \ data : r.val = s.val /\ ~r.cell
    /\ UNCHANGED <<role, snap>>

(* An overwriting ingest empties the table before it fills it.             *)
Discard(w) ==
    /\ role[w] = "overwrite"
    /\ data' \subseteq data
    /\ UNCHANGED <<role, snap>>

Finish(w) ==
    /\ role' = [role EXCEPT ![w] = "none"]
    /\ snap' = [snap EXCEPT ![w] = {}]
    /\ UNCHANGED data

Drop == data' = {} /\ UNCHANGED <<role, snap>>

Restart ==
    /\ role' = [w \in Writers |-> "none"]
    /\ snap' = [w \in Writers |-> {}]
    /\ UNCHANGED data

Next ==
    \/ \E w \in Writers :
        Start(w) \/ Take(w) \/ Commit(w) \/ Discard(w) \/ Finish(w)
    \/ Drop
    \/ Restart

Spec == Init /\ [][Next]_avars

=============================================================================
