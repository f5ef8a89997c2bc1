------------------------------- MODULE MCSemantics -------------------------------
(* Two tables, five producers, small declarations for TLC. *)
EXTENDS Semantics

Said(fields, f, v) == [g \in fields |-> IF g = f THEN v ELSE None]

MCProducers == <<[layer |-> "agent", name |-> "agent"],
                 [layer |-> "declared", name |-> "connector"],
                 [layer |-> "declared", name |-> "document"],
                 [layer |-> "detected", name |-> "detector"],
                 [layer |-> "user", name |-> "user"]>>

Decl(t, says, tableSays, rels, v) ==
  [contract |-> 1, name |-> t, version |-> v, retried |-> FALSE,
   dataset |-> {[name |-> t, fields |-> SetToSeq(DOMAIN says), keys |-> {},
                 says |-> says, tableSays |-> tableSays]},
   relationships |-> rels, metrics |-> <<>>]

Rel(n, from, to) == [name |-> n, from |-> from, to |-> to,
                     fromColumns |-> <<"c">>, toColumns |-> <<"c">>]

Labelled(v)   == "c" :> Said(ColumnFields, "label", v)
Measured      == "c" :> [Said(ColumnFields, "label", "x") EXCEPT !["role"] = "measure"]
Wider         == Labelled("x") @@ ("d" :> Said(ColumnFields, "label", "x"))
Quiet         == Silent(TableFields)
Described1    == Said(TableFields, "description", "x")

\* Two releases of a connector, of which the second comes in two wordings.  In
\* the first both tables call a relationship "own"; in the last the table t also
\* declares one that starts at u.
First  == <<Decl("t", Measured, Described1, <<Rel("own", "t", "u")>>, 1),
            Decl("u", Labelled("x"), Quiet, <<Rel("own", "u", "t")>>, 1)>>
Second == <<Decl("t", Wider, Quiet, <<>>, 2)>>
Third  == <<Decl("t", Labelled(Cleared), Quiet,
                 <<Rel("own", "t", "u"), Rel("back", "u", "t")>>, 3)>>
Document == <<Decl("t", Labelled("y"), Described1, <<>>, None)>>

MCBatches == [p \in 1..5 |-> CASE p = 2 -> {First, Second, Third}
                               [] p = 3 -> {Document}
                               [] OTHER -> {}]

MCDetected == [t \in Tables |-> Decl(t, "c" :> Said(ColumnFields, "role", "dimension"), Quiet, <<>>, None)]
MCEdits == {<<"c", "label", "z">>, <<"c", "label", Cleared>>, <<"c", "role", "time">>}

=============================================================================
