------------------------------ MODULE MCGateway ------------------------------
(***************************************************************************)
(* Instances of Gateway for TLC.                                           *)
(***************************************************************************)
EXTENDS Gateway, TLC

CONSTANTS c1, c2, n1, n2, i1, i2, t1, t2, p1, p2, T, v1

Blank == [f \in {"model", "schema", "label"} |-> Unset]

OneVersion == {[Blank EXCEPT !["model"] = v1]}

\* One request that needs the template.
OneStream == {<<[template |-> T, fields |-> Blank]>>}

\* The template's tag and its number; the model's, where there is one.
WireOf(r) ==
    (IF r.fields["model"] = Unset THEN <<>> ELSE <<10, 1, 1>>)
        \o (IF r.template = NoTemplate THEN <<>> ELSE <<66, 1, 7>>)

PodOfTick == (t1 :> p1) @@ (t2 :> p2)

SomeUsage == [n \in Names |-> [input |-> 1, output |-> 0, total |-> 1]]
=============================================================================
