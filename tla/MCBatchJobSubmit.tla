--------------------------- MODULE MCBatchJobSubmit ---------------------------
(***************************************************************************)
(* Instances of BatchJobSubmit for TLC.                                    *)
(***************************************************************************)
EXTENDS BatchJobSubmit

CONSTANTS c1, c2, T, v1, v2

Blank == [f \in Fields |-> Unset]

\* Two versions of a template that differ in a field a request may leave
\* empty; the second one has a schema that does not parse.
TwoVersions == {[Blank EXCEPT !["model"] = v1], [Blank EXCEPT !["model"] = v2, !["schema"] = BadSchema]}

Plain == [template |-> NoTemplate, fields |-> [Blank EXCEPT !["model"] = v1]]
Nothing == [template |-> NoTemplate, fields |-> Blank]
Filled == [template |-> T, fields |-> Blank]
Partly == [template |-> T, fields |-> [Blank EXCEPT !["model"] = v2]]

\* No request at all, one with nothing in it, and templates used twice, with a
\* request in between that needs none.
AllStreams == {<<>>, <<Nothing, Plain>>, <<Filled, Plain, Filled>>, <<Partly, Filled>>}

\* Tag, length and content of what is set: nothing for a request with nothing
\* in it, and more than one byte can count for a request with the value v2.
Content(v) == IF v = v2 THEN [i \in 1..254 |-> 0] ELSE IF v = v1 THEN <<1>> ELSE <<>>
Tagged(tag, bytes) == <<tag, Len(bytes)>> \o bytes
WireOf(r) ==
    LET field(tag, f) == IF r.fields[f] = Unset THEN <<>> ELSE Tagged(tag, Content(r.fields[f]))
    IN  field(10, "model") \o field(42, "label") \o field(50, "schema")
            \o (IF r.template = NoTemplate THEN <<>> ELSE Tagged(66, <<7>>))
=============================================================================
