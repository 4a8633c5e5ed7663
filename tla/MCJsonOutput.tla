---------------------------- MODULE MCJsonOutput ----------------------------
(* JsonOutput on all documents of a few shapes. *)
EXTENDS JsonOutput

Scalar(type) == [p \in {<<>>} |-> type]

Compound(type, members) ==
    [p \in {<<>>} \cup UNION {{<<s>> \o q : q \in DOMAIN members[s]} : s \in DOMAIN members} |->
        IF p = <<>> THEN type ELSE members[p[1]][Tail(p)]]

Objects(names, docs) ==
    UNION {{Compound("object", m) : m \in [{Name(n) : n \in ns} -> docs]} : ns \in SUBSET names}

Lists(size, docs) ==
    UNION {{Compound("array", m) : m \in [{<<"item", i>> : i \in 0..(k - 1)} -> docs]}
             : k \in 0..size}

Flat == {Scalar("number"), Scalar("null")}
Low  == Flat \cup Objects({"a", "count"}, Flat) \cup Lists(2, Flat)

MCDocs == Flat \cup {Scalar("string")} \cup Objects({"a", "count"}, Low) \cup Lists(2, Low)
          \cup Lists(3, Flat) \cup Objects({"x..y"}, Low) \cup Lists(2, Objects({"a"}, Low))
          \cup Lists(1, Lists(2, Lists(1, Flat)))
          \cup Objects({"long"}, Objects({"long"}, Flat)) \cup Objects({"x^y", "a"}, Low)

MCNameBytes == [n \in MemberNames |-> IF n = "long" THEN 8 ELSE 4]

A == Name("a")
C == Name("count")
Count == <<"call", "count">>
Length == <<"call", "length">>

MCSelections == {{}, {<<>>}, {<<A>>}, {<<All, A>>, <<All, A, A>>}, {<<A, Count>>}, {<<All, C>>},
                 {<<All, Length>>, <<A, Name("length")>>}, {<<Name("x..y")>>},
                 {<<>>, <<A>>, <<C>>, <<All>>}}

MCProjections ==
    {[base |-> <<All>>, columns |-> <<<<A>>, <<All>>>>],
     [base |-> <<>>, columns |-> <<<<A, A>>>>],
     [base |-> <<All>>, columns |-> <<>>],
     [base |-> <<All>>, columns |-> <<<<C>>>>]}
=============================================================================
