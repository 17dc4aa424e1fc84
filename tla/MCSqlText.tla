------------------------------- MODULE MCSqlText -------------------------------
(* Statements of a few characters, and of a few comments and words. *)
EXTENDS SqlText

MCJobs == {"hash_key", "is_select", "normalize"}

Chars(S, n) == [texts |-> {<<c>> : c \in S}, max |-> n]

Comment(body) == <<"/", "*">> \o body \o <<"*", "/">>

Remarks == {Comment(<<>>), Comment(<<"x">>), Comment(<<"!", "x">>), <<"-", "-", "space", "x", "newline">>}

\* A comment for the server with a line comment in it.
KeptRemark == Comment(<<"!", "-", "-", "space", "x">>)

Hints == {Comment(body) : body \in {<<"qc=on">>, <<"qc=off">>, <<"qc_ttl=">>, <<"qc_ttl=", "5", "x">>,
                                    <<"qc_sid=", "x">>, <<"qc_sid=", "5">>}}

MCAlphabets ==
    [hash_key |->
        {Chars({"x", "space", "/", "*", "!"}, 5), Chars({"x", "space", "newline", "-", ")"}, 5),
         Chars({"x", "5", "space", "comma", "("}, 4),
         Chars({"e2", "half", "|", "tick", "'", "space"}, 4),
         [texts |-> {<<c>> : c \in {"x", "space", ")"}} \cup Remarks \cup {KeptRemark}, max |-> 4]},
     is_select |->
        {[texts |-> {<<c>> : c \in {"x", "space", "SELECT"}} \cup {Comment(<<"x">>)}
                      \cup {<<"-", "-", "space", "qc=on", "newline">>} \cup Hints, max |-> 4],
         [texts |-> {<<c>> : c \in {"x", "space", "SELECT", "tick", "*", "half"}}
                      \cup {Comment(<<"qc=on">>), Comment(<<"!", "x">>)}, max |-> 4]},
     normalize |->
        {Chars({"x", "5", "space", "comma"}, 5), Chars({"x", ".", "space", "tick", "SELECT"}, 5),
         Chars({"x", "'", "space", "\\", "comma"}, 5), Chars({"<", "=", "!", "(", ")"}, 4),
         Chars({"x", "/", "*", "space", "-"}, 5), Chars({"e2", "half", "@", "|", "&", ">", "~"}, 4),
         Chars({"'", "/", "*"}, 5), Chars({"-", "newline", "/", "*", "'"}, 4),
         Chars({"5", ".", "?", "+"}, 4),
         [texts |-> {<<c>> : c \in {"x", "space", "comma", "."}} \cup (Remarks \ {Comment(<<"!", "x">>)}),
          max |-> 4]}]
=============================================================================
