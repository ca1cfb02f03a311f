--------------------------- MODULE MCHeaderMatch ---------------------------
(* HeaderMatch for TLC: rules of every kind that overlap on short paths,    *)
(* alone, in pairs and, of the kinds that interact most, in threes.        *)
EXTENDS HeaderMatch

X == "X-H"

SetTo(name, value) == [name |-> name, value |-> value, mode |-> "set"]
Unset(name)        == [name |-> name, value |-> <<>>, mode |-> "remove"]

Text(pattern, source) == [pattern |-> pattern, ops |-> source]

SplatRef == <<":", "s", "p", "l", "a", "t">>

MCExact ==
    ("/a"   :> Text(<<"/", "a">>, <<SetTo(X, <<"1">>), SetTo(X, <<"2">>)>>)) @@
    ("/a/b" :> Text(<<"/", "a", "/", "b">>,
                    <<SetTo(X, <<"1">>), Unset(X), SetTo(X, <<"3">>), SetTo(X, <<"4">>)>>)) @@
    ("/A"   :> Text(<<"/", "A">>, <<SetTo(SetCookie, <<"s">>)>>))

MCWild ==
    ("/*"    :> Text(<<"/", "*">>,
                     <<SetTo(X, <<>>), SetTo(SetCookie, <<"b">>),
                       SetTo(SetCookie, <<"s", "=">> \o SplatRef)>>)) @@
    ("/a*"   :> Text(<<"/", "a", "*">>, <<Unset(X)>>)) @@
    ("/A*"   :> Text(<<"/", "A", "*">>, <<SetTo(X, <<"7">>)>>)) @@
    ("/:x"   :> Text(<<"/", ":", "x">>, <<SetTo(X, <<"5", ":", "x">>)>>)) @@
    ("/a/:x" :> Text(<<"/", "a", "/", ":", "x">>, <<SetTo(X, <<":", "x">>), SetTo(X, <<"6">>)>>)) @@
    ("/:x/b" :> Text(<<"/", ":", "x", "/", "b">>,
                     <<SetTo(X, <<":", "x", "y">>), Unset(SetCookie)>>)) @@
    ("/a/*"  :> Text(<<"/", "a", "/", "*">>,
                     <<SetTo(X, <<"<", "/", "?", "1", ">", ",", "<", "/">> \o SplatRef \o <<">">>)>>))

MCHost ==
    ("//e/a"        :> Text(<<Https, "e", "/", "a">>, <<SetTo(X, <<"8">>)>>)) @@
    ("//u@E:0/%a?b" :> Text(<<Https, "u", "@", "E", ":", "0", "/", "%", "a", "?", "b">>,
                            <<SetTo(X, <<"9">>)>>)) @@
    ("//:v.e:0"     :> Text(<<Https, ":", "v", ".", "e", ":", "0">>, <<SetTo(X, <<"v">>)>>)) @@
    ("//:v.e/:v"    :> Text(<<Https, ":", "v", ".", "e", "/", ":", "v">>,
                            <<SetTo(X, <<":", "v">>)>>)) @@
    ("//[::1]/*"    :> Text(<<Https, "[", ":", ":", "1", "]", "/", "*">>, <<SetTo(X, <<"i">>)>>)) @@
    ("//[::1]:0/a"  :> Text(<<Https, "[", ":", ":", "1", "]", ":", "0", "/", "a">>,
                            <<SetTo(X, <<"j">>)>>))

MCTexts == MCExact @@ MCWild @@ MCHost

MCCore == {"/a", "/A", "/*", "/:x", "/a*"}

MCFiles ==
    {<<n, m>> : n, m \in Names} \cup {<<n, m, k>> : n, m, k \in MCCore}

MCSettings == [dedup : BOOLEAN, fold : BOOLEAN, windows : BOOLEAN]

For(asked) == [path |-> asked, host |-> <<"e">>]
At(asked)  == [path |-> << <<>>, <<"a">> >>, host |-> asked]

MCRequests == {
    For(<< <<>> >>), For(<< <<>>, <<"a">> >>), For(<< <<>>, <<>>, <<"a">>, <<>> >>),
    For(<< <<>>, <<"A">>, <<"b">> >>),
    For(<< <<>>, <<"a">>, <<".", ".">>, <<"b", ",", "a">> >>),
    For(<< <<>>, <<"b", "\\", ".", ".">>, <<"a", " ">>, <<"b", ".">> >>),
    For(<< <<>>, <<"a", " ">>, <<"b">> >>),
    For(<< <<>>, <<"a">>, <<".", " ", ".">>, <<"b", ">", ";">> >>),
    For(<< <<>>, <<".", ".">>, <<"_", "S", ".">> >>),
    For(<< <<>>, <<"_", "longs">> >>), For(<< <<>>, <<"_", "s">>, <<>> >>),
    For(<< <<>>, <<"a">>, <<"_", "s">> >>),
    At(<<"E", ":", "0">>), At(<<"b", ".", "e">>),
    At(<<"[", ":", ":", "1", "]", ":", "0">>), At(<<"[", ":", ":", "1", "]">>) }

MCUpstream == (X :> << <<"u">>, <<"v">> >>) @@ (SetCookie :> << <<"w">> >>)
=============================================================================
