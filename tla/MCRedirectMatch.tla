-------------------------- MODULE MCRedirectMatch --------------------------
(* RedirectMatch for TLC: patterns of every bucket that overlap on short    *)
(* paths over two letters, with destinations that refer to them in every    *)
(* part of a URL, and paths with the characters that structure one.         *)
EXTENDS RedirectMatch

None == <<>>
A == <<"a">>
B == <<"b">>
X == <<":", "x">>
Y == <<":", "y">>
Star == <<"*">>
SplatRef == <<":", "s", "p", "l", "a", "t">>

Text(from, to) == [from |-> from, to |-> to]

MCTexts ==
    ("/a"     :> Text(<<None, A>>, <<"/", "b", "?", "a", "&", "b">>)) @@
    ("/a/b"   :> Text(<<None, A, B>>, <<"https://", "e", "/", "#">>)) @@
    ("/:x"    :> Text(<<None, X>>, <<"https://">> \o X \o <<".", "e", "/", "b", "?">> \o X)) @@
    ("/a/:x"  :> Text(<<None, A, X>>, <<"/", "b", "#", "?">> \o X)) @@
    ("/:x/b"  :> Text(<<None, X, B>>, <<"/">> \o X \o <<"?", "b", "=">> \o X \o <<"&", "a">>)) @@
    ("/:x/:y" :> Text(<<None, X, Y>>, <<"http://", "e", "\\">> \o X \o Y)) @@
    ("/*"     :> Text(<<None, Star>>, <<"/">> \o SplatRef)) @@
    ("/*/a"   :> Text(<<None, Star, A>>, <<"https://", "e">> \o SplatRef)) @@
    ("/a*"    :> Text(<<None, <<"a", "*">>>>, <<"/", "b">> \o SplatRef)) @@
    ("/a*a"   :> Text(<<None, <<"a", "*", "a">>>>, <<"https://">> \o SplatRef \o <<".", "e">>)) @@
    ("/a/*"   :> Text(<<None, A, Star>>, <<"/", "?", "s", "=">> \o SplatRef \o <<"#">> \o SplatRef)) @@
    ("/*b/:y" :> Text(<<None, <<"*", "b">>, Y>>, <<"/", "/", "e", "/">> \o SplatRef \o Y))

MCFiles == BoundedSeq(Names, 3)

MCRequests == {
    <<None>>, <<None, None>>, <<None, A>>, <<None, B>>, <<None, <<"a", "a">>>>,
    <<None, A, None>>, <<None, A, B>>, <<None, B, B>>, <<None, A, B, A>>,
    <<None, A, <<"a", "b">>, B>>, <<None, <<"_", "S">>>>,
    <<None, None, B, A>>, <<None, <<"a", ".", "a">>>>, <<None, <<"@", ".">>, A>>,
    <<None, A, <<"b", "&", "=", "a">>>>, <<None, <<"a", "?", "#", "\\">>, B>> }

\* A pattern that uses a name twice behind a "*".
MCRepeats ==
    ("/*/:x/:x" :> Text(<<None, Star, X, X>>, <<"/", "b", "/">> \o X)) @@
    ("/:x/:x"   :> Text(<<None, X, X>>, <<"/", "b", "/">> \o X)) @@
    ("/a"       :> Text(<<None, A>>, <<"/", "b">>))

MCRepeatFiles == BoundedSeq(Names, 1)
=============================================================================
