----------------------------- MODULE MCChronoView -----------------------------
(* ChronoView, and another program with two Database variables.             *)
EXTENDS ChronoView, TLC

CONSTANTS app, h1, h2, i1, i2

MCProcess == (database_ :> Gui) @@ (h1 :> app) @@ (h2 :> app)

MCCharacters == {"t", "r", "l", "y", "k", "x", "z", "m", " ", ",", "="}

Named(measurement, tags) == [measurement |-> measurement, tags |-> tags]
MCTag(key, value) == [key |-> key, value |-> value]

\* In order: the demo series; one whose tags are too long for the editor; one with
\* two tags; one whose tag value has a comma, which parse_tags rejects.
MCSeries == <<Named(<<"t">>, <<MCTag(<<"r">>, <<"l">>)>>),
              Named(<<"y">>, <<MCTag(<<"k">>, <<"x", "x", "x", "x", "x", "x">>)>>),
              Named(<<"z">>, <<MCTag(<<"k">>, <<"x">>), MCTag(<<"m">>, <<>>)>>),
              Named(<<"z">>, <<MCTag(<<"k">>, <<"x", ",">>)>>)>>

\* The two tags in another order, with a space.
MCTyped == {[measurement |-> <<"z">>, tags |-> <<"m", " ", "=", ",", "k", "=", "x">>]}

=============================================================================
