---------------------------- MODULE MCConfigFile -----------------------------
(***************************************************************************)
(* Lines for TLC: two sections, two keys, parts of one to three letters,   *)
(* remarks, with and without blanks and joining backslashes.               *)
(***************************************************************************)
EXTENDS ConfigFile

Line1(kind, name, value, joint, wide) ==
  [kind |-> kind, name |-> name, value |-> value, joint |-> joint, wide |-> wide]

MCEntries ==
  {Line1("section", n, <<>>, FALSE, w) : n \in {<<"s">>, <<"t">>}, w \in BOOLEAN}
  \cup {Line1("key", <<"k">>, v, j, w) : v \in {<<"x">>, <<"y", "z">>}, j \in BOOLEAN, w \in BOOLEAN}
  \cup {Line1("key", <<"k">>, <<>>, FALSE, w) : w \in BOOLEAN}
  \cup {Line1("key", <<"m">>, <<"x">>, FALSE, FALSE)}
  \cup {Line1("part", <<>>, v, j, FALSE) : v \in {<<"u">>, <<"v", "w">>}, j \in BOOLEAN}
  \cup {Line1("remark", <<>>, <<"k", "=">>, FALSE, TRUE)}

MCSection == <<"s">>
MCKey     == <<"k">>
=============================================================================
