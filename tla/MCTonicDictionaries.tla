-------------------------- MODULE MCTonicDictionaries --------------------------
(* Instances of TonicDictionaries for TLC.  All atoms but w collide; a and b are   *)
(* equal, and so are the tuples t and u.                                           *)
EXTENDS TonicDictionaries

MCHashOf == [o \in Objects |-> IF o = "w" THEN 1 ELSE 0]

MCIdentityHash == [o \in Objects |-> 1]

MCClassOf == [o \in Objects |-> IF o \in {"a", "b"} THEN "ab" ELSE o]

MCItems == [o \in Objects |-> IF o = "t" THEN <<"s", "a">> ELSE IF o = "u" THEN <<"s", "b">> ELSE <<>>]

Pair(k, v) == [guest |-> FALSE, rest |-> <<k, v>>]

MCSources == [iterator |-> [guest |-> TRUE, rest |-> <<Pair("a", "s"), [guest |-> TRUE, rest |-> <<"b", "s">>]>>],
              list |-> [guest |-> FALSE, rest |-> <<Pair("b", "s"), [guest |-> FALSE, rest |-> <<"a">>]>>]]

MCKeywords == {None, [key |-> "s", value |-> "a"]}

\* Stores and deletions of colliding keys inside of one another.
Stores == [operations |-> {"Get", "Set", "Delete"}, keys |-> {"a", "b", "w"},
           values |-> {"s"}, dicts |-> {"d"}, limit |-> 4]

\* Tuples of keys, sets, patterns.
Patterns == [operations |-> {"SetAdd", "Contains", "MatchKey", "MatchUnique", "Eq"}, keys |-> {"t", "u", "x"},
             values |-> {"s"}, dicts |-> {"d", "m"}, limit |-> 2]

\* Two sets that are compared.
TwoSets == [operations |-> {"SetAdd", "Eq"}, keys |-> {"a"}, values |-> {}, dicts |-> {"m", "n"}, limit |-> 4]

\* Two dictionaries that are filled, merged and compared.
Merges == [operations |-> {"Set", "Merge", "Eq"}, keys |-> {"a", "w"},
           values |-> {"a", "b"}, dicts |-> {"d", "e"}, limit |-> 4]

\* Construction from pairs and keywords.
Constructions == [operations |-> {"Set", "Init"}, keys |-> {"a", "s"},
                  values |-> {"s"}, dicts |-> {"d", "e"}, limit |-> 3]

MCPrograms == {Stores, Patterns, TwoSets, Merges, Constructions}
=============================================================================
