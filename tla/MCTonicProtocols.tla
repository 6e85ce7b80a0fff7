------------------------- MODULE MCTonicProtocols -------------------------
(* The operations the runs start from.  Every protocol is there with each  *)
(* combination of methods that its code tells apart.                       *)
EXTENDS TonicProtocols

Base ==
  [op |-> "", args |-> <<"a", "b">>, against |-> <<>>, has |-> [x \in {"a", "b", "it"} |-> {}],
   related |-> "other", native |-> "none", new |-> "object", init |-> "object", attr |-> "value",
   config |-> [is_max |-> TRUE, key |-> FALSE, default |-> "None"], count |-> 1, deferred |-> FALSE]

Has(A, B) == [x \in {"a", "b", "it"} |-> CASE x = "a" -> A [] x = "b" -> B [] OTHER -> {"__next__"}]
Op(op, args, A, B) == [Base EXCEPT !.op = op, !.args = args, !.has = Has(A, B)]

Truths == {{}, {"__bool__"}, {"__len__"}, {"__len__", "__index__"}}
Iterables == {<<"a", {"__iter__"}>>, <<"a", {"__getitem__"}>>, <<"a", {}>>, <<"gen", {}>>, <<"seq", {}>>}

TruthScenes ==
  {Op(op, <<"a">>, A, B) : op \in {"not", "jump", "bool", "len"}, A \in Truths, B \in {{}, {"__index__"}}}
IndexScenes ==
  {Op(op, <<"seq", "a", "b">>, {"__index__"}, {}) : op \in {"GetItem", "SetItem", "DelItem"}}
    \cup {Op(op, <<"a", "n0", "b">>, {"__getitem__", "__setitem__", "__delitem__"}, {}) :
            op \in {"GetItem", "SetItem", "DelItem"}}
    \cup {Op("round", <<"a">>, A, {}) : A \in {{}, {"__index__"}}}
    \cup {Op("slice", args, {"__index__"}, {"__index__"}) :
            args \in {<<"seq", "a", "None", "b">>, <<"seq", "None", "b", "n1">>}}
    \cup {Op("range", args, {"__index__"}, {"__index__"}) : args \in {<<"a">>, <<"a", "b">>, <<"n0", "a", "b">>}}
    \cup {Op("int", args, A, {"__index__"}) : args \in {<<"a">>, <<"str", "a">>},
            A \in {{}, {"__int__"}, {"__index__"}, {"__int__", "__index__"}}}
    \cup {Op("float", <<"a">>, A, {}) : A \in {{}, {"__float__"}, {"__index__"}}}
OperatorScenes ==
  {[Op(op, <<"a", "b">>, A, B) EXCEPT !.related = r] :
     op \in {"Add", "InplaceAdd"}, r \in {"same", "sub", "other"},
     A \in SUBSET {"__add__", "__iadd__"}, B \in SUBSET {"__add__", "__radd__"}}
    \cup {[Op(op, <<"a", "b">>, A, B \cup C) EXCEPT !.related = r] :
     op \in {"Eq", "Ne", "Lt"}, r \in {"same", "sub", "other"}, C \in {{}, {"__bool__"}},
     A \in SUBSET {"__eq__", "__ne__", "__lt__"}, B \in SUBSET {"__eq__", "__gt__"}}
    \cup {Op(op, <<"a", "b", "b">>, A, B) : op \in {"DivMod", "PowMod"},
            A \in SUBSET {"__divmod__", "__pow__"}, B \in SUBSET {"__rdivmod__", "__rpow__"}}
    \cup {Op("neg", <<"a">>, A, {}) : A \in {{}, {"__neg__"}}}
    \cup {[Op("order", <<"n0", "a">>, {"__eq__", "__lt__"}, B) EXCEPT !.against = <<"n0", "b">>] :
            B \in {{}, {"__bool__"}, {"__gt__"}}}
IterationScenes ==
  {Op(op, <<i[1], "b">>, i[2], B) : op \in {"in", "not in"}, i \in Iterables \cup {<<"a", {"__contains__"}>>},
     B \in {{}, {"__eq__"}, {"__bool__", "__eq__"}}}
    \cup {Op(op, <<i[1]>>, i[2], B) : op \in {"any", "all"}, i \in Iterables, B \in Truths}
    \cup {Op("sum", <<i[1], total>>, i[2], B) : i \in Iterables, total \in {"n0", "b", "str"},
            B \in {{}, {"__add__"}, {"__radd__"}}}
    \cup {Op(op, <<i[1]>>, i[2], {}) : op \in {"list", "tuple", "bytes", "unpack", "star"}, i \in Iterables}
    \cup {[Op("star", <<source>>, {"__getitem__"}, {}) EXCEPT !.deferred = TRUE] : source \in {"a", "gen", "seq"}}
ExtremumScenes ==
  {[Op("extremum", <<i[1]>>, i[2], B) EXCEPT !.config = [is_max |-> max, key |-> key, default |-> "a"]] :
     i \in Iterables, B \in {{}, {"__gt__"}, {"__lt__", "__bool__"}},
     max \in BOOLEAN, key \in BOOLEAN}
    \cup {[Op("extremum", <<"UNBOUND", "n0", "b", "n1">>, {}, {"__gt__"})
             EXCEPT !.config = [is_max |-> TRUE, key |-> key, default |-> "UNBOUND"]] : key \in BOOLEAN}
ClassScenes ==
  {[Op("class", args, {"__iter__", "__int__"}, {}) EXCEPT !.native = native, !.init = init, !.new = new] :
     args \in {<<"a">>, <<"gen">>, <<"seq">>}, native \in {"none", "list", "tuple"}, init \in {"object", "program", "list"},
     new \in {"object", "program"}}
    \cup {[Op("class", <<"a">>, A, {}) EXCEPT !.native = "int", !.init = init] :
            A \in {{"__int__"}, {"__index__"}}, init \in {"object", "program"}}
AttributeScenes ==
  {[Op("get", <<missing>>, A, {}) EXCEPT !.attr = attr] : missing \in {"Raise", "HasAttr", "b"},
     A \in SUBSET {"__getattribute__", "__getattr__"}, attr \in {"value", "property", "descriptor", "absent"}}
    \cup {[Op(op, <<"b">>, A, {}) EXCEPT !.attr = attr] : op \in {"set", "delete"},
     A \in SUBSET {"__setattr__", "__delattr__"}, attr \in {"value", "property", "descriptor", "absent"}}
TextScenes ==
  {Op(op, <<"a", spec>>, A, {}) : op \in {"__str__", "__repr__", "format"}, spec \in {"str", "n1"},
     A \in {{}, {"__str__", "__repr__", "__format__"}}}
ListKept(s) == s.op = "class" /\ s.init = "list" => s.native = "list"
MCScenes ==
  {s \in TruthScenes \cup IndexScenes \cup OperatorScenes \cup IterationScenes \cup ExtremumScenes
               \cup ClassScenes \cup AttributeScenes \cup TextScenes : ListKept(s)}
===========================================================================
