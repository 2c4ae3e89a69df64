------------------------------ MODULE MCSouthXml ------------------------------
(***************************************************************************)
(* SouthXml for TLC: documents with each kind of node and mixed content,   *)
(* values with each character that is escaped, and monitors with zero and  *)
(* three targets.                                                          *)
(***************************************************************************)
EXTENDS SouthXml

Words_ == {"a", "b", "service", "info", "command", "param", "name", "unit", "type",
           "software", "device"}

E(n, ks) == Element(n, <<>>, ks)
T(v) == Leaf("text", v)
A(n, v) == [name |-> n, value |-> v]

Special == <<"<", "&", "a", "\"">>
Mixed == E("a", <<T(<<"a", " ", "'">>), Element("b", <<A("a", <<"'", "\"">>)>>, <<>>), T(Special),
                  Leaf("cdata", <<"<", "a", "&amp;">>), Leaf("comment", <<"a", "--", "<">>)>>)

Documents_ ==
  {<<Mixed>>, <<E("a", <<T(<<"&#x", "41", ";">>)>>)>>, <<E("a", <<T(<<"&#x", "<">>)>>)>>,
   <<Leaf("comment", <<"a">>), E("a", <<E("b", <<T(<<"b">>)>>), E("b", <<Leaf("cdata", <<>>)>>)>>),
     Leaf("unknown", <<"!", "a">>)>>,
   <<Element("a", <<A("a", <<>>), A("b", Special)>>, <<>>), E("b", <<T(<<" ">>), T(<<"a">>)>>)>>}

Inputs_ ==
  {<<>>, <<"<", "a", " ", "a", "=", "a", "/", ">", "b", "<", "b", "/", ">">>,
   <<"<", "a", ">", "&", "b", " ", " ", "<", "b", ">", "<", "/", "b", " ", ">", "<", "/", "a", ">">>,
   <<"<", "a", " ", "b", "=", "'", "a", "\"", "'", " ", "b", "=", "'", "'", "/", ">">>,
   <<"<", "?xml", " ", "encoding", "=", "'", "a", "'", " ", "a", "?", ">", "<", "!", "a">>,
   <<"<", "a", ">", "<", "/", "b", ">">>}

Values_ == {<<>>, Special}

Label == <<"a", "&", "<">>
Target(l, v, u) == [label |-> l, value |-> v, unit |-> u, type |-> <<"1">>]
Monitor(l, ts) == [label |-> l, device |-> <<"b">>, targets |-> ts]

Devices_ ==
  {<<Monitor(Label, <<>>),
     Monitor(Null, <<Target(Null, <<"1">>, <<>>), Target(<<"b">>, <<"a", " ", ">">>, <<"a">>),
                     Target(Label, Null, <<"'", "\"">>)>>)>>}
===============================================================================
