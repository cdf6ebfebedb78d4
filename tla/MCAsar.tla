------------------------------- MODULE MCAsar -------------------------------
(* Instances of Asar for TLC: archives with two entries, one of which may  *)
(* have two more, and every path of three names.                           *)
EXTENDS Asar

MCNames == {"a", "b"}
MCPaths == UNION {[1..n -> MCNames] : n \in 0..3}

Places == {<<"a">>, <<"b">>, <<"a", "a">>, <<"a", "b">>}
Root   == [kind |-> "dir", to |-> <<>>]
Nodes  == [kind : {"dir", "file", "unpacked"}, to : {<<>>}]
            \cup [kind : {"link"}, to : Places \cup {<<>>}]

WellFormed(h) ==
  \A p \in DOMAIN h \ {<<>>} :
    /\ h[Front(p)].kind = "dir"
    /\ h[p].kind = "link" => h[p].to \in DOMAIN h /\ h[h[p].to].kind # "link"

MCArchives ==
  {h \in {(<<>> :> Root) @@ nodes :
            nodes \in UNION {[places -> Nodes] : places \in
              {{}, {<<"a">>}, {<<"a">>, <<"b">>}, {<<"a">>, <<"a", "b">>},
               {<<"a">>, <<"b">>, <<"a", "b">>}}}} :
     WellFormed(h)}
=============================================================================
