------------------------------- MODULE MCMesh -------------------------------
(* Topologies and scripts for model-checking Mesh.                         *)
EXTENDS Mesh, TLC

CONSTANTS a, b, c, d

Graph(edges) == [n \in Node |-> {m \in Node : {n, m} \in edges}]

Line3    == Graph({{a, b}, {b, c}})
Triangle == Graph({{a, b}, {b, c}, {a, c}})
Line4    == Graph({{a, b}, {b, c}, {c, d}})

Op(op, at, on) == [op |-> op, at |-> at, on |-> on]
Boots(S) == {Op("boot", n, NO_ID) : n \in S}
Asks(S)  == {Op("rquery", n, NO_ID) : n \in S}

BootAsksA   == Boots({a}) \cup Asks({a})
BootThenAsk == Boots({a}) \cup Asks({a, b})
Changes     == Boots({a}) \cup {Op("restart", b, NO_ID), Op("unlink", a, b), Op("link", b, a)}
Cuts        == Boots({a}) \cup {Op("unlink", a, b), Op("unlink", b, a),
                                Op("ping", a, c), Op("post", b, a)}
ChatAC      == Boots({a}) \cup {Op("post", a, c)}
=============================================================================
