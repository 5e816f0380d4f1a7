----------------------------- MODULE RouteStore -----------------------------
(***************************************************************************)
(* What a node's router promises its users, without the slot arrays and    *)
(* list of main/src/routing.c: for every destination a set of at most      *)
(* Capacity ways out, one per intermediate, each with a number of steps    *)
(* and a flag that says whether the link it leaves by is up.  Which of     *)
(* several farthest ways gives room to a new one is left open.             *)
(***************************************************************************)
EXTENDS Naturals, FiniteSets

CONSTANTS
  Node,       (* the addresses of the mesh                                 *)
  Capacity,   (* ways out kept for a destination                           *)
  MaxSteps,   (* bound: steps learnt                                       *)
  Droppable   (* intermediates that may be dropped                         *)

VARIABLE routes

Way == [via : Node, steps : Nat, active : BOOLEAN]

Init == routes = [d \in Node |-> {}]

Farthest(R) == {x \in R : \A y \in R : y.steps <= x.steps}
Nearest(R)  == {x \in R : x.active /\ \A y \in R : y.active => x.steps <= y.steps}

(* The sets that R, the ways to d, may become when via offers "steps".     *)
Learnt(R, d, via, steps) ==
  LET same == {x \in R : x.via = via}
      new  == [via |-> via, steps |-> steps, active |-> TRUE]
  IN  IF same # {}
      THEN {(R \ same) \cup {[x EXCEPT !.steps = IF via = d THEN 1 ELSE steps] : x \in same}}
      ELSE IF Cardinality(R) < Capacity THEN {R \cup {new}}
      ELSE {(R \ {x}) \cup {new} : x \in Farthest(R)}

OnlyChanged(D) == \A d \in Node \ D : routes'[d] = routes[d]

(* A frame: its sender is one step away, its origin "steps" through it.    *)
Hear(origin, from, steps) ==
  /\ IF origin = from
     THEN \E R \in Learnt(routes[from], from, from, 1) :
            routes'[from] \in Learnt(R, from, from, steps)
     ELSE /\ routes'[from] \in Learnt(routes[from], from, from, 1)
          /\ routes'[origin] \in Learnt(routes[origin], origin, from, steps)
  /\ OnlyChanged({from, origin})

(* A pair of an answer: "via" is steps - 1 away from d.                    *)
Learn(d, via, steps) ==
  /\ routes'[d] \in Learnt(routes[d], d, via, steps)
  /\ OnlyChanged({d})

SetLink(n, up) ==
  \A d \in Node :
    routes'[d] = {IF x.via = n THEN [x EXCEPT !.active = up] ELSE x : x \in routes[d]}

Drop(n) == \A d \in Node : routes'[d] = {x \in routes[d] : x.via # n}

Next ==
  \/ \E from \in Node, origin \in Node, steps \in 1 .. MaxSteps : Hear(origin, from, steps)
  \/ \E via \in Node, d \in Node, steps \in 1 .. MaxSteps : Learn(d, via, steps)
  \/ \E n \in Node, up \in BOOLEAN : SetLink(n, up)
  \/ \E n \in Droppable : Drop(n)

Spec == Init /\ [][Next]_routes
=============================================================================
