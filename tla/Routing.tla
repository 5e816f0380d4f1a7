------------------------------ MODULE Routing ------------------------------
(***************************************************************************)
(* The operations of main/src/routing.c as operators on a router value.    *)
(*                                                                         *)
(* A router holds, for every destination it has heard of, an approximator: *)
(* a small array of slots, each naming a neighbour ("intermediate") through *)
(* which the destination was advertised and at how many steps.  The        *)
(* destination with address d uses slots best_routing_info[d]; an address  *)
(* without an approximator has only free slots and is not in               *)
(* destination_list, which lists the newest approximator first.            *)
(***************************************************************************)
EXTENDS Naturals, Sequences, FiniteSets

CONSTANTS
  Node,                 (* the addresses (ID) of the mesh                  *)
  NO_ID,                (* address 0: no node, and the broadcast address   *)
  MAX_ROUTING_ENTRIES,  (* slots of an approximator (4 in the code)        *)
  SeqWrap                (* discovery_seq counts modulo this (2^32 in C)    *)

ASSUME RoutingAssumption ==
  /\ NO_ID \notin Node
  /\ MAX_ROUTING_ENTRIES \in Nat \ {0}
  /\ SeqWrap \in Nat \ {0}

INT_MAX == 2147483647

Slot   == 1 .. MAX_ROUTING_ENTRIES
Seq32  == 0 .. (SeqWrap - 1)

IntermediateStepInfo ==
  [in_use : BOOLEAN, intermediate_node : Node \cup {NO_ID},
   steps : Nat, link_active : BOOLEAN]

DestinationApproximator == [Slot -> IntermediateStepInfo]

RouterType ==
  [destination_list  : Seq(Node),
   best_routing_info : [Node -> DestinationApproximator],
   count             : [Node -> Nat],
   last_updated_seq  : [Node -> Seq32],
   discovery_seq     : Seq32]

FreeSlot ==
  [in_use |-> FALSE, intermediate_node |-> NO_ID,
   steps |-> INT_MAX, link_active |-> FALSE]

UsedSlot_cut(via, steps) ==            (* mutant: link_active never set    *)
  [in_use |-> TRUE, intermediate_node |-> via, steps |-> steps, link_active |-> FALSE]

UsedSlot(via, steps) ==
  [in_use |-> TRUE, intermediate_node |-> via,
   steps |-> steps, link_active |-> TRUE]

(* malloc leaves discovery_seq with whatever the heap held: an argument.   *)
create_router(garbage) ==
  [destination_list  |-> << >>,
   best_routing_info |-> [d \in Node |-> [i \in Slot |-> FreeSlot]],
   count             |-> [d \in Node |-> 0],
   last_updated_seq  |-> [d \in Node |-> 0],
   discovery_seq     |-> garbage]

----------------------------------------------------------------------------
(* Slots of one approximator.                                              *)

Lowest(S) == CHOOSE i \in S : \A j \in S : i <= j

SlotsVia(slots, via) ==
  {i \in Slot : slots[i].in_use /\ slots[i].intermediate_node = via}

FreeSlots(slots) == {i \in Slot : ~ slots[i].in_use}

ActiveSlots(slots) == {i \in Slot : slots[i].in_use /\ slots[i].link_active}

FarthestSlots(slots) ==
  {i \in Slot : \A j \in Slot : slots[j].steps <= slots[i].steps}

BestSlots_farthest(slots) ==           (* mutant: the comparison reversed  *)
  {i \in ActiveSlots(slots) :
     \A j \in ActiveSlots(slots) : slots[i].steps >= slots[j].steps}

(* choose_approximation_route: the first active slot with fewest steps.    *)
BestSlots(slots) ==
  {i \in ActiveSlots(slots) :
     \A j \in ActiveSlots(slots) : slots[i].steps <= slots[j].steps}

choose_approximation_route(slots) == slots[Lowest(BestSlots(slots))]

UpdatedSlots_freeFirst(slots, destination, via, steps) ==  (* mutant: no search *)
  IF FreeSlots(slots) # {}
  THEN [slots EXCEPT ![Lowest(FreeSlots(slots))] = UsedSlot(via, steps)]
  ELSE [slots EXCEPT ![Lowest(FarthestSlots(slots))] = UsedSlot(via, steps)]

UpdatedSlots_neverExact(slots, destination, via, steps) == (* mutant: no "exact neighbor" *)
  IF SlotsVia(slots, via) # {}
  THEN [slots EXCEPT ![Lowest(SlotsVia(slots, via))].steps = steps]
  ELSE UpdatedSlots_freeFirst(slots, destination, via, steps)

UpdatedSlots_reactivate(slots, destination, via, steps) == (* mutant: refresh relinks *)
  IF SlotsVia(slots, via) # {}
  THEN [slots EXCEPT ![Lowest(SlotsVia(slots, via))] =
          UsedSlot(via, IF via = destination THEN 1 ELSE steps)]
  ELSE UpdatedSlots_freeFirst(slots, destination, via, steps)

UpdatedSlots_evictFirst(slots, destination, via, steps) == (* mutant: evicts slot 1 *)
  IF SlotsVia(slots, via) # {}
  THEN [slots EXCEPT ![Lowest(SlotsVia(slots, via))].steps =
          IF via = destination THEN 1 ELSE steps]
  ELSE IF FreeSlots(slots) # {}
  THEN [slots EXCEPT ![Lowest(FreeSlots(slots))] = UsedSlot(via, steps)]
  ELSE [slots EXCEPT ![1] = UsedSlot(via, steps)]

(* update_approximation_entry: refresh the slot of this intermediate, else *)
(* take the first free slot, else overwrite the first farthest one.  A     *)
(* refreshed slot keeps its link_active flag; a filled one becomes active. *)
UpdatedSlots(slots, destination, via, steps) ==
  IF SlotsVia(slots, via) # {}
  THEN [slots EXCEPT ![Lowest(SlotsVia(slots, via))].steps =
          IF via = destination THEN 1 ELSE steps]
  ELSE IF FreeSlots(slots) # {}
  THEN [slots EXCEPT ![Lowest(FreeSlots(slots))] = UsedSlot(via, steps)]
  ELSE [slots EXCEPT ![Lowest(FarthestSlots(slots))] = UsedSlot(via, steps)]

TakesFreeSlot(slots, via) == SlotsVia(slots, via) = {} /\ FreeSlots(slots) # {}

----------------------------------------------------------------------------
(* The router.                                                             *)

Known(r) == {r.destination_list[k] : k \in DOMAIN r.destination_list}

get_destination_approximator(r, d) ==
  IF d \in Known(r) THEN r
  ELSE [r EXCEPT !.destination_list = <<d>> \o @]

update_approximation_entry(r, d, via, steps) ==
  LET slots == r.best_routing_info[d]
      seq   == (r.discovery_seq + 1) % SeqWrap
      more  == IF TakesFreeSlot(slots, via) THEN r.count[d] + 1 ELSE r.count[d]
  IN  [destination_list  |-> r.destination_list,
       best_routing_info |-> [r.best_routing_info EXCEPT ![d] = UpdatedSlots(slots, d, via, steps)],
       count             |-> [r.count EXCEPT ![d] = more],
       last_updated_seq  |-> [r.last_updated_seq EXCEPT ![d] = seq],
       discovery_seq     |-> seq]

router_update_swapped(r, origin, from, steps) ==           (* mutant: origin and sender *)
  LET known == get_destination_approximator(get_destination_approximator(r, from), origin)
  IN  update_approximation_entry(
        update_approximation_entry(known, origin, origin, 1), from, origin, steps)

(* router_update: the sender of a frame is one step away, its origin steps.*)
router_update(r, origin, from, steps) ==
  LET known == get_destination_approximator(get_destination_approximator(r, from), origin)
  IN  update_approximation_entry(
        update_approximation_entry(known, from, from, 1), origin, from, steps)

(* router_incorporate_rquery: one pair "dest:steps" of a neighbour's answer.*)
router_incorporate_rquery(r, from, dest, steps) ==
  update_approximation_entry(get_destination_approximator(r, dest), dest, from, steps + 1)

SetLink(r, node, active) ==
  [r EXCEPT !.best_routing_info =
     [d \in Node |-> [i \in Slot |->
        IF i \in SlotsVia(r.best_routing_info[d], node)
        THEN [r.best_routing_info[d][i] EXCEPT !.link_active = active]
        ELSE r.best_routing_info[d][i]]]]

router_unlink_node(r, bad_node) == SetLink(r, bad_node, FALSE)
router_link_node(r, node)       == SetLink(r, node, TRUE)

(* router_bad_intermediate: drop the slot of this intermediate everywhere. *)
router_bad_intermediate(r, via) ==
  LET Hit(d)     == SlotsVia(r.best_routing_info[d], via)
      Dropped(d) == [r.best_routing_info[d] EXCEPT ![Lowest(Hit(d))] = FreeSlot]
  IN  [destination_list  |-> r.destination_list,
       best_routing_info |-> [d \in Node |->
          IF Hit(d) = {} THEN r.best_routing_info[d] ELSE Dropped(d)],
       count             |-> [d \in Node |->
          IF Hit(d) # {} /\ r.count[d] > 0 THEN r.count[d] - 1 ELSE r.count[d]],
       last_updated_seq  |-> r.last_updated_seq,
       discovery_seq     |-> r.discovery_seq]

Routed(r, d) == ActiveSlots(r.best_routing_info[d]) # {}

BestRoute(r, d) == choose_approximation_route(r.best_routing_info[d])

router_query_intermediate(r, destination) ==
  IF destination \in Known(r) /\ Routed(r, destination)
  THEN BestRoute(r, destination).intermediate_node
  ELSE NO_ID

----------------------------------------------------------------------------
(* router_answer_rquery: up to count routed destinations, first those      *)
(* updated since the requester's last query, then the others, each group   *)
(* in list order.  The answer is a set of pairs, "at" giving their order.  *)

Position(r, d) == CHOOSE k \in DOMAIN r.destination_list : r.destination_list[k] = d

Ahead(r, S, d) == Cardinality({e \in S : Position(r, e) < Position(r, d)})

FirstOf_short(r, S, n) == {d \in S : Ahead(r, S, d) + 1 < n}  (* mutant: one too few *)

FirstOf(r, S, n) == {d \in S : Ahead(r, S, d) < n}

Fresher(r, since) == {d \in Known(r) : r.last_updated_seq[d] > since}

Offered_oneRoom(r, requester, since, count) ==   (* mutant: old ones take the room of fresh ones *)
  LET said == FirstOf(r, {d \in Known(r) \ {requester} : Routed(r, d)}, count)
  IN  [fresh |-> said \cap Fresher(r, since), old |-> said \ Fresher(r, since)]

Offered(r, requester, since, count) ==
  LET others == Known(r) \ {requester}
      fresh  == FirstOf(r, {d \in others \cap Fresher(r, since) : Routed(r, d)}, count)
      old    == {d \in FirstOf(r, others \ Fresher(r, since), count) : Routed(r, d)}
  IN  [fresh |-> fresh, old |-> FirstOf(r, old, count - Cardinality(fresh))]

router_answer_rquery(r, requester, since, count) ==
  LET o == Offered(r, requester, since, count)
  IN  {[destination_node |-> d, steps |-> BestRoute(r, d).steps,
        at |-> IF d \in o.fresh THEN Ahead(r, o.fresh, d)
               ELSE Cardinality(o.fresh) + Ahead(r, o.old, d)]
         : d \in o.fresh \cup o.old}
=============================================================================
