-------------------------- MODULE RouterRefinement --------------------------
(***************************************************************************)
(* The slot arrays of Router implement the sets of ways of RouteStore.     *)
(***************************************************************************)
EXTENDS Router

(* The ways out held in one approximator's slots.                          *)
Ways(slots) ==
  {[via    |-> slots[i].intermediate_node,
    steps  |-> slots[i].steps,
    active |-> slots[i].link_active] : i \in Slot \ FreeSlots(slots)}

Store ==
  INSTANCE RouteStore WITH
    Capacity <- MAX_ROUTING_ENTRIES,
    routes   <- [d \in Node |-> Ways(router.best_routing_info[d])]

(* The slots, their first-match search, first-free and first-farthest      *)
(* choices behave as sets of ways with one way per intermediate            *)
(* (routing.c:93-197, 342-370).                                            *)
ImplementsStore == Store!Spec

(* A message leaves by a way that is up and none shorter is up, and it is  *)
(* dropped only when no way is up (routing.c:158-175, 327-340).            *)
ChosenIsNearest ==
  \A d \in Node :
    LET near == Store!Nearest(Ways(router.best_routing_info[d]))
        via  == router_query_intermediate(router, d)
    IN  IF near = {} THEN via = NO_ID ELSE \E w \in near : w.via = via
=============================================================================
