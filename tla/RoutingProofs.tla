---------------------------- MODULE RoutingProofs ---------------------------
(***************************************************************************)
(* Lemmas about the operations of Routing, for any mesh and any number of  *)
(* slots.  The proofs about Router and about Mesh rest on them.            *)
(*                                                                         *)
(* Lowest picks a member of a non-empty set of slots; one update keeps an  *)
(* approximator well-formed; so does every operation on the router.        *)
(* Learning is the only operation that chooses a slot, and it is described *)
(* once, by UpdateCases; every later argument starts from its two cases.   *)
(***************************************************************************)
EXTENDS Routing, TLAPS, WellFoundedInduction, FiniteSetTheorems, SequenceTheorems

----------------------------------------------------------------------------
(* Types.                                                                  *)

(* discovery_seq stays a 32-bit value.                                     *)
LEMMA SeqStep ==
  ASSUME NEW s \in Seq32
  PROVE  (s + 1) % SeqWrap \in Seq32
  BY RoutingAssumption, SMT DEF Seq32

(* update_approximation_entry leaves slots of the right type.              *)
LEMMA UpdatedSlotsType ==
  ASSUME NEW slots \in DestinationApproximator, NEW d \in Node,
         NEW via \in Node \cup {NO_ID}, NEW steps \in Nat
  PROVE  UpdatedSlots(slots, d, via, steps) \in DestinationApproximator
<1>1. UsedSlot(via, steps) \in IntermediateStepInfo
  BY DEF UsedSlot, IntermediateStepInfo
<1>2. \A k, s : s \in IntermediateStepInfo => [slots EXCEPT ![k] = s] \in DestinationApproximator
  BY DEF DestinationApproximator
<1>3. \A k : \A n \in Nat : [slots EXCEPT ![k].steps = n] \in DestinationApproximator
  <2>. TAKE k
  <2>. TAKE n \in Nat
  <2>1. CASE k \in Slot
    BY <2>1 DEF DestinationApproximator, IntermediateStepInfo
  <2>2. CASE k \notin Slot
    BY <2>2 DEF DestinationApproximator
  <2>. QED  BY <2>1, <2>2
<1>. QED  BY <1>1, <1>2, <1>3 DEF UpdatedSlots

(* The operations on the router return a router.                           *)
LEMMA DestinationType ==
  ASSUME NEW r \in RouterType, NEW d \in Node
  PROVE  get_destination_approximator(r, d) \in RouterType
<1>1. <<d>> \o r.destination_list \in Seq(Node)
  BY DEF RouterType
<1>. DEFINE list == <<d>> \o r.destination_list
<1>2. list \in Seq(Node)  BY <1>1
<1>. HIDE DEF list
<1>3. [r EXCEPT !.destination_list = list] \in RouterType
  BY <1>2 DEF RouterType
<1>. QED  BY <1>3 DEF get_destination_approximator, list

LEMMA UpdateType ==
  ASSUME NEW r \in RouterType, NEW d \in Node,
         NEW via \in Node \cup {NO_ID}, NEW steps \in Nat
  PROVE  update_approximation_entry(r, d, via, steps) \in RouterType
<1>1. (r.discovery_seq + 1) % SeqWrap \in Seq32  BY SeqStep DEF RouterType
<1>2. UpdatedSlots(r.best_routing_info[d], d, via, steps) \in DestinationApproximator
  BY UpdatedSlotsType DEF RouterType
<1>3. r.count[d] + 1 \in Nat  BY DEF RouterType
<1>. QED  BY <1>1, <1>2, <1>3 DEF update_approximation_entry, RouterType

LEMMA RouterUpdateType ==
  ASSUME NEW r \in RouterType, NEW origin \in Node, NEW from \in Node, NEW steps \in Nat
  PROVE  router_update(r, origin, from, steps) \in RouterType
  BY DestinationType, UpdateType DEF router_update

LEMMA IncorporateType ==
  ASSUME NEW r \in RouterType, NEW from \in Node \cup {NO_ID},
         NEW dest \in Node, NEW steps \in Nat
  PROVE  router_incorporate_rquery(r, from, dest, steps) \in RouterType
<1>1. steps + 1 \in Nat  OBVIOUS
<1>. QED  BY <1>1, DestinationType, UpdateType DEF router_incorporate_rquery

LEMMA SetLinkType ==
  ASSUME NEW r \in RouterType, NEW node \in Node, NEW active \in BOOLEAN
  PROVE  SetLink(r, node, active) \in RouterType
<1>. DEFINE new == [d \in Node |-> [i \in Slot |->
                     IF i \in SlotsVia(r.best_routing_info[d], node)
                     THEN [r.best_routing_info[d][i] EXCEPT !.link_active = active]
                     ELSE r.best_routing_info[d][i]]]
<1>1. ASSUME NEW s \in IntermediateStepInfo
      PROVE  [s EXCEPT !.link_active = active] \in IntermediateStepInfo
  BY DEF IntermediateStepInfo
<1>2. new \in [Node -> DestinationApproximator]
  BY <1>1 DEF RouterType, DestinationApproximator
<1>3. SetLink(r, node, active) = [r EXCEPT !.best_routing_info = new]
  BY DEF SetLink
<1>. HIDE DEF new
<1>. QED  BY <1>2, <1>3 DEF RouterType

LEMMA BadIntermediateType ==
  ASSUME NEW r \in RouterType, NEW via \in Node
  PROVE  router_bad_intermediate(r, via) \in RouterType
<1>1. FreeSlot \in IntermediateStepInfo
  BY DEF FreeSlot, IntermediateStepInfo, INT_MAX
<1>2. ASSUME NEW slots \in DestinationApproximator, NEW k
      PROVE  [slots EXCEPT ![k] = FreeSlot] \in DestinationApproximator
  BY <1>1 DEF DestinationApproximator
<1>3. \A d \in Node : r.count[d] \in Nat /\ (r.count[d] > 0 => r.count[d] - 1 \in Nat)
  BY DEF RouterType
<1>. QED  BY <1>2, <1>3 DEF router_bad_intermediate, RouterType

LEMMA CreateType ==
  ASSUME NEW g \in Seq32
  PROVE  create_router(g) \in RouterType
<1>1. FreeSlot \in IntermediateStepInfo
  BY DEF FreeSlot, IntermediateStepInfo, INT_MAX
<1>2. 0 \in Seq32
  BY RoutingAssumption DEF Seq32
<1>3. << >> \in Seq(Node)
  OBVIOUS
<1>. QED  BY <1>1, <1>2, <1>3 DEF create_router, RouterType, DestinationApproximator

----------------------------------------------------------------------------
(* Which slot an update touches.                                           *)

(* A non-empty set of numbers has a least one.                             *)
LEMMA LeastExists ==
  ASSUME NEW S \in SUBSET Nat, S # {}
  PROVE  \E i \in S : \A j \in S : i <= j
<1>1. PICK i \in S : \A j \in S : ~ (<<j, i>> \in OpToRel(<, Nat))
  BY NatLessThanWellFounded, WFMin, Zenon
<1>2. ASSUME NEW j \in S PROVE i <= j
  <2>1. CASE j < i
    <3>1. <<j, i>> \in {ss \in Nat \X Nat : ss[1] < ss[2]}  BY <2>1, SMT
    <3>. QED  BY <3>1, <1>1, Zenon DEF OpToRel
  <2>2. CASE ~ (j < i)
    BY <2>2, SMT
  <2>. QED  BY <2>1, <2>2
<1>. QED  BY <1>2

(* The first match of a search over the slots is a match.                  *)
LEMMA LowestIn ==
  ASSUME NEW S \in SUBSET Slot, S # {}
  PROVE  Lowest(S) \in S
<1>1. S \in SUBSET Nat  BY RoutingAssumption DEF Slot
<1>. QED  BY <1>1, LeastExists DEF Lowest

(* Some slot of an approximator is a farthest one: else there would be a   *)
(* least k such that no slot is farthest among the first k.                *)
LEMMA FarthestExists ==
  ASSUME NEW slots \in DestinationApproximator
  PROVE  FarthestSlots(slots) # {}
<1>. DEFINE Tops(k) == {m \in Slot : \A j \in 1 .. k : slots[j].steps <= slots[m].steps}
            C == {k \in Slot : Tops(k) = {}}
<1>1. SUFFICES ASSUME C # {} PROVE FALSE
  <2>1. MAX_ROUTING_ENTRIES \in Slot  BY RoutingAssumption DEF Slot
  <2>2. Tops(MAX_ROUTING_ENTRIES) = FarthestSlots(slots)  BY DEF FarthestSlots, Slot
  <2>. QED  BY <2>1, <2>2
<1>2. \A i \in Slot : i \in Nat /\ i >= 1 /\ slots[i].steps \in Nat
  BY RoutingAssumption DEF Slot, DestinationApproximator, IntermediateStepInfo
<1>3. C \in SUBSET Nat  BY <1>2
<1>4. PICK k \in C : \A j \in C : k <= j
  <2>. HIDE DEF C
  <2>. QED  BY <1>1, <1>3, LeastExists
<1>5. k \in Slot /\ k \in Nat /\ k >= 1 /\ Tops(k) = {}
  BY <1>2
<1>6. \A j \in Slot : j < k => Tops(j) # {}
  <2>1. ASSUME NEW j \in Slot, j < k, Tops(j) = {} PROVE FALSE
    <3>1. j \in C  BY <2>1
    <3>2. k <= j  BY <1>4, <3>1
    <3>. QED  BY <1>2, <1>5, <2>1, <3>2
  <2>. HIDE DEF Tops
  <2>. QED  BY <2>1
<1>7. CASE k = 1
  <2>1. 1 \in Tops(1)  BY <1>2, <1>5, <1>7
  <2>. QED  BY <2>1, <1>5, <1>7
<1>8. CASE k # 1
  <2>1. k - 1 \in Slot /\ k - 1 < k  BY <1>5, <1>8, RoutingAssumption DEF Slot
  <2>2. PICK m \in Slot : \A j \in 1 .. (k - 1) : slots[j].steps <= slots[m].steps
    BY <1>6, <2>1
  <2>3. \A j \in 1 .. k : j \in Slot /\ (j = k \/ j \in 1 .. (k - 1))
    BY <1>5, RoutingAssumption DEF Slot
  <2>4. CASE slots[k].steps <= slots[m].steps
    <3>1. m \in Tops(k)  BY <2>2, <2>3, <2>4
    <3>. QED  BY <3>1, <1>5
  <2>5. CASE ~ (slots[k].steps <= slots[m].steps)
    <3>1. \A j \in 1 .. k : slots[j].steps <= slots[k].steps
      <4>. SUFFICES ASSUME NEW j \in 1 .. k PROVE slots[j].steps <= slots[k].steps
        OBVIOUS
      <4>1. slots[j].steps \in Nat /\ slots[k].steps \in Nat /\ slots[m].steps \in Nat
        BY <2>3, <1>2, <1>5
      <4>2. CASE j = k
        BY <4>1, <4>2
      <4>3. CASE j \in 1 .. (k - 1)
        <5>1. slots[j].steps <= slots[m].steps  BY <2>2, <4>3
        <5>. QED  BY <2>5, <4>1, <5>1
      <4>. QED  BY <2>3, <4>2, <4>3
    <3>2. k \in Tops(k)  BY <3>1, <1>5
    <3>. QED  BY <3>2, <1>5
  <2>. QED  BY <2>4, <2>5
<1>. QED  BY <1>7, <1>8

(* An update either refreshes the steps of a slot of this intermediate, or *)
(* fills one slot: a free one, or a farthest one when none is free.        *)
Refreshes(slots, new, d, via, steps) ==
  \E k \in SlotsVia(slots, via) :
    new = [slots EXCEPT ![k].steps = IF via = d THEN 1 ELSE steps]

Fills(slots, new, via, steps) ==
  /\ SlotsVia(slots, via) = {}
  /\ \E k \in Slot :
       /\ new = [slots EXCEPT ![k] = UsedSlot(via, steps)]
       /\ k \in FreeSlots(slots) \/ (FreeSlots(slots) = {} /\ k \in FarthestSlots(slots))

LEMMA UpdateCases ==
  ASSUME NEW slots \in DestinationApproximator, NEW d, NEW via, NEW steps
  PROVE  LET new == UpdatedSlots(slots, d, via, steps)
         IN  Refreshes(slots, new, d, via, steps) \/ Fills(slots, new, via, steps)
<1>1. CASE SlotsVia(slots, via) # {}
  <2>1. Lowest(SlotsVia(slots, via)) \in SlotsVia(slots, via)
    BY <1>1, LowestIn DEF SlotsVia
  <2>. QED  BY <1>1, <2>1 DEF UpdatedSlots, Refreshes
<1>2. CASE SlotsVia(slots, via) = {} /\ FreeSlots(slots) # {}
  <2>1. FreeSlots(slots) \subseteq Slot  BY DEF FreeSlots
  <2>2. Lowest(FreeSlots(slots)) \in FreeSlots(slots)
    BY <1>2, <2>1, LowestIn
  <2>. QED  BY <1>2, <2>1, <2>2 DEF UpdatedSlots, Fills
<1>3. CASE SlotsVia(slots, via) = {} /\ FreeSlots(slots) = {}
  <2>1. FarthestSlots(slots) \subseteq Slot  BY DEF FarthestSlots
  <2>2. Lowest(FarthestSlots(slots)) \in FarthestSlots(slots)
    BY <2>1, LowestIn, FarthestExists
  <2>. QED  BY <1>3, <2>1, <2>2 DEF UpdatedSlots, Fills
<1>. QED  BY <1>1, <1>2, <1>3

----------------------------------------------------------------------------
(* One slot per intermediate.                                              *)

OneEach(slots) ==
  \A i, j \in Slot :
    /\ slots[i].in_use
    /\ slots[j].in_use
    /\ slots[i].intermediate_node = slots[j].intermediate_node
    => i = j

AllOneEach(r) == \A d \in Node : OneEach(r.best_routing_info[d])

LEMMA UpdatedOneEach ==
  ASSUME NEW slots \in DestinationApproximator, OneEach(slots),
         NEW d \in Node, NEW via \in Node \cup {NO_ID}, NEW steps \in Nat
  PROVE  OneEach(UpdatedSlots(slots, d, via, steps))
<1>. DEFINE new == UpdatedSlots(slots, d, via, steps)
<1>1. CASE Refreshes(slots, new, d, via, steps)
  <2>1. \A i \in Slot : /\ new[i].in_use = slots[i].in_use
                        /\ new[i].intermediate_node = slots[i].intermediate_node
    BY <1>1 DEF Refreshes, SlotsVia, DestinationApproximator, IntermediateStepInfo
  <2>. QED  BY <2>1 DEF OneEach
<1>2. CASE Fills(slots, new, via, steps)
  <2>1. PICK k \in Slot : new = [slots EXCEPT ![k] = UsedSlot(via, steps)]
    BY <1>2 DEF Fills
  <2>2. \A i \in Slot : i # k => new[i] = slots[i]
    BY <2>1 DEF DestinationApproximator
  <2>3. new[k].intermediate_node = via
    BY <2>1 DEF DestinationApproximator, UsedSlot
  <2>4. \A i \in Slot : slots[i].in_use => slots[i].intermediate_node # via
    BY <1>2 DEF Fills, SlotsVia
  <2>. QED  BY <2>2, <2>3, <2>4 DEF OneEach
<1>. QED  BY <1>1, <1>2, UpdateCases

(* What an operation on the router does to the approximators.              *)
LEMMA UpdateEffect ==
  ASSUME NEW r \in RouterType, NEW d \in Node, NEW via, NEW steps, NEW e \in Node
  PROVE  update_approximation_entry(r, d, via, steps).best_routing_info[e] =
           IF e = d THEN UpdatedSlots(r.best_routing_info[d], d, via, steps)
           ELSE r.best_routing_info[e]
  BY DEF update_approximation_entry, RouterType

LEMMA DestinationEffect ==
  ASSUME NEW r \in RouterType, NEW d \in Node
  PROVE  get_destination_approximator(r, d).best_routing_info = r.best_routing_info
  BY DEF get_destination_approximator, RouterType

(* The operations on the router keep one slot per intermediate.            *)
LEMMA UpdateOneEach ==
  ASSUME NEW r \in RouterType, AllOneEach(r), NEW d \in Node,
         NEW via \in Node \cup {NO_ID}, NEW steps \in Nat
  PROVE  AllOneEach(update_approximation_entry(r, d, via, steps))
<1>1. OneEach(UpdatedSlots(r.best_routing_info[d], d, via, steps))
  BY UpdatedOneEach DEF AllOneEach, RouterType
<1>. QED  BY <1>1, UpdateEffect DEF AllOneEach

LEMMA DestinationOneEach ==
  ASSUME NEW r \in RouterType, AllOneEach(r), NEW d \in Node
  PROVE  AllOneEach(get_destination_approximator(r, d))
  BY DestinationEffect DEF AllOneEach

LEMMA SetLinkOneEach ==
  ASSUME NEW r \in RouterType, AllOneEach(r), NEW node \in Node, NEW active \in BOOLEAN
  PROVE  AllOneEach(SetLink(r, node, active))
<1>1. ASSUME NEW d \in Node, NEW i \in Slot
      PROVE  LET old == r.best_routing_info[d][i]
                 new == SetLink(r, node, active).best_routing_info[d][i]
             IN  new.in_use = old.in_use /\ new.intermediate_node = old.intermediate_node
  <2>1. r.best_routing_info[d][i] \in IntermediateStepInfo
    BY DEF RouterType, DestinationApproximator
  <2>. QED  BY <2>1 DEF SetLink, RouterType, IntermediateStepInfo
<1>. QED  BY <1>1 DEF AllOneEach, OneEach

LEMMA BadIntermediateOneEach ==
  ASSUME NEW r \in RouterType, AllOneEach(r), NEW via \in Node
  PROVE  AllOneEach(router_bad_intermediate(r, via))
<1>1. ASSUME NEW d \in Node, NEW i \in Slot
      PROVE  LET new == router_bad_intermediate(r, via).best_routing_info[d][i]
             IN  new = r.best_routing_info[d][i] \/ new = FreeSlot
  BY DEF router_bad_intermediate, RouterType, DestinationApproximator
<1>2. FreeSlot.in_use = FALSE  BY DEF FreeSlot
<1>. QED  BY <1>1, <1>2 DEF AllOneEach, OneEach

LEMMA RouterUpdateOneEach ==
  ASSUME NEW r \in RouterType, AllOneEach(r),
         NEW origin \in Node, NEW from \in Node, NEW steps \in Nat
  PROVE  AllOneEach(router_update(r, origin, from, steps))
<1>. DEFINE known == get_destination_approximator(get_destination_approximator(r, from), origin)
            direct == update_approximation_entry(known, from, from, 1)
<1>1. known \in RouterType /\ AllOneEach(known)
  BY DestinationType, DestinationOneEach
<1>. HIDE DEF known
<1>2. direct \in RouterType /\ AllOneEach(direct)
  BY <1>1, UpdateType, UpdateOneEach
<1>. HIDE DEF direct
<1>3. AllOneEach(update_approximation_entry(direct, origin, from, steps))
  BY <1>2, UpdateOneEach
<1>. QED  BY <1>3 DEF router_update, known, direct

LEMMA IncorporateOneEach ==
  ASSUME NEW r \in RouterType, AllOneEach(r), NEW from \in Node \cup {NO_ID},
         NEW dest \in Node, NEW steps \in Nat
  PROVE  AllOneEach(router_incorporate_rquery(r, from, dest, steps))
<1>. DEFINE known == get_destination_approximator(r, dest)
<1>1. known \in RouterType /\ AllOneEach(known)
  BY DestinationType, DestinationOneEach
<1>. HIDE DEF known
<1>. QED  BY <1>1, UpdateOneEach DEF router_incorporate_rquery, known

----------------------------------------------------------------------------
(* Ways that are up.                                                       *)

(* An update leaves the active slots active, or fills one with an active   *)
(* one.                                                                    *)
LEMMA UpdatedActive ==
  ASSUME NEW slots \in DestinationApproximator, ActiveSlots(slots) # {},
         NEW d \in Node, NEW via \in Node \cup {NO_ID}, NEW steps \in Nat
  PROVE  ActiveSlots(UpdatedSlots(slots, d, via, steps)) # {}
<1>. DEFINE new == UpdatedSlots(slots, d, via, steps)
<1>1. PICK i \in Slot : slots[i].in_use /\ slots[i].link_active
  BY DEF ActiveSlots
<1>2. CASE Refreshes(slots, new, d, via, steps)
  <2>1. new[i].in_use /\ new[i].link_active
    BY <1>1, <1>2 DEF Refreshes, SlotsVia, DestinationApproximator, IntermediateStepInfo
  <2>. QED  BY <2>1 DEF ActiveSlots
<1>3. CASE Fills(slots, new, via, steps)
  <2>1. PICK k \in Slot : new = [slots EXCEPT ![k] = UsedSlot(via, steps)]
    BY <1>3 DEF Fills
  <2>2. new[k] = UsedSlot(via, steps)  BY <2>1 DEF DestinationApproximator
  <2>3. new[k].in_use /\ new[k].link_active  BY <2>2 DEF UsedSlot
  <2>. QED  BY <2>3 DEF ActiveSlots
<1>. QED  BY <1>2, <1>3, UpdateCases

LEMMA UpdateRouted ==
  ASSUME NEW r \in RouterType, NEW d \in Node, NEW e \in Node, Routed(r, e),
         NEW via \in Node \cup {NO_ID}, NEW steps \in Nat
  PROVE  Routed(update_approximation_entry(r, d, via, steps), e)
<1>1. r.best_routing_info[e] \in DestinationApproximator  BY DEF RouterType
<1>. QED  BY <1>1, UpdatedActive, UpdateEffect DEF Routed

LEMMA DestinationRouted ==
  ASSUME NEW r \in RouterType, NEW d \in Node, NEW e \in Node, Routed(r, e)
  PROVE  Routed(get_destination_approximator(r, d), e)
  BY DestinationEffect DEF Routed

(* The search of choose_approximation_route finds a slot when one is       *)
(* active: some number of steps is the least of the active slots.          *)
LEMMA BestExists ==
  ASSUME NEW slots \in DestinationApproximator, ActiveSlots(slots) # {}
  PROVE  BestSlots(slots) # {}
<1>. DEFINE told == {slots[i].steps : i \in ActiveSlots(slots)}
<1>1. \A i \in ActiveSlots(slots) : slots[i].steps \in Nat
  BY DEF ActiveSlots, DestinationApproximator, IntermediateStepInfo
<1>2. told # {} /\ told \in SUBSET Nat  BY <1>1
<1>3. PICK least \in told : \A t \in told : least <= t
  <2>. HIDE DEF told
  <2>. QED  BY <1>2, LeastExists
<1>4. PICK i \in ActiveSlots(slots) : slots[i].steps = least
  BY <1>3
<1>5. \A j \in ActiveSlots(slots) : slots[i].steps <= slots[j].steps
  BY <1>3, <1>4
<1>. QED  BY <1>4, <1>5 DEF BestSlots

----------------------------------------------------------------------------
(* Every destination with a way out is in the list that the searches walk. *)

UsedSlots(slots) == {i \in Slot : slots[i].in_use}

Listed(r) == \A d \in Node : UsedSlots(r.best_routing_info[d]) # {} => d \in Known(r)

LEMMA DestinationKnown ==
  ASSUME NEW r \in RouterType, NEW d \in Node
  PROVE  Known(get_destination_approximator(r, d)) = Known(r) \cup {d}
<1>. DEFINE list == r.destination_list
            longer == <<d>> \o list
            new == get_destination_approximator(r, d)
<1>1. CASE d \in Known(r)
  BY <1>1 DEF get_destination_approximator
<1>2. CASE d \notin Known(r)
  <2>1. list \in Seq(Node)  BY DEF RouterType
  <2>2. /\ new.destination_list = longer
        /\ new.best_routing_info = r.best_routing_info
    BY <1>2 DEF get_destination_approximator, RouterType
  <2>. HIDE DEF list
  <2>3. /\ DOMAIN longer = 1 .. (Len(list) + 1)
        /\ longer[1] = d
        /\ \A k \in 1 .. Len(list) : longer[k + 1] = list[k]
        /\ DOMAIN list = 1 .. Len(list)
        /\ Len(list) \in Nat
    BY <2>1
  <2>. HIDE DEF longer, new
  <2>4. ASSUME NEW e \in {longer[k] : k \in DOMAIN longer}
        PROVE  e \in {list[k] : k \in DOMAIN list} \cup {d}
    <3>1. PICK k \in 1 .. (Len(list) + 1) : longer[k] = e  BY <2>3
    <3>2. CASE k = 1
      BY <2>3, <3>1, <3>2
    <3>3. CASE k # 1
      <4>1. k - 1 \in 1 .. Len(list) /\ (k - 1) + 1 = k  BY <2>3, <3>3
      <4>2. list[k - 1] = e  BY <2>3, <3>1, <4>1
      <4>. QED  BY <2>3, <4>1, <4>2
    <3>. QED  BY <3>2, <3>3
  <2>5. ASSUME NEW e \in {list[k] : k \in DOMAIN list} \cup {d}
        PROVE  e \in {longer[k] : k \in DOMAIN longer}
    <3>1. CASE e = d
      <4>1. 1 \in DOMAIN longer  BY <2>3
      <4>. QED  BY <2>3, <3>1, <4>1
    <3>2. CASE e # d
      <4>1. PICK k \in 1 .. Len(list) : list[k] = e  BY <2>3, <3>2
      <4>2. k + 1 \in DOMAIN longer /\ longer[k + 1] = e  BY <2>3, <4>1
      <4>. QED  BY <4>2
    <3>. QED  BY <3>1, <3>2
  <2>6. Known(new) = Known(r) \cup {d}
    BY <2>2, <2>4, <2>5 DEF Known, list
  <2>. QED  BY <2>6 DEF new
<1>. QED  BY <1>1, <1>2

LEMMA DestinationListed ==
  ASSUME NEW r \in RouterType, Listed(r), NEW d \in Node
  PROVE  LET new == get_destination_approximator(r, d)
         IN  /\ Listed(new)
             /\ Known(new) = Known(r) \cup {d}
  BY DestinationKnown, DestinationEffect DEF Listed

LEMMA UpdateListed ==
  ASSUME NEW r \in RouterType, Listed(r), NEW d \in Known(r), d \in Node, NEW via, NEW steps
  PROVE  LET new == update_approximation_entry(r, d, via, steps)
         IN  Listed(new) /\ Known(new) = Known(r)
<1>. DEFINE new == update_approximation_entry(r, d, via, steps)
<1>1. Known(new) = Known(r)  BY DEF update_approximation_entry, Known
<1>2. \A e \in Node \ {d} : new.best_routing_info[e] = r.best_routing_info[e]
  BY UpdateEffect
<1>. HIDE DEF new
<1>3. Listed(new)  BY <1>1, <1>2 DEF Listed
<1>. QED  BY <1>1, <1>3 DEF new

LEMMA RouterUpdateListed ==
  ASSUME NEW r \in RouterType, Listed(r),
         NEW origin \in Node, NEW from \in Node, NEW steps \in Nat
  PROVE  Listed(router_update(r, origin, from, steps))
<1>. DEFINE first  == get_destination_approximator(r, from)
            known  == get_destination_approximator(first, origin)
            direct == update_approximation_entry(known, from, from, 1)
<1>1. first \in RouterType /\ Listed(first) /\ from \in Known(first)
  BY DestinationType, DestinationListed
<1>. HIDE DEF first
<1>2. known \in RouterType /\ Listed(known) /\ from \in Known(known) /\ origin \in Known(known)
  BY <1>1, DestinationType, DestinationListed
<1>. HIDE DEF known
<1>3. direct \in RouterType
  <2>1. from \in Node \cup {NO_ID} /\ 1 \in Nat  OBVIOUS
  <2>. QED  BY <1>2, <2>1, UpdateType
<1>4. Listed(direct) /\ origin \in Known(direct)
  BY <1>2, UpdateListed
<1>. HIDE DEF direct
<1>5. Listed(update_approximation_entry(direct, origin, from, steps))
  BY <1>3, <1>4, UpdateListed
<1>. QED  BY <1>5 DEF router_update, first, known, direct

LEMMA IncorporateListed ==
  ASSUME NEW r \in RouterType, Listed(r), NEW from, NEW dest \in Node, NEW steps
  PROVE  Listed(router_incorporate_rquery(r, from, dest, steps))
<1>. DEFINE known == get_destination_approximator(r, dest)
<1>1. known \in RouterType /\ Listed(known) /\ dest \in Known(known)
  BY DestinationType, DestinationListed
<1>. HIDE DEF known
<1>. QED  BY <1>1, UpdateListed DEF router_incorporate_rquery, known

LEMMA SetLinkListed ==
  ASSUME NEW r \in RouterType, Listed(r), NEW node, NEW active
  PROVE  Listed(SetLink(r, node, active))
<1>. DEFINE new == SetLink(r, node, active)
<1>1. Known(new) = Known(r)  BY DEF SetLink, Known, RouterType
<1>2. ASSUME NEW d \in Node, NEW i \in Slot
      PROVE  new.best_routing_info[d][i].in_use = r.best_routing_info[d][i].in_use
  <2>1. r.best_routing_info[d][i] \in IntermediateStepInfo
    BY DEF RouterType, DestinationApproximator
  <2>. QED  BY <2>1 DEF SetLink, RouterType, IntermediateStepInfo
<1>. HIDE DEF new
<1>3. \A d \in Node : UsedSlots(new.best_routing_info[d]) = UsedSlots(r.best_routing_info[d])
  BY <1>2 DEF UsedSlots
<1>. QED  BY <1>1, <1>3 DEF Listed, new

LEMMA BadIntermediateListed ==
  ASSUME NEW r \in RouterType, Listed(r), NEW via \in Node
  PROVE  Listed(router_bad_intermediate(r, via))
<1>. DEFINE new == router_bad_intermediate(r, via)
<1>1. Known(new) = Known(r)  BY DEF router_bad_intermediate, Known
<1>2. ASSUME NEW d \in Node, NEW i \in Slot, new.best_routing_info[d][i].in_use
      PROVE  r.best_routing_info[d][i].in_use
  <2>1. \/ new.best_routing_info[d][i] = r.best_routing_info[d][i]
        \/ new.best_routing_info[d][i] = FreeSlot
    BY DEF router_bad_intermediate, RouterType, DestinationApproximator
  <2>. QED  BY <1>2, <2>1 DEF FreeSlot
<1>. HIDE DEF new
<1>3. \A d \in Node : UsedSlots(new.best_routing_info[d]) \subseteq UsedSlots(r.best_routing_info[d])
  BY <1>2 DEF UsedSlots
<1>. QED  BY <1>1, <1>3 DEF Listed, new

----------------------------------------------------------------------------
(* The direct slot of a neighbour.  An approximator must have a slot besides *)
(* the direct one for an eviction to spare it.                             *)

(* One step is told of the direct slot and of no other.                    *)
StepsTell(slots, d) ==
  \A i \in Slot :
    slots[i].in_use =>
      IF slots[i].intermediate_node = d THEN slots[i].steps = 1 ELSE slots[i].steps >= 2

HeardBy(r, n) == SlotsVia(r.best_routing_info[n], n) # {}

(* The direct slots mirror the flags of the node table, and a link whose   *)
(* direct slot does not exist yet has never been cut.                      *)
Mirrors(r, enabled) ==
  \A n \in Node :
    /\ \A i \in SlotsVia(r.best_routing_info[n], n) :
         r.best_routing_info[n][i].link_active = enabled[n]
    /\ ~ HeardBy(r, n) => enabled[n]

Sound(r, enabled) ==
  /\ AllOneEach(r)
  /\ \A d \in Node : StepsTell(r.best_routing_info[d], d)
  /\ Mirrors(r, enabled)

(* An update spares the direct slot: it fills a free slot, or a farthest   *)
(* one, and of two used slots only the direct one is a single step away.   *)
LEMMA UpdatedDirect ==
  ASSUME MAX_ROUTING_ENTRIES >= 2,
         NEW d \in Node, NEW via \in Node \cup {NO_ID}, NEW steps \in Nat,
         NEW slots \in DestinationApproximator, OneEach(slots), StepsTell(slots, d),
         via = d => steps = 1 \/ SlotsVia(slots, d) # {},
         via # d => steps >= 2
  PROVE  LET new == UpdatedSlots(slots, d, via, steps)
         IN  /\ StepsTell(new, d)
             /\ SlotsVia(slots, d) # {} => SlotsVia(new, d) # {}
             /\ \A i \in SlotsVia(new, d) :
                  \/ i \in SlotsVia(slots, d) /\ new[i].link_active = slots[i].link_active
                  \/ SlotsVia(slots, d) = {} /\ new[i].link_active = TRUE
<1>. DEFINE new == UpdatedSlots(slots, d, via, steps)
<1>1. \A i \in Slot : slots[i] \in IntermediateStepInfo
  BY DEF DestinationApproximator
<1>2. CASE Refreshes(slots, new, d, via, steps)
  <2>1. PICK k \in SlotsVia(slots, via) :
          new = [slots EXCEPT ![k].steps = IF via = d THEN 1 ELSE steps]
    BY <1>2 DEF Refreshes
  <2>2. k \in Slot /\ slots[k].in_use /\ slots[k].intermediate_node = via
    BY DEF SlotsVia
  <2>3. \A i \in Slot : /\ new[i].in_use = slots[i].in_use
                        /\ new[i].intermediate_node = slots[i].intermediate_node
                        /\ new[i].link_active = slots[i].link_active
                        /\ i # k => new[i].steps = slots[i].steps
    BY <1>1, <2>1, <2>2 DEF DestinationApproximator, IntermediateStepInfo
  <2>4. new[k].steps = IF via = d THEN 1 ELSE steps
    BY <1>1, <2>1, <2>2 DEF DestinationApproximator, IntermediateStepInfo
  <2>5. StepsTell(new, d)  BY <2>2, <2>3, <2>4 DEF StepsTell
  <2>6. SlotsVia(new, d) = SlotsVia(slots, d)  BY <2>3 DEF SlotsVia
  <2>. HIDE DEF new
  <2>. QED  BY <2>3, <2>5, <2>6 DEF SlotsVia, new
<1>3. CASE Fills(slots, new, via, steps)
  <2>1. PICK k \in Slot :
          /\ new = [slots EXCEPT ![k] = UsedSlot(via, steps)]
          /\ k \in FreeSlots(slots) \/ (FreeSlots(slots) = {} /\ k \in FarthestSlots(slots))
    BY <1>3 DEF Fills
  <2>2. SlotsVia(slots, via) = {}  BY <1>3 DEF Fills
  <2>3. \A i \in Slot : new[i] = IF i = k THEN UsedSlot(via, steps) ELSE slots[i]
    BY <2>1 DEF DestinationApproximator
  <2>4. /\ new[k].in_use = TRUE
        /\ new[k].intermediate_node = via
        /\ new[k].steps = steps
        /\ new[k].link_active = TRUE
    BY <2>3 DEF UsedSlot
  <2>5. via = d => steps = 1  BY <2>2
  <2>6. k \notin SlotsVia(slots, d)
    <3>1. CASE k \in FreeSlots(slots)
      BY <3>1 DEF FreeSlots, SlotsVia
    <3>2. CASE FreeSlots(slots) = {} /\ k \in FarthestSlots(slots)
      <4>1. PICK j \in Slot : j # k
        <5>1. 1 \in Slot /\ 2 \in Slot  BY RoutingAssumption DEF Slot
        <5>. QED  BY <5>1
      <4>2. slots[j].in_use /\ slots[k].in_use  BY <3>2 DEF FreeSlots
      <4>3. slots[j].steps <= slots[k].steps  BY <3>2 DEF FarthestSlots
      <4>4. slots[j].steps \in Nat /\ slots[k].steps \in Nat
        BY <1>1 DEF IntermediateStepInfo
      <4>5. ASSUME k \in SlotsVia(slots, d) PROVE FALSE
        <5>1. slots[k].intermediate_node = d  BY <4>5 DEF SlotsVia
        <5>2. slots[k].steps = 1  BY <4>2, <5>1 DEF StepsTell
        <5>3. slots[j].intermediate_node # d  BY <4>1, <4>2, <5>1 DEF OneEach
        <5>4. slots[j].steps >= 2  BY <4>2, <5>3 DEF StepsTell
        <5>. QED  BY <4>3, <4>4, <5>2, <5>4
      <4>. QED  BY <4>5
    <3>. QED  BY <2>1, <3>1, <3>2
  <2>. HIDE DEF new
  <2>7. StepsTell(new, d)  BY <2>3, <2>4, <2>5 DEF StepsTell
  <2>8. SlotsVia(slots, d) \subseteq SlotsVia(new, d)
    BY <2>3, <2>6 DEF SlotsVia
  <2>9. ASSUME NEW i \in SlotsVia(new, d)
        PROVE  \/ i \in SlotsVia(slots, d) /\ new[i].link_active = slots[i].link_active
               \/ SlotsVia(slots, d) = {} /\ new[i].link_active = TRUE
    <3>1. CASE i = k
      <4>1. via = d  BY <2>4, <3>1 DEF SlotsVia
      <4>. QED  BY <2>2, <2>4, <3>1, <4>1
    <3>2. CASE i # k
      BY <2>3, <3>2 DEF SlotsVia
    <3>. QED  BY <3>1, <3>2
  <2>. QED  BY <2>7, <2>8, <2>9 DEF new
<1>. QED  BY <1>2, <1>3, UpdateCases

LEMMA UpdateSound ==
  ASSUME MAX_ROUTING_ENTRIES >= 2,
         NEW r \in RouterType, NEW enabled, Sound(r, enabled),
         NEW d \in Node, NEW via \in Node \cup {NO_ID}, NEW steps \in Nat,
         via = d => steps = 1 \/ HeardBy(r, d),
         via # d => steps >= 2
  PROVE  LET new == update_approximation_entry(r, d, via, steps)
         IN  /\ Sound(new, enabled)
             /\ \A n \in Node : HeardBy(r, n) => HeardBy(new, n)
<1>. DEFINE new == update_approximation_entry(r, d, via, steps)
            old == r.best_routing_info[d]
            slots == UpdatedSlots(old, d, via, steps)
<1>1. old \in DestinationApproximator /\ OneEach(old) /\ StepsTell(old, d)
  BY DEF RouterType, Sound, AllOneEach
<1>2. /\ StepsTell(slots, d)
      /\ SlotsVia(old, d) # {} => SlotsVia(slots, d) # {}
      /\ \A i \in SlotsVia(slots, d) :
           \/ i \in SlotsVia(old, d) /\ slots[i].link_active = old[i].link_active
           \/ SlotsVia(old, d) = {} /\ slots[i].link_active = TRUE
  BY <1>1, UpdatedDirect DEF HeardBy
<1>3. new.best_routing_info[d] = slots
  BY UpdateEffect
<1>4. \A e \in Node : e # d => new.best_routing_info[e] = r.best_routing_info[e]
  BY UpdateEffect
<1>5. AllOneEach(new)
  BY UpdateOneEach DEF Sound
<1>6. /\ \A i \in SlotsVia(old, d) : old[i].link_active = enabled[d]
      /\ SlotsVia(old, d) = {} => enabled[d]
  BY DEF Sound, Mirrors, HeardBy
<1>. HIDE DEF new, slots
<1>7. \A e \in Node : StepsTell(new.best_routing_info[e], e)
  BY <1>2, <1>3, <1>4 DEF Sound
<1>8. \A n \in Node : HeardBy(r, n) => HeardBy(new, n)
  BY <1>2, <1>3, <1>4 DEF HeardBy
<1>9. ASSUME NEW n \in Node
      PROVE  /\ \A i \in SlotsVia(new.best_routing_info[n], n) :
                  new.best_routing_info[n][i].link_active = enabled[n]
             /\ ~ HeardBy(new, n) => enabled[n]
  <2>1. CASE n = d
    BY <1>2, <1>3, <1>6, <2>1 DEF HeardBy
  <2>2. CASE n # d
    BY <1>4, <2>2 DEF HeardBy, Sound, Mirrors
  <2>. QED  BY <2>1, <2>2
<1>10. Mirrors(new, enabled)  BY <1>9 DEF Mirrors
<1>. QED  BY <1>5, <1>7, <1>8, <1>10 DEF Sound, new

LEMMA UpdateHears ==
  ASSUME NEW r \in RouterType, NEW d \in Node, NEW steps
  PROVE  HeardBy(update_approximation_entry(r, d, d, steps), d)
<1>. DEFINE old == r.best_routing_info[d]
            new == UpdatedSlots(old, d, d, steps)
<1>1. old \in DestinationApproximator  BY DEF RouterType
<1>2. CASE Refreshes(old, new, d, d, steps)
  <2>1. PICK k \in SlotsVia(old, d) : new = [old EXCEPT ![k].steps = 1]
    BY <1>2 DEF Refreshes
  <2>2. k \in SlotsVia(new, d)
    BY <1>1, <2>1 DEF SlotsVia, DestinationApproximator, IntermediateStepInfo
  <2>. QED  BY <2>2, UpdateEffect DEF HeardBy
<1>3. CASE Fills(old, new, d, steps)
  <2>1. PICK k \in Slot : new = [old EXCEPT ![k] = UsedSlot(d, steps)]
    BY <1>3 DEF Fills
  <2>2. new[k] = UsedSlot(d, steps)  BY <1>1, <2>1 DEF DestinationApproximator
  <2>3. k \in SlotsVia(new, d)
    BY <2>2 DEF SlotsVia, UsedSlot
  <2>. QED  BY <2>3, UpdateEffect DEF HeardBy
<1>. QED  BY <1>1, <1>2, <1>3, UpdateCases

LEMMA DestinationSound ==
  ASSUME NEW r \in RouterType, NEW enabled, Sound(r, enabled), NEW d \in Node
  PROVE  LET new == get_destination_approximator(r, d)
         IN  /\ Sound(new, enabled)
             /\ \A n \in Node : HeardBy(r, n) <=> HeardBy(new, n)
  BY DestinationEffect DEF Sound, AllOneEach, Mirrors, HeardBy

LEMMA SetLinkSound ==
  ASSUME NEW r \in RouterType, NEW enabled \in [Node -> BOOLEAN], Sound(r, enabled),
         NEW node \in Node, NEW active \in BOOLEAN, HeardBy(r, node) \/ active
  PROVE  LET new == SetLink(r, node, active)
         IN  /\ Sound(new, [enabled EXCEPT ![node] = active])
             /\ \A n \in Node : HeardBy(r, n) <=> HeardBy(new, n)
<1>. DEFINE new == SetLink(r, node, active)
<1>1. ASSUME NEW d \in Node, NEW i \in Slot
      PROVE  LET was == r.best_routing_info[d][i]
                 is  == new.best_routing_info[d][i]
             IN  /\ is.in_use = was.in_use
                 /\ is.intermediate_node = was.intermediate_node
                 /\ is.steps = was.steps
                 /\ is.link_active = IF i \in SlotsVia(r.best_routing_info[d], node)
                                     THEN active ELSE was.link_active
  <2>1. r.best_routing_info[d][i] \in IntermediateStepInfo
    BY DEF RouterType, DestinationApproximator
  <2>. QED  BY <2>1 DEF SetLink, RouterType, IntermediateStepInfo
<1>2. AllOneEach(new)  BY SetLinkOneEach DEF Sound
<1>. HIDE DEF new
<1>3. \A d \in Node : StepsTell(new.best_routing_info[d], d)
  BY <1>1 DEF Sound, StepsTell
<1>4. \A d \in Node : SlotsVia(new.best_routing_info[d], d) = SlotsVia(r.best_routing_info[d], d)
  BY <1>1 DEF SlotsVia
<1>5. ASSUME NEW n \in Node
      PROVE  \A i \in SlotsVia(new.best_routing_info[n], n) :
               new.best_routing_info[n][i].link_active = [enabled EXCEPT ![node] = active][n]
  <2>. TAKE i \in SlotsVia(new.best_routing_info[n], n)
  <2>1. i \in Slot /\ i \in SlotsVia(r.best_routing_info[n], n)
    BY <1>4 DEF SlotsVia
  <2>2. CASE n = node
    BY <1>1, <2>1, <2>2
  <2>3. CASE n # node
    <3>1. i \notin SlotsVia(r.best_routing_info[n], node)
      BY <2>1, <2>3 DEF SlotsVia
    <3>. QED  BY <1>1, <2>1, <2>3, <3>1 DEF Sound, Mirrors
  <2>. QED  BY <2>2, <2>3
<1>6. \A n \in Node : ~ HeardBy(new, n) => [enabled EXCEPT ![node] = active][n]
  BY <1>4 DEF Sound, Mirrors, HeardBy
<1>. QED  BY <1>2, <1>3, <1>4, <1>5, <1>6 DEF Sound, Mirrors, HeardBy, new

(* A frame: its sender becomes a direct neighbour before its origin, when  *)
(* that is another node, is put two steps away or more.                    *)
LEMMA HearSound ==
  ASSUME MAX_ROUTING_ENTRIES >= 2, NEW r \in RouterType, NEW enabled, Sound(r, enabled),
         NEW origin \in Node, NEW from \in Node, NEW steps \in Nat,
         origin # from => steps >= 2
  PROVE  LET new == router_update(r, origin, from, steps)
         IN  /\ Sound(new, enabled)
             /\ \A n \in Node : HeardBy(r, n) => HeardBy(new, n)
             /\ HeardBy(new, from)
<1>. DEFINE known == get_destination_approximator(get_destination_approximator(r, from), origin)
            direct == update_approximation_entry(known, from, from, 1)
            new == update_approximation_entry(direct, origin, from, steps)
<1>1. /\ known \in RouterType
      /\ Sound(known, enabled)
      /\ \A n \in Node : HeardBy(r, n) => HeardBy(known, n)
  BY DestinationType, DestinationSound
<1>. HIDE DEF known
<1>2. from \in Node \cup {NO_ID} /\ 1 \in Nat  OBVIOUS
<1>3. /\ direct \in RouterType
      /\ Sound(direct, enabled)
      /\ \A n \in Node : HeardBy(known, n) => HeardBy(direct, n)
  BY <1>1, <1>2, UpdateType, UpdateSound
<1>4. HeardBy(direct, from)
  BY <1>1, UpdateHears
<1>. HIDE DEF direct
<1>5. /\ Sound(new, enabled)
      /\ \A n \in Node : HeardBy(direct, n) => HeardBy(new, n)
  BY <1>2, <1>3, <1>4, UpdateSound
<1>. QED  BY <1>1, <1>3, <1>4, <1>5 DEF router_update, known, direct

LEMMA IncorporateSound ==
  ASSUME MAX_ROUTING_ENTRIES >= 2, NEW r \in RouterType, NEW enabled, Sound(r, enabled),
         NEW from \in Node, HeardBy(r, from), NEW dest \in Node,
         NEW steps \in Nat, steps >= 1
  PROVE  LET new == router_incorporate_rquery(r, from, dest, steps)
         IN  /\ Sound(new, enabled)
             /\ \A n \in Node : HeardBy(r, n) => HeardBy(new, n)
<1>. DEFINE known == get_destination_approximator(r, dest)
            new == update_approximation_entry(known, dest, from, steps + 1)
<1>1. /\ known \in RouterType
      /\ Sound(known, enabled)
      /\ \A n \in Node : HeardBy(r, n) => HeardBy(known, n)
  BY DestinationType, DestinationSound
<1>2. steps + 1 \in Nat /\ steps + 1 >= 2  OBVIOUS
<1>. HIDE DEF known
<1>3. /\ Sound(new, enabled)
      /\ \A n \in Node : HeardBy(known, n) => HeardBy(new, n)
  BY <1>1, <1>2, UpdateSound
<1>. QED  BY <1>1, <1>3 DEF router_incorporate_rquery, known

----------------------------------------------------------------------------
(* Answers to an rquery.                                                   *)

LEMMA KnownFinite ==
  ASSUME NEW r \in RouterType
  PROVE  /\ IsFiniteSet(Known(r)) /\ Known(r) \subseteq Node
         /\ \A d \in Known(r) : Position(r, d) \in Nat /\ r.destination_list[Position(r, d)] = d
<1>. DEFINE list == r.destination_list
<1>1. list \in Seq(Node)  BY DEF RouterType
<1>2. Len(list) \in Nat /\ DOMAIN list = 1 .. Len(list) /\ \A k \in 1 .. Len(list) : list[k] \in Node
  BY <1>1, LenProperties, ElementOfSeq
<1>3. Known(r) = {list[k] : k \in 1 .. Len(list)}  BY <1>2 DEF Known
<1>. DEFINE f == [k \in 1 .. Len(list) |-> list[k]]
<1>4. f \in Surjection(1 .. Len(list), Known(r))  BY <1>3 DEF Surjection
<1>5. IsFiniteSet(1 .. Len(list))  BY <1>2, FS_Interval
<1>6. IsFiniteSet(Known(r))  BY <1>4, <1>5, FS_Surjection
<1>7. ASSUME NEW d \in Known(r)
      PROVE  Position(r, d) \in Nat /\ r.destination_list[Position(r, d)] = d
  <2>1. \E k \in DOMAIN list : list[k] = d  BY <1>2, <1>3
  <2>2. Position(r, d) \in DOMAIN list /\ list[Position(r, d)] = d  BY <2>1 DEF Position
  <2>. QED  BY <1>2, <2>2
<1>. QED  BY <1>2, <1>3, <1>6, <1>7

(* Numbering a set of destinations by how many are ahead of each.          *)
LEMMA AheadNumbers ==
  ASSUME NEW r \in RouterType, NEW S \in SUBSET Known(r)
  PROVE  LET f == [d \in S |-> Ahead(r, S, d)]
         IN  /\ IsFiniteSet(S) /\ Cardinality(S) \in Nat
             /\ f \in Injection(S, 0 .. Cardinality(S) - 1)
             /\ f \in Surjection(S, 0 .. Cardinality(S) - 1)
<1>. DEFINE n == Cardinality(S)
            Before(d) == {e \in S : Position(r, e) < Position(r, d)}
            f == [d \in S |-> Ahead(r, S, d)]
<1>1. IsFiniteSet(S) /\ n \in Nat  BY KnownFinite, FS_Subset, FS_CardinalityType
<1>2. \A d \in S : Position(r, d) \in Nat /\ r.destination_list[Position(r, d)] = d
  BY KnownFinite
<1>3. \A d \in S : Ahead(r, S, d) = Cardinality(Before(d))  BY DEF Ahead
<1>4. ASSUME NEW d \in S PROVE IsFiniteSet(Before(d)) /\ Cardinality(Before(d)) \in 0 .. n - 1
  <2>1. IsFiniteSet(S \ {d}) /\ Cardinality(S \ {d}) = n - 1  BY <1>1, FS_RemoveElement
  <2>2. Before(d) \subseteq S \ {d}  BY <1>2
  <2>. HIDE DEF Before
  <2>3. IsFiniteSet(Before(d)) /\ Cardinality(Before(d)) <= n - 1  BY <2>1, <2>2, FS_Subset
  <2>4. Cardinality(Before(d)) \in Nat  BY <2>3, FS_CardinalityType
  <2>. QED  BY <1>1, <2>3, <2>4
<1>5. ASSUME NEW d \in S, NEW e \in S, Position(r, e) < Position(r, d)
      PROVE  Cardinality(Before(e)) < Cardinality(Before(d))
  <2>1. Before(e) \subseteq Before(d) /\ e \in Before(d) /\ e \notin Before(e)  BY <1>2, <1>5
  <2>. HIDE DEF Before
  <2>2. /\ Cardinality(Before(e)) <= Cardinality(Before(d))
        /\ Cardinality(Before(d)) = Cardinality(Before(e)) => Before(d) = Before(e)
    BY <1>4, <2>1, FS_Subset
  <2>3. Cardinality(Before(d)) # Cardinality(Before(e))  BY <2>1, <2>2
  <2>. QED  BY <1>4, <2>2, <2>3
<1>. HIDE DEF Before, n
<1>6. \A d, e \in S : Ahead(r, S, d) = Ahead(r, S, e) => d = e
  <2>. SUFFICES ASSUME NEW d \in S, NEW e \in S, Ahead(r, S, d) = Ahead(r, S, e)
                PROVE  d = e
    OBVIOUS
  <2>1. Cardinality(Before(d)) = Cardinality(Before(e)) /\ Cardinality(Before(d)) \in Nat
    BY <1>1, <1>3, <1>4
  <2>2. ~ (Position(r, d) < Position(r, e)) /\ ~ (Position(r, e) < Position(r, d))
    BY <1>5, <2>1
  <2>3. Position(r, d) = Position(r, e)  BY <1>2, <2>2
  <2>. QED  BY <1>2, <2>3
<1>7. f \in [S -> 0 .. n - 1]  BY <1>3, <1>4
<1>8. f \in Injection(S, 0 .. n - 1)  BY <1>6, <1>7 DEF Injection, IsInjective
<1>9. IsFiniteSet(0 .. n - 1) /\ Cardinality(0 .. n - 1) = n  BY <1>1, FS_Interval
<1>10. f \in Surjection(S, 0 .. n - 1)
  <2>. HIDE DEF f
  <2>. QED  BY <1>8, <1>9, FS_Injection DEF n
<1>. QED  BY <1>1, <1>8, <1>10 DEF n

LEMMA FirstOfAll ==
  ASSUME NEW r \in RouterType, NEW S \in SUBSET Known(r), NEW n \in Nat, Cardinality(S) <= n
  PROVE  FirstOf(r, S, n) = S
<1>1. \A d \in S : Ahead(r, S, d) \in 0 .. Cardinality(S) - 1
  BY AheadNumbers DEF Injection
<1>2. Cardinality(S) \in Nat  BY AheadNumbers
<1>. QED  BY <1>1, <1>2 DEF FirstOf

(* What does not get into an answer finds it full.                         *)
LEMMA FirstOfFull ==
  ASSUME NEW r \in RouterType, NEW S \in SUBSET Known(r), NEW n \in Nat,
         NEW d \in S \ FirstOf(r, S, n)
  PROVE  Cardinality(FirstOf(r, S, n)) = n
<1>. DEFINE m == Cardinality(S)
            F == FirstOf(r, S, n)
            f == [e \in S |-> Ahead(r, S, e)]
            g == [e \in F |-> Ahead(r, S, e)]
<1>1. m \in Nat /\ f \in Injection(S, 0 .. m - 1) /\ f \in Surjection(S, 0 .. m - 1)
      /\ IsFiniteSet(S)
  BY AheadNumbers
<1>2. \A e \in S : Ahead(r, S, e) \in 0 .. m - 1  BY <1>1 DEF Injection
<1>3. \A e \in S : e \in F <=> Ahead(r, S, e) < n  BY DEF FirstOf
<1>4. n <= m - 1
  <2>1. ~ (Ahead(r, S, d) < n)  BY <1>3
  <2>. HIDE DEF m
  <2>. QED  BY <1>1, <1>2, <2>1
<1>5. F \subseteq S  BY DEF FirstOf
<1>. HIDE DEF m, F
<1>6. g \in [F -> 0 .. n - 1]  BY <1>1, <1>2, <1>3, <1>5
<1>7. g \in Surjection(F, 0 .. n - 1)
  <2>1. ASSUME NEW k \in 0 .. n - 1 PROVE \E e \in F : g[e] = k
    <3>1. k \in 0 .. m - 1  BY <1>1, <1>4
    <3>2. PICK e \in S : f[e] = k  BY <1>1, <3>1 DEF Surjection
    <3>. QED  BY <1>3, <3>2
  <2>. HIDE DEF g
  <2>. QED  BY <1>6, <2>1 DEF Surjection
<1>8. g \in Injection(F, 0 .. n - 1)
  <2>1. \A a, b \in S : Ahead(r, S, a) = Ahead(r, S, b) => a = b
    BY <1>1 DEF Injection, IsInjective
  <2>. QED  BY <1>5, <1>6, <2>1 DEF Injection, IsInjective
<1>9. IsFiniteSet(0 .. n - 1) /\ Cardinality(0 .. n - 1) = n
  <2>1. 0 \in Int /\ n - 1 \in Int /\ (IF 0 > n - 1 THEN 0 ELSE (n - 1) - 0 + 1) = n  OBVIOUS
  <2>. QED  BY <2>1, FS_Interval
<1>10. Cardinality(F) = Cardinality(0 .. n - 1)
  <2>. HIDE DEF g
  <2>. QED  BY <1>7, <1>8, <1>9, FS_Injection
<1>. QED  BY <1>9, <1>10 DEF F

(* An answer with room for all has all that is routed.                     *)
LEMMA AnswerHasAll ==
  ASSUME NEW r \in RouterType, NEW n, NEW since, NEW count \in Nat,
         Cardinality(Known(r) \ {n}) <= count
  PROVE  {p.destination_node : p \in router_answer_rquery(r, n, since, count)}
           = {d \in Known(r) \ {n} : Routed(r, d)}
<1>. DEFINE others == Known(r) \ {n}
            F == {d \in others \cap Fresher(r, since) : Routed(r, d)}
            O == others \ Fresher(r, since)
            old == {d \in O : Routed(r, d)}
            o == Offered(r, n, since, count)
<1>1. IsFiniteSet(others) /\ others \subseteq Known(r) /\ Cardinality(others) \in Nat
  BY KnownFinite, FS_Subset, FS_CardinalityType
<1>2. /\ F \subseteq others /\ O \subseteq others /\ old \subseteq others
      /\ F \cap old = {} /\ F \cup old \subseteq others
  OBVIOUS
<1>3. F \cup old = {d \in others : Routed(r, d)}  OBVIOUS
<1>4. o = [fresh |-> FirstOf(r, F, count),
           old |-> FirstOf(r, {d \in FirstOf(r, O, count) : Routed(r, d)},
                           count - Cardinality(FirstOf(r, F, count)))]
  BY DEF Offered
<1>5. {p.destination_node : p \in router_answer_rquery(r, n, since, count)} = o.fresh \cup o.old
  <2>. DEFINE pair(d) == [destination_node |-> d, steps |-> BestRoute(r, d).steps,
                          at |-> IF d \in o.fresh THEN Ahead(r, o.fresh, d)
                                 ELSE Cardinality(o.fresh) + Ahead(r, o.old, d)]
  <2>1. router_answer_rquery(r, n, since, count) = {pair(d) : d \in o.fresh \cup o.old}
    BY DEF router_answer_rquery
  <2>2. \A d : pair(d).destination_node = d  OBVIOUS
  <2>. HIDE DEF o, pair
  <2>. QED  BY <2>1, <2>2
<1>. HIDE DEF others, F, O, o
<1>6. /\ IsFiniteSet(F) /\ Cardinality(F) \in Nat /\ Cardinality(F) <= count
      /\ IsFiniteSet(O) /\ Cardinality(O) <= count
      /\ IsFiniteSet(old) /\ Cardinality(old) \in Nat
  <2>1. /\ IsFiniteSet(F) /\ Cardinality(F) <= Cardinality(others)
        /\ IsFiniteSet(O) /\ Cardinality(O) <= Cardinality(others)
        /\ IsFiniteSet(old)
    BY <1>1, <1>2, FS_Subset
  <2>2. Cardinality(F) \in Nat /\ Cardinality(O) \in Nat /\ Cardinality(old) \in Nat
    BY <2>1, FS_CardinalityType
  <2>. QED  BY <1>1, <2>1, <2>2 DEF others
<1>7. FirstOf(r, F, count) = F /\ FirstOf(r, O, count) = O
  BY <1>1, <1>2, <1>6, FirstOfAll
<1>8. Cardinality(old) <= count - Cardinality(F)
  <2>. DEFINE both == F \cup old
  <2>. HIDE DEF old
  <2>1. Cardinality(F \cap old) = 0  BY <1>2, FS_EmptySet
  <2>2. Cardinality(both) = Cardinality(F) + Cardinality(old)
    <3>1. Cardinality(F \cup old) = Cardinality(F) + Cardinality(old) - Cardinality(F \cap old)
      BY <1>6, FS_Union
    <3>. QED  BY <1>6, <2>1, <3>1
  <2>3. Cardinality(both) <= Cardinality(others)  BY <1>1, <1>2, FS_Subset
  <2>4. Cardinality(both) <= count  BY <1>1, <1>6, <2>2, <2>3 DEF others
  <2>. QED  BY <1>6, <2>2, <2>4
<1>9. FirstOf(r, old, count - Cardinality(F)) = old
  <2>1. count - Cardinality(F) \in Nat  BY <1>6
  <2>. QED  BY <1>1, <1>2, <1>8, <2>1, FirstOfAll
<1>10. o.fresh = F /\ o.old = old  BY <1>4, <1>7, <1>9
<1>. QED  BY <1>3, <1>5, <1>10 DEF others

(* What is routed and fresh is offered as such, or the answer is full.     *)
LEMMA FreshFirst ==
  ASSUME NEW r \in RouterType, NEW n, NEW since, NEW count \in Nat,
         NEW d \in Known(r) \ {n}, r.last_updated_seq[d] > since, Routed(r, d)
  PROVE  LET fresh == Offered(r, n, since, count).fresh
         IN  d \in fresh \/ Cardinality(fresh) = count
<1>. DEFINE F == {e \in (Known(r) \ {n}) \cap Fresher(r, since) : Routed(r, e)}
<1>1. Offered(r, n, since, count).fresh = FirstOf(r, F, count)  BY DEF Offered
<1>2. d \in F /\ F \in SUBSET Known(r)  BY DEF Fresher
<1>. HIDE DEF F
<1>. QED  BY <1>1, <1>2, FirstOfFull

(* The slot chosen for a destination is an active one.                     *)
LEMMA BestIsActive ==
  ASSUME NEW r \in RouterType, NEW d \in Node, Routed(r, d)
  PROVE  \E i \in ActiveSlots(r.best_routing_info[d]) :
           /\ BestRoute(r, d) = r.best_routing_info[d][i]
           /\ \A j \in ActiveSlots(r.best_routing_info[d]) :
                r.best_routing_info[d][i].steps <= r.best_routing_info[d][j].steps
<1>. DEFINE slots == r.best_routing_info[d]
<1>1. slots \in DestinationApproximator  BY DEF RouterType
<1>2. BestSlots(slots) # {}  BY <1>1, BestExists DEF Routed
<1>3. BestSlots(slots) \in SUBSET Slot  BY DEF BestSlots, ActiveSlots
<1>4. Lowest(BestSlots(slots)) \in BestSlots(slots)  BY <1>2, <1>3, LowestIn
<1>. QED  BY <1>4 DEF BestRoute, choose_approximation_route, BestSlots

(* What a pair of an answer says is what the router holds.                 *)
Offers(r, p) ==
  /\ p \in [destination_node : Known(r), steps : Nat, at : Nat]
  /\ Routed(r, p.destination_node)
  /\ p.steps = BestRoute(r, p.destination_node).steps

LEMMA AnswerPairs ==
  ASSUME NEW r \in RouterType, NEW n, NEW since, NEW count \in Nat,
         NEW p \in router_answer_rquery(r, n, since, count)
  PROVE  Offers(r, p)
<1>. DEFINE others == Known(r) \ {n}
            o == Offered(r, n, since, count)
            At(d) == IF d \in o.fresh THEN Ahead(r, o.fresh, d)
                     ELSE Cardinality(o.fresh) + Ahead(r, o.old, d)
<1>1. /\ o.fresh \in SUBSET Known(r) /\ \A d \in o.fresh : Routed(r, d)
      /\ o.old \in SUBSET Known(r) /\ \A d \in o.old : Routed(r, d)
  BY DEF Offered, FirstOf
<1>2. PICK d \in o.fresh \cup o.old :
        p = [destination_node |-> d, steps |-> BestRoute(r, d).steps, at |-> At(d)]
  BY DEF router_answer_rquery
<1>. HIDE DEF o
<1>3. ASSUME NEW S \in SUBSET Known(r), NEW e \in S PROVE Ahead(r, S, e) \in Nat
  <2>1. [x \in S |-> Ahead(r, S, x)] \in Injection(S, 0 .. Cardinality(S) - 1)
        /\ Cardinality(S) \in Nat
    BY AheadNumbers
  <2>2. [x \in S |-> Ahead(r, S, x)][e] \in 0 .. Cardinality(S) - 1
    BY <2>1 DEF Injection
  <2>. QED  BY <2>1, <2>2
<1>4. Cardinality(o.fresh) \in Nat  BY <1>1, KnownFinite, FS_Subset, FS_CardinalityType
<1>5. At(d) \in Nat
  <2>1. CASE d \in o.fresh  BY <2>1, <1>1, <1>3
  <2>2. CASE d \notin o.fresh
    <3>1. Ahead(r, o.old, d) \in Nat  BY <2>2, <1>1, <1>2, <1>3
    <3>. QED  BY <2>2, <3>1, <1>4
  <2>. QED  BY <2>1, <2>2
<1>. HIDE DEF At
<1>6. d \in Known(r) /\ d \in Node /\ Routed(r, d)  BY <1>1, <1>2, KnownFinite
<1>7. PICK i \in ActiveSlots(r.best_routing_info[d]) : BestRoute(r, d) = r.best_routing_info[d][i]
  BY <1>6, BestIsActive
<1>8. BestRoute(r, d).steps \in Nat
  BY <1>6, <1>7 DEF ActiveSlots, RouterType, DestinationApproximator, IntermediateStepInfo
<1>. QED  BY <1>2, <1>5, <1>6, <1>8 DEF Offers
=============================================================================
