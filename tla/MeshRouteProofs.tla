--------------------------- MODULE MeshRouteProofs ---------------------------
(***************************************************************************)
(* Theorems about what the nodes of Mesh tell each other: a route promises *)
(* no fewer steps than there are, router and node table agree about the    *)
(* direct links, and, while no link is cut, an ack retraces the path of    *)
(* what it acks, meets no node that does not know it, and a next hop has a *)
(* way on itself.                                                          *)
(*                                                                         *)
(* Bonded is what every operator preserves of the node it works on: what   *)
(* its router holds (Knows), what each entry says of the neighbour it came *)
(* from (Tied) and of where it is queued to go (Fit).  W stands for the    *)
(* ways all nodes have when the step begins, which it may rely on and must *)
(* not lose.  Framed and FrameLed say it of a frame on its way to a node,  *)
(* and Traced that the node a message came from still has it.              *)
(*                                                                         *)
(* Exact adds that distances are true, in a mesh without cycles: no route  *)
(* loops there.                                                            *)
(*                                                                         *)
(* The last part is about cuts: both ends of a link come to agree.         *)
(***************************************************************************)
EXTENDS MeshProofs

(* Hypotheses: an approximator has room for more than the direct slot;     *)
(* nobody cuts a link; a node hears whom it reaches.                       *)
Roomy == MAX_ROUTING_ENTRIES >= 2
Uncut == \A o \in Script : o.op # "unlink"

Symmetric == \A n, m \in Node : m \in Reach[n] => n \in Reach[m]

(* A response to a message that came straight from its origin: a frame of  *)
(* it is only for the node that asked.                                     *)
Settles(content) == content = "y" \/ (Uncut /\ content = "routes")

(* A message nobody passes on: its frames come from its origin.            *)
Direct(content, ack_for) ==
  (ack_for = NO_ID /\ content # "gbcast") \/ Settles(content)

(* Whether a router can answer for d, and whether x is d or, as W has it,  *)
(* has a route to d.                                                       *)
Leads(r, d) == d \in Known(r) /\ Routed(r, d)

Way(W, x, d) == x = d \/ <<x, d>> \in W

(* What a message says, whoever holds it: an ack goes to the origin of     *)
(* what it acks, and an answer was made by a neighbour from its own routes.*)
Honest(content, pairs, dst, origin, ack_for) ==
  /\ ack_for # NO_ID => dst = ack_for[1]
  /\ pairs # {} => content = "routes"
  /\ \A p \in pairs : p.steps >= 1
  /\ Uncut => content # "unlink"
  /\ Symmetric => \A p \in pairs :
       dst \in Node /\ dst \in Reach[origin] /\ Near(origin, p.destination_node, p.steps)

EntryHonest(e) == Honest(e.content, e.pairs, e.dst_node, e.origin_node, e.ack_for)

(* An answer to a gbcast sent before a restart is the one ack a node may   *)
(* address to itself.                                                      *)
Tied(n, s, e) ==
  /\ EntryHonest(e)
  /\ e.steps >= 1 => e.src_node # n /\ HeardBy(s.router, e.src_node)
  /\ e.steps >= 1 /\ Direct(e.content, e.ack_for) => e.src_node = e.origin_node
  /\ e.steps = 0 /\ e.ack_for # NO_ID /\ e.dst_node = n =>
       In(s, e.ack_for) /\ s.g_msg_table[e.ack_for].content = "gbcast"
  /\ Symmetric => Near(n, e.origin_node, e.steps)
  /\ Symmetric /\ e.steps >= 1 => n \in Reach[e.src_node]
  /\ Uncut /\ Steady /\ e.steps >= 1 => Leads(s.router, e.origin_node)
  /\ Uncut /\ Steady /\ e.steps = 0 => \A p \in e.pairs : Leads(s.router, p.destination_node)

Fit(s, e) ==
  /\ Direct(e.content, e.ack_for) => e.steps = 0
  /\ Settles(e.content) => e.target_node = e.dst_node
  /\ Uncut /\ e.ack_for # NO_ID =>
       In(s, e.ack_for) /\ e.target_node = s.g_msg_table[e.ack_for].src_node

SlotsNear(n, slots, d) == \A i \in Slot : slots[i].in_use => Near(n, d, slots[i].steps)

AllNear(n, r) == \A d \in Node : SlotsNear(n, r.best_routing_info[d], d)

(* Every slot is active and leads to a node that has a way itself, and the *)
(* ways the node had it still has.                                         *)
SlotGuides(slot, d, W) ==
  slot.in_use =>
    slot.link_active /\ slot.intermediate_node \in Node /\ Way(W, slot.intermediate_node, d)

Guided(n, r, W) ==
  /\ \A d \in Node : \A i \in Slot : SlotGuides(r.best_routing_info[d][i], d, W)
  /\ \A d \in Node : <<n, d>> \in W => Leads(r, d)

(* W is the set of pairs of a node and a destination it has a route to.    *)
Knows(n, r, links, W) ==
  /\ Sound(r, links)
  /\ Uncut => Listed(r) /\ \A m \in Node : links[m] = TRUE
  /\ Uncut /\ Steady => Guided(n, r, W)
  /\ Symmetric => AllNear(n, r)

Bonded(n, s, W) ==
  /\ Knows(n, s.router, s.link_enabled, W)
  /\ \A id \in DOMAIN s.g_msg_table : Tied(n, s, s.g_msg_table[id])
  /\ \A k \in DOMAIN s.MessageQueue : Fit(s, s.g_msg_table[s.MessageQueue[k]])
  /\ Uncut /\ Steady => s.mode # "panic"

Framed(m, f) ==
  /\ f.from # m
  /\ Honest(f.content, f.pairs, f.dst, f.origin, f.ack_for)
  /\ Direct(f.content, f.ack_for) => f.from = f.origin
  /\ Settles(f.content) => f.dst = m
  /\ Symmetric => m \in Reach[f.from] /\ Near(f.from, f.origin, f.steps)

(* The sender of a frame has a way to its origin, and the origin has one   *)
(* to what it advertises.                                                  *)
FrameLed(f, W) ==
  /\ Way(W, f.from, f.origin)
  /\ \A p \in f.pairs : Way(W, f.origin, p.destination_node)

Traced ==
  /\ \A n \in Node : \A id \in DOMAIN node[n].g_msg_table :
       In(node[node[n].g_msg_table[id].src_node], id)
  /\ \A m \in Node : \A k \in DOMAIN rx[m] :
       /\ In(node[rx[m][k].from], rx[m][k].id)
       /\ rx[m][k].ack_for # NO_ID => In(node[m], rx[m][k].ack_for)

Ways == {w \in Node \X Node : Up(w[1]) /\ Leads(node[w[1]].router, w[2])}

Woven ==
  /\ Sane
  /\ \A n \in Node : Bonded(n, node[n], Ways)
  /\ \A m \in Node : \A k \in DOMAIN rx[m] : Framed(m, rx[m][k])
  /\ Uncut /\ Steady => Traced /\ \A m \in Node : \A k \in DOMAIN rx[m] : FrameLed(rx[m][k], Ways)

----------------------------------------------------------------------------
(* Distances.                                                              *)

(* One hop more than the nodes of S.                                       *)
Further(S) == S \cup UNION {Reach[m] : m \in S}

(* ball of Within[d] is such a function, by induction on the hops.         *)
Balls(g, d, last) ==
  g = [k \in 0 .. last |-> IF k = 0 THEN {d} ELSE Further(g[k - 1])]

LEMMA BallsExist ==
  ASSUME NEW d, NEW last \in Nat
  PROVE  \E g : Balls(g, d, last)
<1>. DEFINE Bad == {k \in Nat : ~ \E g : Balls(g, d, k)}
<1>. SUFFICES ASSUME Bad # {} PROVE FALSE  OBVIOUS
<1>1. PICK k \in Bad : \A j \in Bad : k <= j
  <2>1. Bad \in SUBSET Nat  OBVIOUS
  <2>. HIDE DEF Bad
  <2>. QED  BY <2>1, LeastExists
<1>2. k # 0
  <2>1. Balls([j \in 0 .. 0 |-> {d}], d, 0)  BY DEF Balls
  <2>. QED  BY <2>1
<1>3. PICK g : Balls(g, d, k - 1)
  <2>1. k - 1 \in Nat /\ ~ (k <= k - 1)  BY <1>2
  <2>2. k - 1 \notin Bad  BY <1>1, <2>1
  <2>. QED  BY <2>1, <2>2
<1>. DEFINE h == [j \in 0 .. k |-> IF j = k THEN Further(g[k - 1]) ELSE g[j]]
<1>4. Balls(h, d, k)
  <2>1. \A j \in 0 .. k : j # 0 => j - 1 \in 0 .. k - 1 /\ j - 1 # k  BY <1>2
  <2>2. \A j \in 0 .. k - 1 : g[j] = IF j = 0 THEN {d} ELSE Further(g[j - 1])
    BY <1>3 DEF Balls
  <2>3. ASSUME NEW j \in 0 .. k PROVE h[j] = IF j = 0 THEN {d} ELSE Further(h[j - 1])
    <3>1. CASE j = k
      <4>1. h[k - 1] = g[k - 1] /\ h[k] = Further(g[k - 1])  BY <1>2, <2>1
      <4>. QED  BY <1>2, <3>1, <4>1
    <3>2. CASE j # k
      <4>1. h[j] = g[j] /\ (j # 0 => h[j - 1] = g[j - 1])  BY <2>1, <3>2
      <4>2. j \in 0 .. k - 1  BY <3>2
      <4>. QED  BY <2>2, <4>1, <4>2
    <3>. QED  BY <3>1, <3>2
  <2>. QED  BY <2>3 DEF Balls
<1>. QED  BY <1>4

LEMMA WithinIs ==
  ASSUME NEW d \in Node
  PROVE  /\ Cardinality(Node) \in Nat
         /\ Within[d][0] = {d}
         /\ \A k \in 1 .. Cardinality(Node) : Within[d][k] = Further(Within[d][k - 1])
<1>. DEFINE g == CHOOSE g : Balls(g, d, Cardinality(Node))
<1>1. Cardinality(Node) \in Nat  BY MeshAssumption, FS_CardinalityType
<1>2. Balls(g, d, Cardinality(Node))  BY <1>1, BallsExist
<1>3. Within[d] = g  BY DEF Within, Balls, Further
<1>. HIDE DEF g
<1>4. \A k \in 0 .. Cardinality(Node) : g[k] = IF k = 0 THEN {d} ELSE Further(g[k - 1])
  BY <1>2 DEF Balls
<1>. QED  BY <1>1, <1>3, <1>4

LEMMA NearStart ==
  ASSUME NEW n \in Node
  PROVE  Near(n, n, 0)
BY WithinIs DEF Near

LEMMA NearNext ==
  ASSUME NEW n, NEW m, NEW d \in Node, NEW k \in Nat, Near(m, d, k), n \in Reach[m]
  PROVE  Near(n, d, k + 1)
<1>1. CASE k + 1 >= Cardinality(Node)  BY <1>1 DEF Near
<1>2. CASE ~ (k + 1 >= Cardinality(Node))
  <2>1. Cardinality(Node) \in Nat  BY WithinIs
  <2>2. k + 1 \in 1 .. Cardinality(Node) /\ ~ (k >= Cardinality(Node)) /\ (k + 1) - 1 = k
    BY <1>2, <2>1
  <2>3. m \in Within[d][k]  BY <2>2 DEF Near
  <2>4. Within[d][k + 1] = Further(Within[d][k])  BY <2>2, WithinIs
  <2>. QED  BY <2>3, <2>4 DEF Near, Further
<1>. QED  BY <1>1, <1>2

LEMMA NearHop ==
  ASSUME NEW n \in Node, NEW d \in Node, n \in Reach[d]
  PROVE  Near(n, d, 1)
<1>1. 0 \in Nat /\ 0 + 1 = 1  OBVIOUS
<1>2. Near(n, d, 0 + 1)  BY <1>1, NearStart, NearNext
<1>. QED  BY <1>1, <1>2

----------------------------------------------------------------------------
(* What a router holds.                                                    *)

LEMMA UpdateNear ==
  ASSUME NEW n \in Node, NEW r \in RouterType, AllNear(n, r),
         NEW d \in Node, NEW via, NEW steps \in Nat, Near(n, d, steps),
         via = d => n \in Reach[d],
         NEW t, t = update_approximation_entry(r, d, via, steps)
  PROVE  AllNear(n, t)
<1>. DEFINE old == r.best_routing_info[d]
            new == UpdatedSlots(old, d, via, steps)
<1>1. old \in DestinationApproximator  BY DEF RouterType
<1>2. \A i \in Slot : old[i] \in IntermediateStepInfo  BY <1>1 DEF DestinationApproximator
<1>3. Near(n, d, IF via = d THEN 1 ELSE steps)  BY NearHop
<1>4. \A e \in Node : t.best_routing_info[e] = IF e = d THEN new ELSE r.best_routing_info[e]
  BY UpdateEffect
<1>5. SlotsNear(n, old, d)  BY DEF AllNear
<1>6. SlotsNear(n, new, d)
  <2>1. CASE Refreshes(old, new, d, via, steps)
    <3>1. PICK k \in SlotsVia(old, via) :
            new = [old EXCEPT ![k].steps = IF via = d THEN 1 ELSE steps]
      BY <2>1 DEF Refreshes
    <3>. HIDE DEF old, new
    <3>2. \A i \in Slot : IF i = k THEN new[i].steps = IF via = d THEN 1 ELSE steps
                          ELSE new[i] = old[i]
      BY <1>1, <1>2, <3>1 DEF DestinationApproximator, IntermediateStepInfo, SlotsVia
    <3>3. ASSUME NEW i \in Slot, new[i].in_use PROVE Near(n, d, new[i].steps)
      <4>1. CASE i = k  BY <1>3, <3>2, <4>1
      <4>2. CASE i # k  BY <1>5, <3>2, <3>3, <4>2 DEF SlotsNear
      <4>. QED  BY <4>1, <4>2
    <3>. QED  BY <3>3 DEF SlotsNear
  <2>2. CASE Fills(old, new, via, steps)
    <3>1. PICK k \in Slot : new = [old EXCEPT ![k] = UsedSlot(via, steps)]
      BY <2>2 DEF Fills
    <3>. HIDE DEF old, new
    <3>2. \A i \in Slot : new[i] = IF i = k THEN UsedSlot(via, steps) ELSE old[i]
      BY <1>1, <3>1 DEF DestinationApproximator
    <3>3. ASSUME NEW i \in Slot, new[i].in_use PROVE Near(n, d, new[i].steps)
      <4>1. CASE i = k  BY <3>2, <4>1 DEF UsedSlot
      <4>2. CASE i # k  BY <1>5, <3>2, <3>3, <4>2 DEF SlotsNear
      <4>. QED  BY <4>1, <4>2
    <3>. QED  BY <3>3 DEF SlotsNear
  <2>. QED  BY <1>1, <2>1, <2>2, UpdateCases
<1>. QED  BY <1>4, <1>6 DEF AllNear

LEMMA DestinationNear ==
  ASSUME NEW n, NEW r \in RouterType, AllNear(n, r), NEW d \in Node
  PROVE  AllNear(n, get_destination_approximator(r, d))
BY DestinationEffect DEF AllNear

LEMMA RouterUpdateNear ==
  ASSUME NEW n \in Node, NEW r \in RouterType, AllNear(n, r),
         NEW origin \in Node, NEW from \in Node, NEW steps \in Nat,
         n \in Reach[from], Near(n, origin, steps), origin = from => n \in Reach[from]
  PROVE  AllNear(n, router_update(r, origin, from, steps))
<1>. DEFINE first  == get_destination_approximator(r, from)
            known  == get_destination_approximator(first, origin)
            direct == update_approximation_entry(known, from, from, 1)
            new    == update_approximation_entry(direct, origin, from, steps)
<1>1. router_update(r, origin, from, steps) = new  BY DEF router_update
<1>2. first \in RouterType /\ AllNear(n, first)  BY DestinationType, DestinationNear
<1>. HIDE DEF first
<1>3. known \in RouterType /\ AllNear(n, known)  BY <1>2, DestinationType, DestinationNear
<1>. HIDE DEF known
<1>4. from \in Node \cup {NO_ID} /\ 1 \in Nat /\ Near(n, from, 1)  BY NearHop
<1>5. direct \in RouterType  BY <1>3, <1>4, UpdateType
<1>6. AllNear(n, direct)  BY <1>3, <1>4, UpdateNear
<1>. HIDE DEF direct
<1>7. AllNear(n, new)  BY <1>5, <1>6, UpdateNear
<1>. QED  BY <1>1, <1>7

LEMMA IncorporateNear ==
  ASSUME NEW n \in Node, NEW r \in RouterType, AllNear(n, r),
         NEW from \in Node, NEW dest \in Node, NEW steps \in Nat,
         n \in Reach[from], Near(n, dest, steps + 1)
  PROVE  AllNear(n, router_incorporate_rquery(r, from, dest, steps))
<1>. DEFINE known == get_destination_approximator(r, dest)
<1>1. known \in RouterType /\ AllNear(n, known)  BY DestinationType, DestinationNear
<1>. HIDE DEF known
<1>2. steps + 1 \in Nat  OBVIOUS
<1>3. AllNear(n, update_approximation_entry(known, dest, from, steps + 1))
  BY <1>1, <1>2, UpdateNear
<1>. QED  BY <1>3 DEF router_incorporate_rquery, known

LEMMA SetLinkNear ==
  ASSUME NEW n, NEW r \in RouterType, AllNear(n, r), NEW m, NEW active
  PROVE  AllNear(n, SetLink(r, m, active))
<1>. DEFINE t == SetLink(r, m, active)
<1>1. ASSUME NEW d \in Node, NEW i \in Slot
      PROVE  /\ t.best_routing_info[d][i].in_use = r.best_routing_info[d][i].in_use
             /\ t.best_routing_info[d][i].steps = r.best_routing_info[d][i].steps
  <2>1. r.best_routing_info[d][i] \in IntermediateStepInfo
    BY DEF RouterType, DestinationApproximator
  <2>. QED  BY <2>1 DEF SetLink, RouterType, IntermediateStepInfo
<1>. HIDE DEF t
<1>. QED  BY <1>1 DEF AllNear, SlotsNear, t

----------------------------------------------------------------------------
(* Ways.                                                                   *)

KeepsWays(r, t) == \A d \in Node : Leads(r, d) => Leads(t, d)

LEMMA UpdateKeepsWays ==
  ASSUME NEW r \in RouterType, NEW d \in Node, NEW via \in Node \cup {NO_ID}, NEW steps \in Nat,
         NEW t, t = update_approximation_entry(r, d, via, steps)
  PROVE  KeepsWays(r, t) /\ Known(t) = Known(r)
<1>1. Known(t) = Known(r)  BY DEF update_approximation_entry, Known
<1>2. \A e \in Node : Routed(r, e) => Routed(t, e)  BY UpdateRouted
<1>. QED  BY <1>1, <1>2 DEF KeepsWays, Leads

LEMMA DestinationKeepsWays ==
  ASSUME NEW r \in RouterType, NEW d \in Node, NEW t, t = get_destination_approximator(r, d)
  PROVE  KeepsWays(r, t) /\ d \in Known(t) /\ t \in RouterType
<1>1. Known(t) = Known(r) \cup {d}  BY DestinationKnown
<1>2. \A e \in Node : Routed(r, e) => Routed(t, e)  BY DestinationRouted
<1>. QED  BY <1>1, <1>2, DestinationType DEF KeepsWays, Leads

LEMMA WaysTwice ==
  ASSUME NEW r, NEW t, NEW u, KeepsWays(r, t), KeepsWays(t, u)
  PROVE  KeepsWays(r, u)
BY DEF KeepsWays

LEMMA RouterUpdateKeepsWays ==
  ASSUME NEW r \in RouterType, NEW origin \in Node, NEW from \in Node, NEW steps \in Nat,
         NEW t, t = router_update(r, origin, from, steps)
  PROVE  KeepsWays(r, t)
<1>. DEFINE first  == get_destination_approximator(r, from)
            known  == get_destination_approximator(first, origin)
            direct == update_approximation_entry(known, from, from, 1)
<1>1. KeepsWays(r, first) /\ first \in RouterType  BY DestinationKeepsWays
<1>. HIDE DEF first
<1>2. KeepsWays(first, known) /\ known \in RouterType  BY <1>1, DestinationKeepsWays
<1>. HIDE DEF known
<1>3. from \in Node \cup {NO_ID} /\ 1 \in Nat  OBVIOUS
<1>4. KeepsWays(known, direct) /\ direct \in RouterType
  BY <1>2, <1>3, UpdateKeepsWays, UpdateType
<1>5. t = update_approximation_entry(direct, origin, from, steps)
  BY DEF router_update, first, known
<1>. HIDE DEF direct
<1>6. KeepsWays(direct, t)  BY <1>3, <1>4, <1>5, UpdateKeepsWays
<1>. QED  BY <1>1, <1>2, <1>4, <1>6, WaysTwice

LEMMA IncorporateKeepsWays ==
  ASSUME NEW r \in RouterType, NEW from \in Node, NEW dest \in Node, NEW steps \in Nat,
         NEW t, t = router_incorporate_rquery(r, from, dest, steps)
  PROVE  KeepsWays(r, t)
<1>. DEFINE known == get_destination_approximator(r, dest)
<1>1. KeepsWays(r, known) /\ known \in RouterType  BY DestinationKeepsWays
<1>2. t = update_approximation_entry(known, dest, from, steps + 1)
  BY DEF router_incorporate_rquery
<1>. HIDE DEF known
<1>3. from \in Node \cup {NO_ID} /\ steps + 1 \in Nat  OBVIOUS
<1>4. KeepsWays(known, t)  BY <1>1, <1>2, <1>3, UpdateKeepsWays
<1>. QED  BY <1>1, <1>4, WaysTwice

LEMMA SetLinkKeepsWays ==
  ASSUME NEW r \in RouterType, NEW m \in Node, NEW t, t = SetLink(r, m, TRUE)
  PROVE  KeepsWays(r, t)
<1>1. Known(t) = Known(r)  BY DEF SetLink, Known, RouterType
<1>2. ASSUME NEW d \in Node, NEW i \in ActiveSlots(r.best_routing_info[d])
      PROVE  i \in ActiveSlots(t.best_routing_info[d])
  <2>1. r.best_routing_info[d][i] \in IntermediateStepInfo /\ i \in Slot
    BY DEF RouterType, DestinationApproximator, ActiveSlots
  <2>. QED  BY <2>1 DEF SetLink, RouterType, IntermediateStepInfo, ActiveSlots
<1>. QED  BY <1>1, <1>2 DEF KeepsWays, Leads, Routed

(* A slot that is filled or refreshed guides if its intermediate has a way.*)
LEMMA UpdatedGuides ==
  ASSUME NEW W, NEW slots \in DestinationApproximator, NEW d \in Node,
         \A i \in Slot : SlotGuides(slots[i], d, W),
         NEW via \in Node, Way(W, via, d), NEW steps \in Nat,
         NEW new, new = UpdatedSlots(slots, d, via, steps)
  PROVE  /\ \A i \in Slot : SlotGuides(new[i], d, W)
         /\ ActiveSlots(new) # {}
<1>1. CASE Refreshes(slots, new, d, via, steps)
  <2>1. PICK k \in SlotsVia(slots, via) :
          new = [slots EXCEPT ![k].steps = IF via = d THEN 1 ELSE steps]
    BY <1>1 DEF Refreshes
  <2>2. k \in Slot /\ slots[k].in_use  BY DEF SlotsVia
  <2>3. \A i \in Slot : /\ new[i].in_use = slots[i].in_use
                        /\ new[i].intermediate_node = slots[i].intermediate_node
                        /\ new[i].link_active = slots[i].link_active
    BY <2>1, <2>2 DEF DestinationApproximator, IntermediateStepInfo
  <2>4. k \in ActiveSlots(new)  BY <2>2, <2>3 DEF ActiveSlots, SlotGuides
  <2>. QED  BY <2>3, <2>4 DEF SlotGuides
<1>2. CASE Fills(slots, new, via, steps)
  <2>1. PICK k \in Slot : new = [slots EXCEPT ![k] = UsedSlot(via, steps)]
    BY <1>2 DEF Fills
  <2>2. new[k] = UsedSlot(via, steps) /\ \A i \in Slot \ {k} : new[i] = slots[i]
    BY <2>1 DEF DestinationApproximator
  <2>3. new[k].in_use /\ new[k].link_active /\ new[k].intermediate_node = via
    BY <2>2 DEF UsedSlot
  <2>4. k \in ActiveSlots(new)  BY <2>3 DEF ActiveSlots
  <2>. QED  BY <2>2, <2>3, <2>4 DEF SlotGuides
<1>. QED  BY <1>1, <1>2, UpdateCases

LEMMA UpdateGuided ==
  ASSUME NEW W, NEW n, NEW r \in RouterType, Guided(n, r, W),
         NEW d \in Node, d \in Known(r), NEW via \in Node, Way(W, via, d), NEW steps \in Nat,
         NEW t, t = update_approximation_entry(r, d, via, steps)
  PROVE  Guided(n, t, W) /\ Leads(t, d)
<1>. DEFINE slots == r.best_routing_info[d]
            new   == UpdatedSlots(slots, d, via, steps)
<1>1. slots \in DestinationApproximator  BY DEF RouterType
<1>2. (\A i \in Slot : SlotGuides(new[i], d, W)) /\ ActiveSlots(new) # {}
  BY <1>1, UpdatedGuides DEF Guided
<1>3. \A e \in Node : t.best_routing_info[e] = IF e = d THEN new ELSE r.best_routing_info[e]
  BY UpdateEffect
<1>. HIDE DEF new
<1>4. KeepsWays(r, t) /\ Known(t) = Known(r)
  <2>1. via \in Node \cup {NO_ID}  OBVIOUS
  <2>. QED  BY <2>1, UpdateKeepsWays
<1>. QED  BY <1>2, <1>3, <1>4 DEF Guided, KeepsWays, Leads, Routed

LEMMA DestinationGuided ==
  ASSUME NEW W, NEW n, NEW r \in RouterType, Guided(n, r, W),
         NEW d \in Node, NEW t, t = get_destination_approximator(r, d)
  PROVE  Guided(n, t, W)
BY DestinationEffect, DestinationKeepsWays DEF Guided, KeepsWays

LEMMA RouterUpdateGuided ==
  ASSUME NEW W, NEW n, NEW r \in RouterType, Guided(n, r, W),
         NEW origin \in Node, NEW from \in Node, Way(W, from, origin), NEW steps \in Nat,
         NEW t, t = router_update(r, origin, from, steps)
  PROVE  Guided(n, t, W) /\ Leads(t, origin)
<1>. DEFINE first  == get_destination_approximator(r, from)
            known  == get_destination_approximator(first, origin)
            direct == update_approximation_entry(known, from, from, 1)
<1>1. first \in RouterType /\ Guided(n, first, W) /\ from \in Known(first)
  BY DestinationKeepsWays, DestinationGuided
<1>. HIDE DEF first
<1>2. /\ known \in RouterType /\ Guided(n, known, W) /\ origin \in Known(known)
      /\ Known(known) = Known(first) \cup {origin}
  BY <1>1, DestinationKeepsWays, DestinationGuided, DestinationKnown
<1>. HIDE DEF known
<1>3. from \in Node \cup {NO_ID} /\ 1 \in Nat /\ Way(W, from, from)  BY DEF Way
<1>4. /\ direct \in RouterType /\ Guided(n, direct, W) /\ Known(direct) = Known(known)
  BY <1>1, <1>2, <1>3, UpdateKeepsWays, UpdateType, UpdateGuided
<1>5. t = update_approximation_entry(direct, origin, from, steps)
  BY DEF router_update, first, known
<1>. HIDE DEF direct
<1>. QED  BY <1>2, <1>4, <1>5, UpdateGuided

LEMMA IncorporateGuided ==
  ASSUME NEW W, NEW n, NEW r \in RouterType, Guided(n, r, W),
         NEW from \in Node, NEW dest \in Node, Way(W, from, dest), NEW steps \in Nat,
         NEW t, t = router_incorporate_rquery(r, from, dest, steps)
  PROVE  Guided(n, t, W)
<1>. DEFINE known == get_destination_approximator(r, dest)
<1>1. known \in RouterType /\ Guided(n, known, W) /\ dest \in Known(known)
  BY DestinationKeepsWays, DestinationGuided
<1>2. t = update_approximation_entry(known, dest, from, steps + 1) /\ steps + 1 \in Nat
  BY DEF router_incorporate_rquery
<1>. HIDE DEF known
<1>. QED  BY <1>1, <1>2, UpdateGuided

LEMMA SetLinkGuided ==
  ASSUME NEW W, NEW n, NEW r \in RouterType, Guided(n, r, W), NEW m \in Node,
         NEW t, t = SetLink(r, m, TRUE)
  PROVE  Guided(n, t, W)
<1>1. ASSUME NEW d \in Node, NEW i \in Slot PROVE SlotGuides(t.best_routing_info[d][i], d, W)
  <2>1. r.best_routing_info[d][i] \in IntermediateStepInfo
    BY DEF RouterType, DestinationApproximator
  <2>2. SlotGuides(r.best_routing_info[d][i], d, W)  BY DEF Guided
  <2>. QED  BY <2>1, <2>2 DEF SetLink, RouterType, IntermediateStepInfo, SlotGuides
<1>2. KeepsWays(r, t)  BY SetLinkKeepsWays
<1>. QED  BY <1>1, <1>2 DEF Guided, KeepsWays

----------------------------------------------------------------------------
(* What a router knows.                                                    *)

(* Whom a router has heard, it has heard for good, and while no link is    *)
(* cut it keeps its ways.                                                  *)
KeepsHearing(r, t) ==
  /\ \A m \in Node : HeardBy(r, m) => HeardBy(t, m)
  /\ Uncut => KeepsWays(r, t)

LEMMA HearKnows ==
  ASSUME NEW W, Roomy, NEW n \in Node, NEW r \in RouterType, NEW links, Knows(n, r, links, W),
         NEW origin \in Node, NEW from \in Node, NEW steps \in Nat,
         origin # from => steps >= 2,
         Symmetric => n \in Reach[from] /\ Near(n, origin, steps),
         Uncut /\ Steady => Way(W, from, origin),
         NEW t, t = router_update(r, origin, from, steps)
  PROVE  /\ Knows(n, t, links, W) /\ KeepsHearing(r, t) /\ HeardBy(t, from)
         /\ Uncut /\ Steady => Leads(t, origin)
<1>1. Sound(r, links)  BY DEF Knows
<1>2. Sound(t, links) /\ KeepsHearing(r, t) /\ HeardBy(t, from)
  BY <1>1, HearSound, RouterUpdateKeepsWays DEF KeepsHearing, Roomy
<1>3. Uncut => Listed(t) /\ \A m \in Node : links[m] = TRUE
  BY RouterUpdateListed DEF Knows
<1>4. Symmetric => AllNear(n, t)  BY RouterUpdateNear DEF Knows
<1>5. Uncut /\ Steady => Guided(n, t, W) /\ Leads(t, origin)
  BY RouterUpdateGuided DEF Knows
<1>. QED  BY <1>2, <1>3, <1>4, <1>5 DEF Knows

LEMMA IncorporateKnows ==
  ASSUME NEW W, Roomy, NEW n \in Node, NEW r \in RouterType, NEW links, Knows(n, r, links, W),
         NEW from \in Node, HeardBy(r, from), NEW dest \in Node, NEW steps \in Nat, steps >= 1,
         Symmetric => n \in Reach[from] /\ Near(n, dest, steps + 1),
         Uncut /\ Steady => Way(W, from, dest),
         NEW t, t = router_incorporate_rquery(r, from, dest, steps)
  PROVE  Knows(n, t, links, W) /\ KeepsHearing(r, t)
<1>1. Sound(r, links)  BY DEF Knows
<1>2. Sound(t, links) /\ KeepsHearing(r, t)
  BY <1>1, IncorporateSound, IncorporateKeepsWays DEF KeepsHearing, Roomy
<1>3. Uncut => Listed(t) /\ \A m \in Node : links[m] = TRUE
  BY IncorporateListed DEF Knows
<1>4. Symmetric => AllNear(n, t)  BY IncorporateNear DEF Knows
<1>5. Uncut /\ Steady => Guided(n, t, W)  BY IncorporateGuided DEF Knows
<1>. QED  BY <1>2, <1>3, <1>4, <1>5 DEF Knows

LEMMA ParseKnows ==
  ASSUME NEW W, Roomy, NEW n \in Node, NEW r \in RouterType, NEW links, Knows(n, r, links, W),
         NEW from \in Node, HeardBy(r, from), NEW pairs \in SUBSET Pair,
         \A p \in pairs : p.steps >= 1,
         Symmetric => /\ n \in Reach[from]
                      /\ \A p \in pairs : Near(n, p.destination_node, p.steps + 1),
         Uncut /\ Steady => \A p \in pairs : Way(W, from, p.destination_node),
         NEW t, t = router_parse_rquery(r, from, pairs)
  PROVE  Knows(n, t, links, W) /\ KeepsHearing(r, t)
<1>. DEFINE Good(x) == x \in RouterType /\ Knows(n, x, links, W) /\ KeepsHearing(r, x)
<1>1. PICK g : /\ Parsing(g, r, from, pairs, RQUERY_COUNT)
               /\ t = g[RQUERY_COUNT]
  BY ParseIsParsing
<1>. DEFINE Bad == {k \in 0 .. RQUERY_COUNT : ~ Good(g[k])}
<1>2. RQUERY_COUNT \in Nat  BY MeshAssumption
<1>3. g[0] = r /\ \A k \in 1 .. RQUERY_COUNT : g[k] = ParsePlace(g[k - 1], from, pairs, k - 1)
  BY <1>1, <1>2 DEF Parsing
<1>4. Good(r)  BY DEF KeepsHearing, KeepsWays
<1>5. ASSUME NEW x, Good(x), NEW k PROVE Good(ParsePlace(x, from, pairs, k))
  <2>1. ASSUME NEW p \in pairs
        PROVE  Good(router_incorporate_rquery(x, from, p.destination_node, p.steps))
    <3>. DEFINE y == router_incorporate_rquery(x, from, p.destination_node, p.steps)
    <3>1. /\ p.destination_node \in Node /\ p.steps \in Nat /\ p.steps >= 1
          /\ from \in Node \cup {NO_ID}
      BY DEF Pair
    <3>2. Symmetric => n \in Reach[from] /\ Near(n, p.destination_node, p.steps + 1)
      OBVIOUS
    <3>3. HeardBy(x, from)  BY <1>5 DEF KeepsHearing
    <3>4. y \in RouterType  BY <1>5, <3>1, IncorporateType
    <3>5. Knows(n, y, links, W) /\ KeepsHearing(x, y)
      BY <1>5, <3>1, <3>2, <3>3, IncorporateKnows
    <3>. HIDE DEF y
    <3>6. Good(y)  BY <1>5, <3>4, <3>5 DEF KeepsHearing, KeepsWays
    <3>. QED  BY <3>6 DEF y
  <2>. HIDE DEF Good
  <2>. QED  BY <1>5, <2>1, ParsePlaceCases
<1>. HIDE DEF Good
<1>6. CASE Bad # {}
  <2>1. PICK k \in Bad : \A j \in Bad : k <= j
    <3>1. Bad \in SUBSET Nat  BY <1>2
    <3>. HIDE DEF Bad
    <3>. QED  BY <1>6, <3>1, LeastExists
  <2>2. k # 0  BY <1>3, <1>4, <2>1
  <2>3. k - 1 \in 0 .. RQUERY_COUNT /\ ~ (k <= k - 1)  BY <1>2, <2>1, <2>2
  <2>4. Good(g[k - 1])  BY <2>1, <2>3
  <2>5. g[k] = ParsePlace(g[k - 1], from, pairs, k - 1)  BY <1>2, <1>3, <2>1, <2>2
  <2>6. Good(g[k])  BY <1>5, <2>4, <2>5
  <2>. QED  BY <2>1, <2>6
<1>7. CASE Bad = {}
  <2>1. Good(t)  BY <1>1, <1>2, <1>7
  <2>. QED  BY <2>1 DEF Good
<1>. QED  BY <1>6, <1>7

LEMMA SetLinkKnows ==
  ASSUME NEW W, NEW n \in Node, NEW r \in RouterType, NEW links \in [Node -> BOOLEAN],
         Knows(n, r, links, W), NEW m \in Node, NEW active \in BOOLEAN,
         HeardBy(r, m) \/ active, Uncut => active,
         NEW t, t = SetLink(r, m, active)
  PROVE  Knows(n, t, [links EXCEPT ![m] = active], W) /\ KeepsHearing(r, t)
<1>1. Sound(r, links)  BY DEF Knows
<1>2. Sound(t, [links EXCEPT ![m] = active]) /\ KeepsHearing(r, t)
  <2>1. Uncut => active = TRUE  OBVIOUS
  <2>2. Uncut => KeepsWays(r, t)  BY <2>1, SetLinkKeepsWays
  <2>. QED  BY <1>1, <2>2, SetLinkSound DEF KeepsHearing
<1>3. ASSUME Uncut
      PROVE  Listed(t) /\ \A x \in Node : [links EXCEPT ![m] = active][x] = TRUE
  <2>1. Listed(t)  BY <1>3, SetLinkListed DEF Knows
  <2>2. \A x \in Node : links[x] = TRUE  BY <1>3 DEF Knows
  <2>3. active = TRUE  BY <1>3
  <2>. QED  BY <2>1, <2>2, <2>3
<1>4. Symmetric => AllNear(n, t)  BY SetLinkNear DEF Knows
<1>5. Uncut /\ Steady => Guided(n, t, W)
  <2>1. Uncut => active = TRUE  OBVIOUS
  <2>. QED  BY <2>1, SetLinkGuided DEF Knows
<1>. QED  BY <1>2, <1>3, <1>4, <1>5 DEF Knows

LEMMA CreateKnows ==
  ASSUME NEW W, NEW n, NEW links, \A m \in Node : links[m] = TRUE,
         Uncut /\ Steady => \A d \in Node : <<n, d>> \notin W
  PROVE  Knows(n, create_router(0), links, W)
<1>. DEFINE r == create_router(0)
<1>1. \A d \in Node : \A i \in Slot : r.best_routing_info[d][i].in_use = FALSE
  BY DEF create_router, FreeSlot
<1>. HIDE DEF r
<1>2. Sound(r, links)
  BY <1>1 DEF Sound, AllOneEach, OneEach, StepsTell, Mirrors, SlotsVia
<1>3. Listed(r)  BY <1>1 DEF Listed, UsedSlots
<1>4. AllNear(n, r)  BY <1>1 DEF AllNear, SlotsNear
<1>5. Uncut /\ Steady => Guided(n, r, W)  BY <1>1 DEF Guided, SlotGuides
<1>. QED  BY <1>2, <1>3, <1>4, <1>5 DEF Knows, r

(* A neighbour that is heard and not cut is its own next hop: one step     *)
(* beats any other way to it.                                              *)
LEMMA HopBack ==
  ASSUME NEW W, Uncut, NEW n, NEW r \in RouterType, NEW links, Knows(n, r, links, W),
         NEW m \in Node, HeardBy(r, m)
  PROVE  router_query_intermediate(r, m) = m
<1>. DEFINE slots == r.best_routing_info[m]
<1>1. PICK i \in Slot : slots[i].in_use /\ slots[i].intermediate_node = m
  BY DEF HeardBy, SlotsVia
<1>2. slots[i].link_active = TRUE
  BY <1>1 DEF Knows, Sound, Mirrors, SlotsVia
<1>3. i \in ActiveSlots(slots)  BY <1>1, <1>2 DEF ActiveSlots
<1>4. m \in Known(r) /\ Routed(r, m)
  BY <1>1, <1>3 DEF Knows, Listed, UsedSlots, Routed
<1>5. PICK j \in ActiveSlots(slots) :
        BestRoute(r, m) = slots[j] /\ slots[j].steps <= slots[i].steps
  BY <1>3, <1>4, BestIsActive
<1>6. StepsTell(slots, m)  BY DEF Knows, Sound
<1>7. slots[j] \in IntermediateStepInfo /\ j \in Slot /\ slots[j].in_use
  BY DEF RouterType, DestinationApproximator, ActiveSlots
<1>8. slots[j].intermediate_node = m
  BY <1>1, <1>5, <1>6, <1>7 DEF StepsTell, IntermediateStepInfo
<1>. QED  BY <1>4, <1>5, <1>8 DEF router_query_intermediate

(* An answer says what its router holds.                                   *)
LEMMA AnswerHonest ==
  ASSUME NEW W, NEW n, NEW r \in RouterType, NEW links, Knows(n, r, links, W), NEW m, NEW since,
         NEW p \in router_answer_rquery(r, m, since, RQUERY_COUNT)
  PROVE  /\ p.steps >= 1 /\ Leads(r, p.destination_node)
         /\ Symmetric => Near(n, p.destination_node, p.steps)
<1>. DEFINE d == p.destination_node
            slots == r.best_routing_info[d]
<1>1. RQUERY_COUNT \in Nat  BY MeshAssumption
<1>2. Offers(r, p)  BY <1>1, AnswerPairs
<1>3. d \in Node /\ d \in Known(r) /\ Routed(r, d) /\ p.steps = BestRoute(r, d).steps
  BY <1>2, KnownFinite DEF Offers
<1>4. PICK j \in ActiveSlots(slots) : BestRoute(r, d) = slots[j]  BY <1>3, BestIsActive
<1>5. j \in Slot /\ slots[j].in_use /\ slots[j].steps \in Nat
  BY <1>3 DEF ActiveSlots, RouterType, DestinationApproximator, IntermediateStepInfo
<1>6. StepsTell(slots, d)  BY <1>3 DEF Knows, Sound
<1>7. p.steps >= 1  BY <1>3, <1>4, <1>5, <1>6 DEF StepsTell
<1>8. Symmetric => Near(n, d, p.steps)
  BY <1>3, <1>4, <1>5 DEF Knows, AllNear, SlotsNear
<1>. QED  BY <1>3, <1>7, <1>8 DEF Leads

----------------------------------------------------------------------------
(* Node records.                                                           *)

(* t has the messages of s as they were, but for what may be rewritten.    *)
Remembers(s, t) ==
  /\ KeepsHearing(s.router, t.router)
  /\ \A id \in DOMAIN s.g_msg_table :
       In(t, id) /\ Stamp(t.g_msg_table[id]) = Stamp(s.g_msg_table[id])

LEMMA TiedKept ==
  ASSUME NEW n, NEW s, NEW t, Remembers(s, t), NEW e \in DataEntry, NEW e2, Tied(n, s, e),
         Stamp(e2) = Stamp(e)
  PROVE  Tied(n, t, e2)
<1>1. /\ e2.content = e.content /\ e2.pairs = e.pairs /\ e2.src_node = e.src_node
      /\ e2.dst_node = e.dst_node /\ e2.origin_node = e.origin_node /\ e2.steps = e.steps
      /\ e2.ack_for = e.ack_for
  BY DEF Stamp
<1>2. EntryHonest(e2)  BY <1>1 DEF Tied, EntryHonest
<1>3. HeardBy(s.router, e.src_node) => HeardBy(t.router, e.src_node)
  BY DEF Remembers, KeepsHearing, DataEntry
<1>4. ASSUME In(s, e.ack_for), s.g_msg_table[e.ack_for].content = "gbcast"
      PROVE  In(t, e.ack_for) /\ t.g_msg_table[e.ack_for].content = "gbcast"
  BY <1>4 DEF Remembers, In, Stamp
<1>5. ASSUME Uncut, NEW d \in Node, Leads(s.router, d) PROVE Leads(t.router, d)
  BY <1>5 DEF Remembers, KeepsHearing, KeepsWays
<1>6. \A p \in e.pairs : p.destination_node \in Node  BY DEF DataEntry
<1>7. e.origin_node \in Node  BY DEF DataEntry
<1>. QED  BY <1>1, <1>2, <1>3, <1>4, <1>5, <1>6, <1>7 DEF Tied

LEMMA FitKept ==
  ASSUME NEW s, NEW t, Remembers(s, t), NEW e, NEW e2, Fit(s, e),
         Stamp(e2) = Stamp(e), e2.target_node = e.target_node
  PROVE  Fit(t, e2)
<1>1. /\ e2.content = e.content /\ e2.dst_node = e.dst_node /\ e2.steps = e.steps
      /\ e2.ack_for = e.ack_for
  BY DEF Stamp
<1>2. ASSUME In(s, e.ack_for)
      PROVE  /\ In(t, e.ack_for)
             /\ t.g_msg_table[e.ack_for].src_node = s.g_msg_table[e.ack_for].src_node
  BY <1>2 DEF Remembers, In, Stamp
<1>. QED  BY <1>1, <1>2 DEF Fit

(* A step that queues nothing.                                             *)
Grows(n, s, t, W) ==
  /\ t.MessageQueue = s.MessageQueue
  /\ Remembers(s, t)
  /\ \A id \in DOMAIN s.g_msg_table :
       t.g_msg_table[id].target_node = s.g_msg_table[id].target_node
  /\ \A id \in DOMAIN t.g_msg_table \ DOMAIN s.g_msg_table : Tied(n, t, t.g_msg_table[id])
  /\ Knows(n, t.router, t.link_enabled, W)
  /\ Uncut /\ Steady => t.mode # "panic"

LEMMA EntryType ==
  ASSUME NEW s \in NodeRecord, NEW id \in DOMAIN s.g_msg_table
  PROVE  s.g_msg_table[id] \in DataEntry /\ id \in Id
BY TableIs DEF NodeRecord

LEMMA GrowBonded ==
  ASSUME NEW W, NEW n, NEW s, NEW sent, Ready(n, s, sent), Bonded(n, s, W), NEW t, Grows(n, s, t, W)
  PROVE  Bonded(n, t, W)
<1>1. s \in NodeRecord /\ s.MessageQueue \in Seq(DOMAIN s.g_msg_table)  BY DEF Ready
<1>2. Remembers(s, t)  BY DEF Grows
<1>3. ASSUME NEW id \in DOMAIN t.g_msg_table PROVE Tied(n, t, t.g_msg_table[id])
  <2>1. CASE id \in DOMAIN s.g_msg_table
    <3>1. Tied(n, s, s.g_msg_table[id])  BY <2>1 DEF Bonded
    <3>2. s.g_msg_table[id] \in DataEntry  BY <1>1, <2>1, EntryType
    <3>3. Stamp(t.g_msg_table[id]) = Stamp(s.g_msg_table[id])  BY <1>2, <2>1 DEF Remembers
    <3>. QED  BY <1>2, <3>1, <3>2, <3>3, TiedKept
  <2>2. CASE id \notin DOMAIN s.g_msg_table  BY <2>2 DEF Grows
  <2>. QED  BY <2>1, <2>2
<1>4. ASSUME NEW k \in DOMAIN t.MessageQueue PROVE Fit(t, t.g_msg_table[t.MessageQueue[k]])
  <2>1. t.MessageQueue = s.MessageQueue  BY DEF Grows
  <2>. DEFINE id == s.MessageQueue[k]
  <2>2. id \in DOMAIN s.g_msg_table  BY <1>1, <2>1
  <2>3. Fit(s, s.g_msg_table[id])  BY <2>1 DEF Bonded
  <2>4. /\ Stamp(t.g_msg_table[id]) = Stamp(s.g_msg_table[id])
        /\ t.g_msg_table[id].target_node = s.g_msg_table[id].target_node
    BY <2>2 DEF Grows, Remembers
  <2>. QED  BY <1>2, <2>1, <2>3, <2>4, FitKept
<1>. QED  BY <1>3, <1>4 DEF Bonded, Grows

(* A message may go where it is sent.                                      *)
FitsVia(s, id, final) == Fit(s, [s.g_msg_table[id] EXCEPT !.target_node = final])

LEMMA QueueBonded ==
  ASSUME NEW W, NEW n, NEW s, NEW sent, Ready(n, s, sent), Bonded(n, s, W),
         NEW id \in DOMAIN s.g_msg_table,
         NEW target \in Node \cup {NO_ID}, NEW use_router \in BOOLEAN,
         NEW t, t = queue_send(s, id, target, use_router),
         ~ (use_router /\ Hop(s, target, use_router) = NO_ID) =>
           FitsVia(s, id, Hop(s, target, use_router))
  PROVE  Bonded(n, t, W)
<1>1. s \in NodeRecord /\ s.MessageQueue \in Seq(DOMAIN s.g_msg_table)  BY DEF Ready
<1>2. CASE t = s  BY <1>2
<1>3. ASSUME NEW final, Queued(s, t, id, final), FitsVia(s, id, final) PROVE Bonded(n, t, W)
  <2>1. /\ DOMAIN t.g_msg_table = DOMAIN s.g_msg_table
        /\ \A x \in DOMAIN s.g_msg_table : x # id => t.g_msg_table[x] = s.g_msg_table[x]
        /\ t.g_msg_table[id] = [s.g_msg_table[id] EXCEPT !.target_node = final]
        /\ t.MessageQueue = s.MessageQueue \/ t.MessageQueue = Append(s.MessageQueue, id)
    BY <1>3 DEF Queued
  <2>2. /\ t.router = s.router /\ t.link_enabled = s.link_enabled /\ t.mode = s.mode
    BY <1>1, <1>3 DEF Queued, NodeRecord
  <2>3. ASSUME NEW x \in DOMAIN s.g_msg_table
        PROVE  Stamp(t.g_msg_table[x]) = Stamp(s.g_msg_table[x])
    <3>1. CASE x # id  BY <2>1, <3>1
    <3>2. CASE x = id
      <4>1. s.g_msg_table[id] \in DataEntry  BY <1>1, EntryType
      <4>. QED  BY <2>1, <3>2, <4>1 DEF Stamp, DataEntry
    <3>. QED  BY <3>1, <3>2
  <2>4. Remembers(s, t)  BY <2>1, <2>2, <2>3 DEF Remembers, KeepsHearing, KeepsWays, In
  <2>5. ASSUME NEW x \in DOMAIN t.g_msg_table PROVE Tied(n, t, t.g_msg_table[x])
    <3>1. Tied(n, s, s.g_msg_table[x])  BY <2>1 DEF Bonded
    <3>2. s.g_msg_table[x] \in DataEntry  BY <1>1, <2>1, EntryType
    <3>. QED  BY <2>1, <2>3, <2>4, <3>1, <3>2, TiedKept
  <2>6. ASSUME NEW x \in DOMAIN s.g_msg_table, x # id => Fit(s, s.g_msg_table[x])
        PROVE  Fit(t, t.g_msg_table[x])
    <3>1. CASE x # id
      <4>1. t.g_msg_table[x] = s.g_msg_table[x]  BY <2>1, <3>1
      <4>. QED  BY <2>4, <2>6, <3>1, <4>1, FitKept
    <3>2. CASE x = id
      <4>1. Fit(s, t.g_msg_table[id])  BY <1>3, <2>1 DEF FitsVia
      <4>. QED  BY <2>4, <3>2, <4>1, FitKept
    <3>. QED  BY <3>1, <3>2
  <2>7. ASSUME NEW k \in DOMAIN t.MessageQueue PROVE Fit(t, t.g_msg_table[t.MessageQueue[k]])
    <3>. DEFINE q == s.MessageQueue
    <3>1. \/ k \in DOMAIN q /\ t.MessageQueue[k] = q[k] /\ q[k] \in DOMAIN s.g_msg_table
          \/ t.MessageQueue[k] = id
      <4>1. CASE t.MessageQueue = q  BY <1>1, <2>7, <4>1
      <4>2. CASE t.MessageQueue = Append(q, id)  BY <1>1, <2>7, <4>2
      <4>. QED  BY <2>1, <4>1, <4>2
    <3>2. CASE t.MessageQueue[k] = id  BY <2>6, <3>2
    <3>3. CASE k \in DOMAIN q /\ t.MessageQueue[k] = q[k] /\ q[k] \in DOMAIN s.g_msg_table
      <4>1. Fit(s, s.g_msg_table[q[k]])  BY <3>3 DEF Bonded
      <4>. QED  BY <2>6, <3>3, <4>1
    <3>. QED  BY <3>1, <3>2, <3>3
  <2>. QED  BY <2>2, <2>5, <2>7 DEF Bonded
<1>. QED  BY <1>1, <1>2, <1>3, QueueEffect

(* The operators, as MeshProofs has them for Ready.                        *)
LEMMA CreateBonded ==
  ASSUME NEW W, NEW n \in Node, NEW s, NEW sent, Ready(n, s, sent), s.mode # "off", Bonded(n, s, W),
         NEW content \in Content, NEW pairs \in SUBSET Pair,
         NEW dst \in Node \cup {NO_ID}, NEW ack_for \in Id \cup {NO_ID},
         ack_for = NO_ID <=> content \notin Responses,
         Honest(content, pairs, dst, n, ack_for),
         ack_for # NO_ID /\ dst = n =>
           In(s, ack_for) /\ s.g_msg_table[ack_for].content = "gbcast",
         Uncut /\ Steady => \A p \in pairs : Leads(s.router, p.destination_node),
         NEW t, t = create_data_object(s, n, content, pairs, dst, ack_for)
  PROVE  Bonded(n, t, W)
<1>. DEFINE new == LastId(n, t)
            e == OwnEntry(n, content, pairs, dst, ack_for)
<1>1. s \in NodeRecord  BY DEF Ready
<1>2. Created(n, s, t, e)  BY <1>1, CreateEffect
<1>3. ~ In(s, new)  BY CreateReady
<1>4. /\ t.router = s.router /\ t.link_enabled = s.link_enabled
      /\ t.MessageQueue = s.MessageQueue /\ t.mode = s.mode
  BY <1>1, <1>2 DEF Created, NodeRecord
<1>5. /\ DOMAIN t.g_msg_table = DOMAIN s.g_msg_table \cup {new}
      /\ t.g_msg_table[new] = e
      /\ \A id \in DOMAIN s.g_msg_table : t.g_msg_table[id] = s.g_msg_table[id]
  BY <1>2, <1>3 DEF Created, In
<1>. HIDE DEF new
<1>6. /\ e.content = content /\ e.pairs = pairs /\ e.src_node = n /\ e.dst_node = dst
      /\ e.origin_node = n /\ e.steps = 0 /\ e.ack_for = ack_for
  BY DEF OwnEntry
<1>. HIDE DEF e
<1>7. Tied(n, t, e)
  <2>1. EntryHonest(e)  BY <1>6 DEF EntryHonest
  <2>2. ~ (e.steps >= 1) /\ Near(n, e.origin_node, e.steps)  BY <1>6, NearStart
  <2>. QED  BY <2>1, <2>2, <1>4, <1>5, <1>6 DEF Tied, In
<1>8. Grows(n, s, t, W)
  BY <1>4, <1>5, <1>7 DEF Grows, Remembers, KeepsHearing, KeepsWays, In, Bonded
<1>. QED  BY <1>8, GrowBonded

LEMMA PlainBonded ==
  ASSUME NEW W, NEW n, NEW s, NEW sent, Ready(n, s, sent), Bonded(n, s, W), NEW t,
         t.g_msg_table = s.g_msg_table, t.MessageQueue = s.MessageQueue,
         Knows(n, t.router, t.link_enabled, W), KeepsHearing(s.router, t.router),
         Uncut /\ Steady => t.mode # "panic"
  PROVE  Bonded(n, t, W)
<1>1. Grows(n, s, t, W)  BY DEF Grows, Remembers, In
<1>. QED  BY <1>1, GrowBonded

LEMMA RouterBonded ==
  ASSUME NEW W, NEW n, NEW s, NEW sent, Ready(n, s, sent), Bonded(n, s, W),
         NEW r \in RouterType, Knows(n, r, s.link_enabled, W), KeepsHearing(s.router, r),
         NEW t, t = [s EXCEPT !.router = r]
  PROVE  Bonded(n, t, W) /\ t.router = r
<1>1. s \in NodeRecord  BY DEF Ready
<1>2. /\ t.router = r /\ t.mode = s.mode /\ t.g_msg_table = s.g_msg_table
      /\ t.MessageQueue = s.MessageQueue /\ t.link_enabled = s.link_enabled
  BY <1>1 DEF NodeRecord
<1>3. Uncut /\ Steady => t.mode # "panic"  BY <1>2 DEF Bonded
<1>. QED  BY <1>2, <1>3, PlainBonded

LEMMA SetNeighborLinkBonded ==
  ASSUME NEW W, NEW n \in Node, NEW s, NEW sent, Ready(n, s, sent), Bonded(n, s, W),
         NEW m \in Node, NEW up \in BOOLEAN, HeardBy(s.router, m) \/ up, Uncut => up,
         NEW t, t = SetNeighborLink(s, m, up)
  PROVE  Bonded(n, t, W)
<1>. DEFINE r == SetLink(s.router, m, up)
            links == [s.link_enabled EXCEPT ![m] = up]
<1>1. s \in NodeRecord  BY DEF Ready
<1>2. s.router \in RouterType /\ s.link_enabled \in [Node -> BOOLEAN]
  BY <1>1 DEF NodeRecord
<1>3. Knows(n, s.router, s.link_enabled, W)  BY DEF Bonded
<1>4. Knows(n, r, links, W) /\ KeepsHearing(s.router, r)  BY <1>2, <1>3, SetLinkKnows
<1>5. t = [s EXCEPT !.router = r, !.link_enabled = links]
  BY DEF SetNeighborLink, router_link_node, router_unlink_node
<1>. HIDE DEF r, links
<1>6. /\ t.router = r /\ t.link_enabled = links /\ t.mode = s.mode
      /\ t.g_msg_table = s.g_msg_table /\ t.MessageQueue = s.MessageQueue
  BY <1>1, <1>5 DEF NodeRecord
<1>7. Uncut /\ Steady => t.mode # "panic"  BY <1>6 DEF Bonded
<1>. QED  BY <1>4, <1>6, <1>7, PlainBonded

LEMMA QueriedBonded ==
  ASSUME NEW W, NEW n, NEW s, NEW sent, Ready(n, s, sent), Bonded(n, s, W), NEW m, NEW date,
         NEW t, t = [s EXCEPT !.last_rquery[m] = date]
  PROVE  Bonded(n, t, W) /\ t.router = s.router
<1>1. s \in NodeRecord  BY DEF Ready
<1>2. /\ t.router = s.router /\ t.link_enabled = s.link_enabled /\ t.mode = s.mode
      /\ t.g_msg_table = s.g_msg_table /\ t.MessageQueue = s.MessageQueue
  BY <1>1 DEF NodeRecord
<1>. QED  BY <1>2, PlainBonded DEF Bonded, KeepsHearing, KeepsWays

LEMMA MarkBonded ==
  ASSUME NEW W, NEW n, NEW s, NEW sent, Ready(n, s, sent), Bonded(n, s, W),
         NEW id \in DOMAIN s.g_msg_table, NEW status \in BOOLEAN,
         NEW t, t = [s EXCEPT !.g_msg_table[id].ack_status = status]
  PROVE  Bonded(n, t, W) /\ t.router = s.router /\ t.link_enabled = s.link_enabled
<1>1. s \in NodeRecord  BY DEF Ready
<1>2. Marked(s, t, id, status)  BY <1>1, MarkEffect
<1>3. /\ DOMAIN t.g_msg_table = DOMAIN s.g_msg_table
      /\ \A x \in DOMAIN s.g_msg_table : x # id => t.g_msg_table[x] = s.g_msg_table[x]
      /\ t.g_msg_table[id] = [s.g_msg_table[id] EXCEPT !.ack_status = status]
  BY <1>2 DEF Marked
<1>4. /\ t.router = s.router /\ t.link_enabled = s.link_enabled /\ t.mode = s.mode
      /\ t.MessageQueue = s.MessageQueue
  BY <1>1, <1>2 DEF Marked, NodeRecord
<1>5. ASSUME NEW x \in DOMAIN s.g_msg_table
      PROVE  /\ Stamp(t.g_msg_table[x]) = Stamp(s.g_msg_table[x])
             /\ t.g_msg_table[x].target_node = s.g_msg_table[x].target_node
  <2>1. CASE x # id  BY <1>3, <2>1
  <2>2. CASE x = id
    <3>1. s.g_msg_table[id] \in DataEntry  BY <1>1, EntryType
    <3>. QED  BY <1>3, <2>2, <3>1 DEF Stamp, DataEntry
  <2>. QED  BY <2>1, <2>2
<1>6. Grows(n, s, t, W)
  BY <1>3, <1>4, <1>5 DEF Grows, Remembers, KeepsHearing, KeepsWays, In, Bonded
<1>. QED  BY <1>4, <1>6, GrowBonded

LEMMA NodesUpdateBonded ==
  ASSUME NEW W, NEW n \in Node, NEW s, NEW sent, Ready(n, s, sent), s.mode # "off", Bonded(n, s, W),
         NEW id \in DOMAIN s.g_msg_table, NEW t, t = nodes_update(s, n, id)
  PROVE  Bonded(n, t, W)
<1>1. Notes(n, s, t)  BY NodesUpdateNotes
<1>2. ASSUME NEW x \in DOMAIN t.g_msg_table \ DOMAIN s.g_msg_table
      PROVE  Tied(n, t, t.g_msg_table[x])
  <2>1. PICK m \in Node : t.g_msg_table[x] = OwnEntry(n, "ping", {}, m, NO_ID)
    BY <1>1, <1>2 DEF Notes
  <2>. DEFINE e == OwnEntry(n, "ping", {}, m, NO_ID)
  <2>2. /\ e.content = "ping" /\ e.pairs = {} /\ e.origin_node = n /\ e.steps = 0
        /\ e.ack_for = NO_ID
    BY DEF OwnEntry
  <2>. HIDE DEF e
  <2>3. EntryHonest(e)  BY <2>2 DEF EntryHonest, Honest
  <2>4. ~ (e.steps >= 1) /\ Near(n, e.origin_node, e.steps)  BY <2>2, NearStart
  <2>5. Tied(n, t, e)  BY <2>2, <2>3, <2>4 DEF Tied
  <2>. QED  BY <2>1, <2>5 DEF e
<1>3. Grows(n, s, t, W)
  BY <1>1, <1>2 DEF Notes, Grows, Remembers, KeepsHearing, KeepsWays, In, Bonded
<1>. QED  BY <1>3, GrowBonded

LEMMA PanicBonded ==
  ASSUME NEW W, NEW n, NEW s, NEW sent, Ready(n, s, sent), Bonded(n, s, W), ~ (Uncut /\ Steady),
         NEW t, t = Panic(s)
  PROVE  Bonded(n, t, W)
<1>1. s \in NodeRecord  BY DEF Ready
<1>2. /\ t.router = s.router /\ t.link_enabled = s.link_enabled
      /\ t.g_msg_table = s.g_msg_table /\ t.MessageQueue = s.MessageQueue
  BY <1>1 DEF NodeRecord, Panic
<1>. QED  BY <1>2, PlainBonded DEF Bonded, KeepsHearing, KeepsWays

----------------------------------------------------------------------------
(* The receive handler.                                                    *)

(* What a response to entry id may say.                                    *)
Answers(n, s, id, content, pairs, use_router) ==
  LET e == s.g_msg_table[id]
  IN  /\ e.steps >= 1
      /\ e.origin_node = n => e.content = "gbcast"
      /\ \A p \in pairs : p.steps >= 1
      /\ Symmetric => \A p \in pairs :
           e.origin_node \in Reach[n] /\ Near(n, p.destination_node, p.steps)
      /\ content = "y" => ~ use_router
      /\ Settles(content) => e.src_node = e.origin_node
      /\ pairs # {} => content = "routes"
      /\ Uncut /\ Steady => \A p \in pairs : Leads(s.router, p.destination_node)
      /\ Uncut => use_router

LEMMA RespondBonded ==
  ASSUME NEW W, Roomy, NEW n \in Node, NEW s, NEW sent, Ready(n, s, sent), s.mode # "off",
         Bonded(n, s, W),
         NEW id \in DOMAIN s.g_msg_table, NEW content \in Responses,
         NEW pairs \in SUBSET Pair, NEW use_router \in BOOLEAN,
         Answers(n, s, id, content, pairs, use_router),
         NEW t, t = Respond(s, n, id, content, pairs, use_router)
  PROVE  Bonded(n, t, W)
<1>. DEFINE e == s.g_msg_table[id]
            dst == e.origin_node
            src == e.src_node
            u == create_data_object(s, n, content, pairs, dst, id)
            new == LastId(n, u)
            own == OwnEntry(n, content, pairs, dst, id)
            final == Hop(u, src, use_router)
<1>1. s \in NodeRecord  BY DEF Ready
<1>2. e \in DataEntry /\ id \in Id  BY <1>1, EntryType
<1>3. dst \in Node /\ src \in Node  BY <1>2 DEF DataEntry
<1>4. t = queue_send(u, new, src, use_router)  BY DEF Respond
<1>5. content \in Content /\ content \notin {"gbcast", "unlink"}  BY DEF Content, Responses
<1>6. id # NO_ID  BY <1>2, MeshAssumption DEF Id
<1>7. dst = id[1]  BY DEF Ready, EntryOk
<1>8. Honest(content, pairs, dst, n, id)
  BY <1>3, <1>5, <1>7 DEF Honest, Answers
<1>9. id # NO_ID /\ dst = n => In(s, id) /\ s.g_msg_table[id].content = "gbcast"
  BY DEF Answers, In
<1>10. e.steps >= 1 /\ HeardBy(s.router, src)
  BY DEF Answers, Bonded, Tied
<1>11. /\ content = "y" => ~ use_router
       /\ Settles(content) => src = dst
       /\ Uncut => use_router
       /\ Uncut /\ Steady => \A p \in pairs : Leads(s.router, p.destination_node)
  BY DEF Answers
<1>. HIDE DEF e, dst, src
<1>12. dst \in Node \cup {NO_ID} /\ id \in Id \cup {NO_ID} /\ src \in Node \cup {NO_ID}
       /\ (id = NO_ID <=> content \notin Responses)
  BY <1>2, <1>3, <1>6
<1>13. Ready(n, u, sent) /\ Learns(n, s, u)  BY <1>5, <1>12, CreateReady
<1>14. Bonded(n, u, W)  BY <1>5, <1>8, <1>9, <1>11, <1>12, CreateBonded
<1>15. Created(n, s, u, own)  BY <1>1, <1>5, <1>12, CreateEffect
<1>. HIDE DEF u
<1>16. /\ new \in DOMAIN u.g_msg_table /\ u.g_msg_table[new] = own
       /\ u.router = s.router /\ u.link_enabled = s.link_enabled /\ u.mode # "off"
  BY <1>1, <1>15 DEF Created, NodeRecord
<1>. HIDE DEF new
<1>17. /\ In(u, id) /\ Stamp(u.g_msg_table[id]) = Stamp(e)  BY <1>13 DEF Learns, e
<1>18. u.g_msg_table[id].src_node = src  BY <1>17 DEF Stamp, src
<1>19. Uncut => final = src
  <2>1. s.router \in RouterType  BY <1>1 DEF NodeRecord
  <2>2. Knows(n, s.router, s.link_enabled, W)  BY DEF Bonded
  <2>3. Uncut => router_query_intermediate(s.router, src) = src
    BY <1>3, <1>10, <2>1, <2>2, HopBack
  <2>. QED  BY <1>11, <1>16, <2>3 DEF Hop
<1>20. Settles(content) => final = dst  BY <1>11, <1>19 DEF Settles, Hop
<1>. HIDE DEF final
<1>21. FitsVia(u, new, final)
  <2>. DEFINE x == [u.g_msg_table[new] EXCEPT !.target_node = final]
  <2>1. /\ x.content = content /\ x.ack_for = id /\ x.steps = 0 /\ x.dst_node = dst
        /\ x.target_node = final
    BY <1>16 DEF OwnEntry
  <2>. HIDE DEF x
  <2>2. Fit(u, x)  BY <1>17, <1>18, <1>19, <1>20, <2>1 DEF Fit
  <2>. QED  BY <2>2 DEF FitsVia, x
<1>. QED  BY <1>4, <1>12, <1>13, <1>14, <1>16, <1>21, QueueBonded DEF final

LEMMA HandleCommandBonded ==
  ASSUME NEW W, Roomy, NEW n \in Node, NEW s, NEW sent, Ready(n, s, sent), s.mode # "off",
         Bonded(n, s, W),
         NEW id \in DOMAIN s.g_msg_table, New(s, sent, id),
         s.g_msg_table[id].steps >= 1, s.g_msg_table[id].ack_for = NO_ID,
         NEW t, t = HandleCommand(s, n, id)
  PROVE  Bonded(n, t, W)
<1>. DEFINE e == s.g_msg_table[id]
<1>1. s \in NodeRecord  BY DEF Ready
<1>2. e \in DataEntry /\ id \in Id  BY <1>1, EntryType
<1>3. e.origin_node \in Node /\ e.src_node \in Node  BY <1>2 DEF DataEntry
<1>4. /\ {} \in SUBSET Pair /\ TRUE \in BOOLEAN /\ FALSE \in BOOLEAN
      /\ "name" \in Responses /\ "routes" \in Responses
      /\ "y" \in Responses /\ "n" \in Responses
      /\ "name" # "y" /\ "routes" # "y" /\ "n" # "y"
  BY DEF Responses
<1>5. Tied(n, s, e)  BY DEF Bonded
<1>6. e.content # "gbcast" => e.src_node = e.origin_node /\ e.origin_node # n
  BY <1>5 DEF Tied, Direct
<1>7. HeardBy(s.router, e.src_node)  BY <1>5 DEF Tied
<1>8. Uncut => e.content # "unlink"  BY <1>5 DEF Tied, EntryHonest, Honest
<1>9. ASSUME NEW u, Ready(n, u, sent), Learns(n, s, u), Bonded(n, u, W),
             NEW content \in Responses, NEW pairs \in SUBSET Pair, NEW use_router \in BOOLEAN,
             t = Respond(u, n, id, content, pairs, use_router),
             Answers(n, s, id, content, pairs, use_router), pairs = {} \/ u.router = s.router
      PROVE  Bonded(n, t, W)
  <2>1. id \in DOMAIN u.g_msg_table  BY <1>9 DEF Learns, In
  <2>2. u.mode # "off"  BY <1>9, LearnsMode
  <2>3. Stamp(u.g_msg_table[id]) = Stamp(e)  BY <1>9 DEF Learns
  <2>4. Answers(n, u, id, content, pairs, use_router)  BY <1>9, <2>3 DEF Answers, Stamp
  <2>. QED  BY <1>9, <2>1, <2>2, <2>4, RespondBonded
<1>10. Ready(n, s, sent) /\ Learns(n, s, s)  BY <1>1, LearnsSame
<1>11. ASSUME NEW content \in {"name", "n"} PROVE Answers(n, s, id, content, {}, TRUE)
  BY <1>6, <1>11 DEF Answers, Settles
<1>12. CASE e.content = "ping"
  <2>1. t = Respond(s, n, id, "name", {}, TRUE)  BY <1>12 DEF HandleCommand
  <2>. QED  BY <1>4, <1>9, <1>10, <1>11, <2>1
<1>13. CASE e.content = "gbcast"
  <2>. DEFINE u == queue_send(s, id, BROADCAST_ID, FALSE)
  <2>1. t = Respond(u, n, id, "name", {}, TRUE)  BY <1>13 DEF HandleCommand
  <2>2. BROADCAST_ID \in Node \cup {NO_ID}  BY DEF BROADCAST_ID
  <2>3. Ready(n, u, sent) /\ Learns(n, s, u)  BY <1>4, <2>2, QueueReady DEF New
  <2>4. FitsVia(s, id, BROADCAST_ID)
    <3>. DEFINE x == [e EXCEPT !.target_node = BROADCAST_ID]
    <3>1. x.content = "gbcast" /\ x.ack_for = NO_ID  BY <1>2, <1>13 DEF DataEntry
    <3>. HIDE DEF x
    <3>2. Fit(s, x)  BY <3>1 DEF Fit, Direct, Settles
    <3>. QED  BY <3>2 DEF FitsVia, x
  <2>5. Hop(s, BROADCAST_ID, FALSE) = BROADCAST_ID  BY DEF Hop
  <2>6. Bonded(n, u, W)  BY <1>4, <2>2, <2>4, <2>5, QueueBonded
  <2>. HIDE DEF u
  <2>. QED  BY <1>4, <1>9, <1>11, <2>1, <2>3, <2>6
<1>14. CASE e.content = "rquery"
  <2>. DEFINE u == [s EXCEPT !.last_rquery[e.src_node] = s.router.discovery_seq]
              pairs == router_answer_rquery(s.router, e.src_node, s.last_rquery[e.src_node],
                                            RQUERY_COUNT)
  <2>1. t = Respond(u, n, id, "routes", pairs, TRUE)  BY <1>14 DEF HandleCommand
  <2>2. Ready(n, u, sent) /\ Learns(n, s, u)  BY <1>3, QueriedReady
  <2>3. pairs \in SUBSET Pair  BY <1>1, AnswerType DEF NodeRecord
  <2>4. Bonded(n, u, W) /\ u.router = s.router  BY QueriedBonded
  <2>5. Answers(n, s, id, "routes", pairs, TRUE)
    <3>1. s.router \in RouterType /\ Knows(n, s.router, s.link_enabled, W)
      BY <1>1 DEF NodeRecord, Bonded
    <3>2. \A p \in pairs : /\ p.steps >= 1 /\ Leads(s.router, p.destination_node)
                           /\ Symmetric => Near(n, p.destination_node, p.steps)
      BY <3>1, AnswerHonest
    <3>3. Symmetric => e.origin_node \in Reach[n]
      <4>1. Symmetric => n \in Reach[e.src_node]  BY <1>5 DEF Tied
      <4>. QED  BY <1>3, <1>6, <1>14, <4>1 DEF Symmetric
    <3>. HIDE DEF pairs
    <3>. QED  BY <1>6, <1>14, <3>2, <3>3 DEF Answers
  <2>. HIDE DEF u, pairs
  <2>. QED  BY <1>4, <1>9, <2>1, <2>2, <2>3, <2>4, <2>5
<1>15. CASE e.content = "unlink" /\ e.steps # 1
  <2>1. t = Respond(s, n, id, "n", {}, TRUE)  BY <1>15 DEF HandleCommand
  <2>. QED  BY <1>4, <1>9, <1>10, <1>11, <2>1
<1>16. CASE e.content = "unlink" /\ e.steps = 1
  <2>. DEFINE u == SetNeighborLink(s, e.origin_node, FALSE)
  <2>1. t = Respond(u, n, id, "y", {}, FALSE)  BY <1>16 DEF HandleCommand
  <2>2. Ready(n, u, sent) /\ Learns(n, s, u)  BY <1>3, <1>4, SetNeighborLinkReady
  <2>3. HeardBy(s.router, e.origin_node) /\ ~ Uncut  BY <1>6, <1>7, <1>8, <1>16
  <2>4. Bonded(n, u, W)  BY <1>3, <1>4, <2>3, SetNeighborLinkBonded
  <2>5. Answers(n, s, id, "y", {}, FALSE)  BY <1>6, <1>16, <2>3 DEF Answers, Settles
  <2>. HIDE DEF u
  <2>. QED  BY <1>4, <1>9, <2>1, <2>2, <2>4, <2>5
<1>17. CASE e.content = "link"
  <2>1. t = SetNeighborLink(s, e.origin_node, TRUE)  BY <1>17 DEF HandleCommand
  <2>. QED  BY <1>3, <1>4, <2>1, SetNeighborLinkBonded
<1>18. CASE e.content \notin {"ping", "gbcast", "rquery", "unlink", "link"}
  <2>1. t = s  BY <1>18 DEF HandleCommand
  <2>. QED  BY <2>1
<1>. QED  BY <1>12, <1>13, <1>14, <1>15, <1>16, <1>17, <1>18

(* The origin of an entry has a way to what it advertises.                 *)
Leading(e, W) == \A p \in e.pairs : Way(W, e.origin_node, p.destination_node)

LEMMA HandleResponseBonded ==
  ASSUME NEW W, Roomy, NEW n \in Node, NEW s, NEW sent, Ready(n, s, sent), s.mode # "off",
         Bonded(n, s, W), NEW id \in DOMAIN s.g_msg_table,
         s.g_msg_table[id].ack_for # NO_ID, s.g_msg_table[id].dst_node = n,
         Uncut /\ Steady => In(s, s.g_msg_table[id].ack_for) /\ Leading(s.g_msg_table[id], W),
         NEW t, t = HandleResponse(s, n, id)
  PROVE  Bonded(n, t, W)
<1>. DEFINE e == s.g_msg_table[id]
            asked == s.g_msg_table[e.ack_for].content
<1>1. s \in NodeRecord  BY DEF Ready
<1>2. e \in DataEntry /\ s.router \in RouterType  BY <1>1, EntryType DEF NodeRecord
<1>3. /\ e.origin_node \in Node /\ e.src_node \in Node /\ e.pairs \in SUBSET Pair
      /\ e.steps \in Nat
  BY <1>2 DEF DataEntry, Pair
<1>4. Tied(n, s, e)  BY DEF Bonded
<1>5. CASE ~ In(s, e.ack_for)
  <2>1. t = Panic(s)  BY <1>5 DEF HandleResponse
  <2>. QED  BY <1>5, <2>1, PanicBonded
<1>6. ASSUME In(s, e.ack_for), asked # "gbcast"
      PROVE  /\ e.steps >= 1 /\ HeardBy(s.router, e.src_node)
             /\ Symmetric => n \in Reach[e.src_node]
  <2>1. e.steps # 0  BY <1>4, <1>6 DEF Tied
  <2>2. e.steps >= 1  BY <1>3, <2>1
  <2>. QED  BY <1>4, <2>2 DEF Tied
<1>7. CASE In(s, e.ack_for) /\ asked = "rquery"
  <2>. DEFINE r == router_parse_rquery(s.router, e.src_node, e.pairs)
  <2>1. t = [s EXCEPT !.router = r]  BY <1>7 DEF HandleResponse
  <2>2. r \in RouterType  BY <1>2, <1>3, ParseType
  <2>3. Honest(e.content, e.pairs, e.dst_node, e.origin_node, e.ack_for)
    BY <1>4 DEF Tied, EntryHonest
  <2>4. \A p \in e.pairs : p.steps >= 1  BY <2>3 DEF Honest
  <2>5. ASSUME Symmetric
        PROVE  \A p \in e.pairs : Near(n, p.destination_node, p.steps + 1)
    <3>1. \A p \in e.pairs : /\ n \in Reach[e.origin_node]
                             /\ Near(e.origin_node, p.destination_node, p.steps)
      BY <2>3, <2>5 DEF Honest
    <3>2. \A p \in e.pairs : p.destination_node \in Node /\ p.steps \in Nat
      BY <1>3 DEF Pair
    <3>. QED  BY <3>1, <3>2, NearNext
  <2>6. Knows(n, s.router, s.link_enabled, W)  BY DEF Bonded
  <2>7. Uncut /\ Steady => \A p \in e.pairs : Way(W, e.src_node, p.destination_node)
    <3>1. Uncut /\ e.pairs # {} => Direct(e.content, e.ack_for)
      BY <2>3 DEF Honest, Direct, Settles
    <3>. QED  BY <1>4, <1>6, <1>7, <3>1 DEF Tied, Leading
  <2>8. Knows(n, r, s.link_enabled, W) /\ KeepsHearing(s.router, r)
    BY <1>2, <1>3, <1>6, <1>7, <2>4, <2>5, <2>6, <2>7, ParseKnows
  <2>. HIDE DEF r
  <2>. QED  BY <2>1, <2>2, <2>8, RouterBonded
<1>8. CASE In(s, e.ack_for) /\ asked = "unlink" /\ e.content = "y"
  <2>1. t = SetNeighborLink(s, e.origin_node, FALSE)  BY <1>8 DEF HandleResponse
  <2>2. HeardBy(s.router, e.origin_node)  BY <1>4, <1>6, <1>8 DEF Tied, Direct, Settles
  <2>3. ~ Uncut
    <3>1. Tied(n, s, s.g_msg_table[e.ack_for])  BY <1>8 DEF Bonded, In
    <3>. QED  BY <1>8, <3>1 DEF Tied, EntryHonest, Honest
  <2>4. FALSE \in BOOLEAN  OBVIOUS
  <2>. QED  BY <1>3, <2>1, <2>2, <2>3, <2>4, SetNeighborLinkBonded
<1>9. CASE In(s, e.ack_for) /\ asked # "rquery" /\ ~ (asked = "unlink" /\ e.content = "y")
  <2>1. t = s  BY <1>9 DEF HandleResponse
  <2>. QED  BY <2>1
<1>. QED  BY <1>5, <1>7, <1>8, <1>9

LEMMA HandleBonded ==
  ASSUME NEW W, Roomy, NEW n \in Node, NEW s, NEW sent, Ready(n, s, sent), s.mode # "off",
         Bonded(n, s, W), NEW id \in DOMAIN s.g_msg_table, New(s, sent, id),
         s.g_msg_table[id].ack_for = NO_ID => s.g_msg_table[id].steps >= 1,
         Uncut /\ Steady /\ s.g_msg_table[id].ack_for # NO_ID =>
           In(s, s.g_msg_table[id].ack_for) /\ Leading(s.g_msg_table[id], W),
         NEW t, t = handle_maintenance_msg(s, n, id)
  PROVE  Bonded(n, t, W)
<1>. DEFINE e == s.g_msg_table[id]
<1>1. s \in NodeRecord  BY DEF Ready
<1>2. e \in DataEntry  BY <1>1, EntryType
<1>3. CASE e.dst_node \notin {BROADCAST_ID, n}
  <2>1. t = s  BY <1>3 DEF handle_maintenance_msg
  <2>. QED  BY <2>1
<1>4. CASE e.dst_node \in {BROADCAST_ID, n} /\ e.ack_for # NO_ID
  <2>1. t = HandleResponse(s, n, id)  BY <1>4 DEF handle_maintenance_msg
  <2>2. e.dst_node = e.ack_for[1]
    <3>1. Tied(n, s, e)  BY DEF Bonded
    <3>. QED  BY <1>4, <3>1 DEF Tied, EntryHonest, Honest
  <2>3. e.ack_for \in Id  BY <1>2, <1>4 DEF DataEntry
  <2>4. e.dst_node \in Node  BY <2>2, <2>3 DEF Id
  <2>5. e.dst_node = n  BY <1>4, <2>4, RoutingAssumption DEF BROADCAST_ID
  <2>. QED  BY <1>4, <2>1, <2>5, HandleResponseBonded
<1>5. CASE e.dst_node \in {BROADCAST_ID, n} /\ e.ack_for = NO_ID
  <2>1. t = HandleCommand(s, n, id)  BY <1>5 DEF handle_maintenance_msg
  <2>. QED  BY <1>5, <2>1, HandleCommandBonded
<1>. QED  BY <1>3, <1>4, <1>5

LEMMA ReceivedBonded ==
  ASSUME NEW W, NEW n \in Node, NEW s, NEW sent, Ready(n, s, sent), Bonded(n, s, W),
         NEW f \in Frame, Framed(n, f), HeardBy(s.router, f.from),
         Uncut /\ Steady => Leads(s.router, f.origin),
         NEW t, t = Received(s, f)
  PROVE  Bonded(n, t, W)
<1>. DEFINE e == Arrived(f)
<1>1. s \in NodeRecord  BY DEF Ready
<1>2. Got(s, t, f)  BY <1>1, ReceivedEffect
<1>3. /\ DOMAIN t.g_msg_table = DOMAIN s.g_msg_table \cup {f.id}
      /\ \A id \in DOMAIN s.g_msg_table : t.g_msg_table[id] = s.g_msg_table[id]
      /\ f.id \notin DOMAIN s.g_msg_table => t.g_msg_table[f.id] = e
  BY <1>2 DEF Got
<1>4. /\ t.router = s.router /\ t.link_enabled = s.link_enabled /\ t.mode = s.mode
      /\ t.MessageQueue = s.MessageQueue
  BY <1>1, <1>2 DEF Got, NodeRecord
<1>5. /\ e.content = f.content /\ e.pairs = f.pairs /\ e.src_node = f.from
      /\ e.dst_node = f.dst /\ e.origin_node = f.origin /\ e.steps = f.steps + 1
      /\ e.ack_for = f.ack_for
  BY DEF Arrived
<1>. HIDE DEF e
<1>6. f.steps \in Nat /\ f.origin \in Node  BY DEF Frame
<1>7. EntryHonest(e)  BY <1>5 DEF EntryHonest, Framed
<1>8. Symmetric => n \in Reach[f.from] /\ Near(n, f.origin, f.steps + 1)
  BY <1>6, NearNext DEF Framed
<1>9. e.steps # 0  BY <1>5, <1>6
<1>10. Tied(n, t, e)  BY <1>4, <1>5, <1>7, <1>8, <1>9 DEF Tied, Framed
<1>11. Grows(n, s, t, W)
  BY <1>3, <1>4, <1>10 DEF Grows, Remembers, KeepsHearing, KeepsWays, In, Bonded
<1>. QED  BY <1>11, GrowBonded

LEMMA PassAckBonded ==
  ASSUME NEW W, NEW n \in Node, NEW s, NEW sent, Ready(n, s, sent), s.mode # "off", Bonded(n, s, W),
         NEW f \in Frame, In(s, f.id), Body(s.g_msg_table[f.id]) = FrameBody(f),
         Framed(n, f), Uncut /\ Steady /\ f.ack_for # NO_ID => In(s, f.ack_for),
         NEW t, t = PassAck(s, n, f)
  PROVE  Bonded(n, t, W)
<1>1. s \in NodeRecord  BY DEF Ready
<1>2. CASE s.mode = "panic" \/ f.ack_for = NO_ID
  <2>1. t = s  BY <1>2 DEF PassAck
  <2>. QED  BY <2>1
<1>3. CASE s.mode # "panic" /\ f.ack_for # NO_ID /\ ~ In(s, f.ack_for)
  <2>1. t = Panic(s)  BY <1>3 DEF PassAck
  <2>. QED  BY <1>3, <2>1, PanicBonded
<1>4. CASE s.mode # "panic" /\ f.ack_for # NO_ID /\ In(s, f.ack_for)
  <2>. DEFINE u == [s EXCEPT !.g_msg_table[f.ack_for].ack_status = TRUE]
              back == u.g_msg_table[f.ack_for].src_node
  <2>1. t = IF f.dst = n THEN u ELSE queue_send(u, f.id, back, TRUE)
    BY <1>4 DEF PassAck
  <2>2. f.ack_for \in DOMAIN s.g_msg_table /\ TRUE \in BOOLEAN  BY <1>4 DEF In
  <2>3. Ready(n, u, sent) /\ Learns(n, s, u)  BY <2>2, MarkReady
  <2>4. Bonded(n, u, W)  BY <2>2, MarkBonded
  <2>. HIDE DEF u
  <2>5. u \in NodeRecord /\ u.mode # "off"  BY <2>3, LearnsMode DEF Ready
  <2>6. f.id \in DOMAIN u.g_msg_table /\ f.ack_for \in DOMAIN u.g_msg_table
    BY <2>2, <2>3 DEF Learns, In
  <2>7. /\ u.g_msg_table[f.ack_for] \in DataEntry /\ u.g_msg_table[f.id] \in DataEntry
    BY <2>5, <2>6, EntryType
  <2>8. back \in Node /\ back \in Node \cup {NO_ID}  BY <2>7 DEF DataEntry
  <2>9. CASE f.dst = n  BY <2>1, <2>4, <2>9
  <2>10. CASE f.dst # n
    <3>1. f.dst = f.ack_for[1] /\ ~ Settles(f.content)  BY <1>4, <2>10 DEF Framed, Honest
    <3>2. HeardBy(u.router, back)
      <4>. DEFINE a == u.g_msg_table[f.ack_for]
      <4>1. EntryOk(n, f.ack_for, a)  BY <2>3, <2>6 DEF Ready
      <4>2. a.steps # 0  BY <2>10, <3>1, <4>1 DEF EntryOk
      <4>3. a.steps >= 1  BY <2>7, <4>2 DEF DataEntry
      <4>4. Tied(n, u, a)  BY <2>4, <2>6 DEF Bonded
      <4>. QED  BY <4>3, <4>4 DEF Tied
    <3>3. Uncut => Hop(u, back, TRUE) = back
      <4>1. u.router \in RouterType /\ Knows(n, u.router, u.link_enabled, W)
        BY <2>4, <2>5 DEF NodeRecord, Bonded
      <4>2. Uncut => router_query_intermediate(u.router, back) = back
        BY <2>8, <3>2, <4>1, HopBack
      <4>. QED  BY <4>2 DEF Hop
    <3>. DEFINE final == Hop(u, back, TRUE)
    <3>4. FitsVia(u, f.id, final)
      <4>. DEFINE x == [u.g_msg_table[f.id] EXCEPT !.target_node = final]
      <4>1. /\ u.g_msg_table[f.id].content = f.content
            /\ u.g_msg_table[f.id].ack_for = f.ack_for
        BY <2>3, <2>6 DEF Learns, Stamp, Body, FrameBody, In
      <4>2. x.content = f.content /\ x.ack_for = f.ack_for /\ x.target_node = final
        BY <2>7, <4>1 DEF DataEntry
      <4>. HIDE DEF x, final
      <4>3. ~ Direct(x.content, x.ack_for) /\ ~ Settles(x.content)
        BY <1>4, <3>1, <4>2 DEF Direct
      <4>4. Uncut => final = u.g_msg_table[f.ack_for].src_node  BY <3>3 DEF final
      <4>5. Fit(u, x)  BY <2>6, <4>2, <4>3, <4>4 DEF Fit, In
      <4>. QED  BY <4>5 DEF FitsVia, x
    <3>5. t = queue_send(u, f.id, back, TRUE)  BY <2>1, <2>10
    <3>. HIDE DEF back
    <3>. QED  BY <2>2, <2>3, <2>4, <2>6, <2>8, <3>4, <3>5, QueueBonded
  <2>. QED  BY <2>9, <2>10
<1>. QED  BY <1>2, <1>3, <1>4

(* A frame a node can handle.                                              *)
Arrives(n, s, f, W) ==
  /\ f \in Frame /\ FrameOk(f) /\ Framed(n, f)
  /\ f.id[1] = n => f.id[2] \in 1 .. s.drawn
  /\ In(s, f.id) => Body(s.g_msg_table[f.id]) = FrameBody(f)
  /\ Uncut /\ Steady => FrameLed(f, W) /\ (f.ack_for # NO_ID => In(s, f.ack_for))

(* The node once it has stored f.                                          *)
Stored(n, s, f) ==
  LET r == router_update(s.router, f.origin, f.from, f.steps + 1)
  IN  nodes_update(Received([s EXCEPT !.router = r], f), n, f.id)

Again(s, f) == In(s, f.id) /\ s.g_msg_table[f.id].content = "gbcast"

LEMMA StoredBonded ==
  ASSUME NEW W, Roomy, NEW n \in Node, NEW s, NEW sent, Ready(n, s, sent), s.mode # "off",
         Bonded(n, s, W), NEW f, Arrives(n, s, f, W), NEW t, t = Stored(n, s, f)
  PROVE  /\ Ready(n, t, sent) /\ Bonded(n, t, W) /\ t.mode # "off"
         /\ In(t, f.id) /\ Body(t.g_msg_table[f.id]) = FrameBody(f)
         /\ Uncut /\ Steady /\ f.ack_for # NO_ID =>
              In(t, f.ack_for) /\ Leading(t.g_msg_table[f.id], W)
         /\ ~ Again(s, f) => /\ New(t, sent, f.id)
                             /\ f.ack_for = NO_ID => t.g_msg_table[f.id].steps >= 1
<1>. DEFINE r       == router_update(s.router, f.origin, f.from, f.steps + 1)
            updated == [s EXCEPT !.router = r]
            got     == Received(updated, f)
            stored  == nodes_update(got, n, f.id)
<1>1. t = stored  BY DEF Stored
<1>2. s \in NodeRecord /\ f \in Frame /\ FrameOk(f) /\ Framed(n, f)  BY DEF Ready, Arrives
<1>3. /\ f.origin \in Node /\ f.from \in Node /\ f.steps \in Nat /\ f.steps + 1 \in Nat
      /\ f.id \in Id
  BY <1>2 DEF Frame
<1>4. s.router \in RouterType /\ Knows(n, s.router, s.link_enabled, W)
  BY <1>2 DEF NodeRecord, Bonded
<1>5. r \in RouterType  BY <1>3, <1>4, RouterUpdateType
<1>6. /\ Knows(n, r, s.link_enabled, W) /\ KeepsHearing(s.router, r) /\ HeardBy(r, f.from)
      /\ Uncut /\ Steady => Leads(r, f.origin)
  <2>1. f.origin # f.from => f.steps + 1 >= 2
    <3>1. f.origin # f.from => f.steps # 0  BY <1>2 DEF FrameOk
    <3>. QED  BY <1>3, <3>1
  <2>2. Symmetric => n \in Reach[f.from] /\ Near(n, f.origin, f.steps + 1)
    BY <1>2, <1>3, NearNext DEF Framed
  <2>3. Uncut /\ Steady => Way(W, f.from, f.origin)  BY DEF Arrives, FrameLed
  <2>. QED  BY <1>3, <1>4, <2>1, <2>2, <2>3, HearKnows
<1>. HIDE DEF r
<1>7. Ready(n, updated, sent)  BY <1>5, RouterReady
<1>8. Bonded(n, updated, W) /\ updated.router = r  BY <1>5, <1>6, RouterBonded
<1>9. /\ updated.g_msg_table = s.g_msg_table /\ updated.drawn = s.drawn
      /\ updated.mode = s.mode /\ updated.MessageQueue = s.MessageQueue
  BY <1>2 DEF NodeRecord
<1>. HIDE DEF updated
<1>10. Ready(n, got, sent)  BY <1>2, <1>7, <1>9, ReceivedReady DEF Arrives
<1>11. Bonded(n, got, W)  BY <1>2, <1>6, <1>7, <1>8, ReceivedBonded
<1>12. Got(updated, got, f)  BY <1>2, <1>7, ReceivedEffect DEF Ready
<1>. HIDE DEF got
<1>13. /\ DOMAIN got.g_msg_table = DOMAIN s.g_msg_table \cup {f.id}
       /\ \A id \in DOMAIN s.g_msg_table : got.g_msg_table[id] = s.g_msg_table[id]
       /\ f.id \notin DOMAIN s.g_msg_table => got.g_msg_table[f.id] = Arrived(f)
       /\ got.mode = s.mode /\ got.MessageQueue = s.MessageQueue
  <2>1. updated \in NodeRecord  BY <1>7 DEF Ready
  <2>. QED  BY <1>9, <1>12, <2>1 DEF Got, NodeRecord
<1>14. f.id \in DOMAIN got.g_msg_table /\ Body(got.g_msg_table[f.id]) = FrameBody(f)
  <2>1. CASE In(s, f.id)  BY <1>13, <2>1 DEF In, Arrives
  <2>2. CASE ~ In(s, f.id)  BY <1>13, <2>2 DEF In, Arrived, Body, FrameBody
  <2>. QED  BY <2>1, <2>2
<1>15. Ready(n, stored, sent) /\ Learns(n, got, stored) /\ Notes(n, got, stored)
  BY <1>10, <1>13, <1>14, NodesUpdateReady, NodesUpdateNotes
<1>16. Bonded(n, stored, W)  BY <1>10, <1>11, <1>13, <1>14, NodesUpdateBonded
<1>. HIDE DEF stored
<1>17. /\ In(stored, f.id) /\ stored.g_msg_table[f.id] = got.g_msg_table[f.id]
       /\ stored.MessageQueue = s.MessageQueue /\ stored.mode # "off"
       /\ \A id \in DOMAIN s.g_msg_table : In(stored, id)
  BY <1>13, <1>14, <1>15 DEF Notes
<1>18. Body(stored.g_msg_table[f.id]) = FrameBody(f)  BY <1>14, <1>17
<1>19. Uncut /\ Steady /\ f.ack_for # NO_ID =>
         In(stored, f.ack_for) /\ Leading(stored.g_msg_table[f.id], W)
  BY <1>17, <1>18 DEF Arrives, In, FrameLed, Leading, Body, FrameBody
<1>20. stored.g_msg_table[f.id].content = f.content /\ stored.g_msg_table[f.id].ack_for = f.ack_for
  BY <1>18 DEF Body, FrameBody
<1>21. ASSUME ~ Again(s, f)
       PROVE  /\ New(stored, sent, f.id)
              /\ f.ack_for = NO_ID => stored.g_msg_table[f.id].steps >= 1
  <2>1. CASE In(s, f.id)
    <3>1. stored.g_msg_table[f.id] = s.g_msg_table[f.id]  BY <1>13, <1>17, <2>1 DEF In
    <3>2. f.content # "gbcast"  BY <1>20, <1>21, <2>1, <3>1 DEF Again
    <3>3. ASSUME f.ack_for = NO_ID PROVE stored.g_msg_table[f.id].steps >= 1
      <4>1. f.from = f.origin /\ f.from # n /\ f.origin = f.id[1]
        BY <1>2, <3>2, <3>3 DEF Framed, Direct, FrameOk
      <4>2. EntryOk(n, f.id, stored.g_msg_table[f.id])  BY <1>15, <1>17 DEF Ready, In
      <4>3. stored.g_msg_table[f.id].steps # 0  BY <4>1, <4>2 DEF EntryOk
      <4>4. stored.g_msg_table[f.id] \in DataEntry  BY <1>15, <1>17, EntryType DEF Ready, In
      <4>. QED  BY <4>3, <4>4 DEF DataEntry
    <3>. QED  BY <1>20, <3>2, <3>3 DEF New
  <2>2. CASE ~ In(s, f.id)
    <3>1. stored.g_msg_table[f.id].steps = f.steps + 1  BY <1>13, <1>17, <2>2 DEF In, Arrived
    <3>2. Steady => sent \subseteq DOMAIN s.g_msg_table  BY DEF Ready, OnceEach
    <3>3. \A k \in DOMAIN s.MessageQueue : s.MessageQueue[k] \in DOMAIN s.g_msg_table
      BY DEF Ready
    <3>4. New(stored, sent, f.id)  BY <1>17, <2>2, <3>2, <3>3 DEF New, In
    <3>. QED  BY <1>3, <3>1, <3>4
  <2>. QED  BY <2>1, <2>2
<1>. QED  BY <1>1, <1>15, <1>16, <1>17, <1>18, <1>19, <1>21

LEMMA HandlerBonded ==
  ASSUME NEW W, Roomy, NEW n \in Node, NEW s, NEW sent, Ready(n, s, sent), s.mode # "off",
         Bonded(n, s, W), NEW f, Arrives(n, s, f, W),
         NEW t, t = rcv_handler(s, n, f)
  PROVE  Bonded(n, t, W)
<1>. DEFINE stored  == Stored(n, s, f)
            handled == IF MessageType(f.content) = "MAINTENANCE"
                       THEN handle_maintenance_msg(stored, n, f.id) ELSE stored
<1>1. t = IF Again(s, f) THEN stored ELSE PassAck(handled, n, f)
  BY DEF rcv_handler, Stored, Again
<1>2. f \in Frame /\ Framed(n, f)  BY DEF Arrives
<1>3. /\ Ready(n, stored, sent) /\ Bonded(n, stored, W) /\ stored.mode # "off"
      /\ In(stored, f.id) /\ Body(stored.g_msg_table[f.id]) = FrameBody(f)
      /\ Uncut /\ Steady /\ f.ack_for # NO_ID =>
           In(stored, f.ack_for) /\ Leading(stored.g_msg_table[f.id], W)
      /\ ~ Again(s, f) => /\ New(stored, sent, f.id)
                          /\ f.ack_for = NO_ID => stored.g_msg_table[f.id].steps >= 1
  BY StoredBonded
<1>. HIDE DEF stored
<1>4. stored.g_msg_table[f.id].ack_for = f.ack_for  BY <1>3 DEF Body, FrameBody
<1>5. CASE Again(s, f)  BY <1>1, <1>3, <1>5
<1>6. CASE ~ Again(s, f)
  <2>1. t = PassAck(handled, n, f)  BY <1>1, <1>6
  <2>2. /\ New(stored, sent, f.id) /\ f.id \in DOMAIN stored.g_msg_table
        /\ stored.g_msg_table[f.id].ack_for = NO_ID => stored.g_msg_table[f.id].steps >= 1
        /\ Uncut /\ Steady /\ stored.g_msg_table[f.id].ack_for # NO_ID =>
             /\ In(stored, stored.g_msg_table[f.id].ack_for)
             /\ Leading(stored.g_msg_table[f.id], W)
    BY <1>3, <1>4, <1>6 DEF In
  <2>3. Ready(n, handled, sent) /\ Learns(n, stored, handled) /\ Bonded(n, handled, W)
    <3>1. CASE handled = stored
      <4>1. stored \in NodeRecord  BY <1>3 DEF Ready
      <4>. QED  BY <1>3, <3>1, <4>1, LearnsSame
    <3>2. CASE handled = handle_maintenance_msg(stored, n, f.id)
      <4>. HIDE DEF handled
      <4>1. Ready(n, handled, sent) /\ Learns(n, stored, handled)
        BY <1>3, <2>2, <3>2, HandleReady
      <4>2. Bonded(n, handled, W)  BY <1>3, <2>2, <3>2, HandleBonded
      <4>. QED  BY <4>1, <4>2
    <3>. QED  BY <3>1, <3>2
  <2>. HIDE DEF handled
  <2>4. handled.mode # "off"  BY <1>3, <2>3, LearnsMode
  <2>5. In(handled, f.id) /\ Body(handled.g_msg_table[f.id]) = FrameBody(f)
    BY <1>3, <2>3 DEF Learns, In, Stamp, Body
  <2>6. Uncut /\ Steady /\ f.ack_for # NO_ID => In(handled, f.ack_for)
    BY <1>3, <2>3 DEF Learns, In
  <2>. QED  BY <1>2, <2>1, <2>3, <2>4, <2>5, <2>6, PassAckBonded
<1>. QED  BY <1>5, <1>6

----------------------------------------------------------------------------
(* A node with nothing in memory, and one that has just booted.            *)

LEMMA EmptyBonded ==
  ASSUME NEW W, NEW n, NEW s, s.router = create_router(0), s.link_enabled = [m \in Node |-> TRUE],
         DOMAIN s.g_msg_table = {}, s.MessageQueue = << >>, s.mode # "panic",
         Uncut /\ Steady => \A d \in Node : <<n, d>> \notin W
  PROVE  Bonded(n, s, W)
<1>1. \A m \in Node : s.link_enabled[m] = TRUE  OBVIOUS
<1>2. Knows(n, s.router, s.link_enabled, W)  BY <1>1, CreateKnows
<1>3. DOMAIN s.MessageQueue = {}  OBVIOUS
<1>. QED  BY <1>2, <1>3 DEF Bonded

LEMMA OffBonded ==
  ASSUME NEW W, NEW n, Uncut /\ Steady => \A d \in Node : <<n, d>> \notin W
  PROVE  Bonded(n, Off, W)
<1>1. /\ Off.router = create_router(0) /\ Off.link_enabled = [m \in Node |-> TRUE]
      /\ DOMAIN Off.g_msg_table = {} /\ Off.MessageQueue = << >> /\ Off.mode # "panic"
  BY DEF Off
<1>. QED  BY <1>1, EmptyBonded

(* A message of the node's own, queued.                                    *)
LEMMA OwnBonded ==
  ASSUME NEW W, NEW n \in Node, NEW s, NEW sent, Ready(n, s, sent), s.mode # "off", Bonded(n, s, W),
         NEW content \in Content, content \notin Responses, Uncut => content # "unlink",
         NEW dst \in Node \cup {NO_ID}, NEW target \in Node \cup {NO_ID},
         NEW use_router \in BOOLEAN,
         NEW u, u = create_data_object(s, n, content, {}, dst, NO_ID),
         NEW t, t = queue_send(u, LastId(n, u), target, use_router)
  PROVE  Bonded(n, t, W)
<1>. DEFINE new == LastId(n, u)
            own == OwnEntry(n, content, {}, dst, NO_ID)
            final == Hop(u, target, use_router)
<1>1. s \in NodeRecord  BY DEF Ready
<1>2. /\ {} \in SUBSET Pair /\ NO_ID \in Id \cup {NO_ID}
      /\ (NO_ID = NO_ID <=> content \notin Responses)
  OBVIOUS
<1>3. Honest(content, {}, dst, n, NO_ID)  BY DEF Honest
<1>4. NO_ID # NO_ID /\ dst = n => In(s, NO_ID) /\ s.g_msg_table[NO_ID].content = "gbcast"
  OBVIOUS
<1>5. Ready(n, u, sent) /\ Learns(n, s, u)  BY <1>2, CreateReady
<1>6. Bonded(n, u, W)
  <2>1. \A p \in {} : Leads(s.router, p.destination_node)  OBVIOUS
  <2>. QED  BY <1>2, <1>3, <1>4, <2>1, CreateBonded
<1>7. Created(n, s, u, own)  BY <1>1, <1>2, CreateEffect
<1>8. new \in DOMAIN u.g_msg_table /\ u.g_msg_table[new] = own  BY <1>7 DEF Created
<1>. HIDE DEF new, final
<1>9. FitsVia(u, new, final)
  <2>. DEFINE x == [u.g_msg_table[new] EXCEPT !.target_node = final]
  <2>1. x.content = content /\ x.ack_for = NO_ID /\ x.steps = 0  BY <1>8 DEF OwnEntry
  <2>2. ~ Settles(content)  BY DEF Responses, Settles
  <2>. HIDE DEF x
  <2>3. Fit(u, x)  BY <2>1, <2>2 DEF Fit
  <2>. QED  BY <2>3 DEF FitsVia, x
<1>. QED  BY <1>5, <1>6, <1>8, <1>9, QueueBonded DEF new, final

LEMMA BootedBonded ==
  ASSUME NEW W, NEW n \in Node, Uncut /\ Steady => \A d \in Node : <<n, d>> \notin W,
         NEW drawn \in Nat, NEW t, t = Booted(n, drawn)
  PROVE  Bonded(n, t, W)
<1>. DEFINE s == Started(n, drawn)
            u == create_data_object(s, n, "gbcast", {}, BROADCAST_ID, NO_ID)
<1>1. t = queue_send(u, LastId(n, u), BROADCAST_ID, FALSE)  BY DEF Booted, Started
<1>. HIDE DEF s
<1>2. Ready(n, s, {}) /\ StartedFields(n, s, drawn)  BY StartedReady DEF s
<1>3. s.mode # "off" /\ s.mode # "panic"  BY <1>2 DEF StartedFields
<1>4. Bonded(n, s, W)  BY <1>2, <1>3, EmptyBonded DEF StartedFields
<1>5. /\ "gbcast" \in Content /\ "gbcast" \notin Responses /\ "gbcast" # "unlink"
      /\ BROADCAST_ID \in Node \cup {NO_ID} /\ FALSE \in BOOLEAN
  BY DEF Content, Commands, Responses, BROADCAST_ID
<1>. HIDE DEF u
<1>. QED  BY <1>1, <1>2, <1>3, <1>4, <1>5, OwnBonded DEF u

----------------------------------------------------------------------------
(* The mesh.                                                               *)

(* What node n gained in a step came from a node that has it.              *)
Gained(n, s, t) ==
  /\ \A id \in DOMAIN s.g_msg_table :
       In(t, id) /\ Stamp(t.g_msg_table[id]) = Stamp(s.g_msg_table[id])
  /\ \A id \in DOMAIN t.g_msg_table \ DOMAIN s.g_msg_table :
       t.g_msg_table[id].src_node = n \/ In(node[t.g_msg_table[id].src_node], id)
  /\ s.mode # "off" => t.mode # "off"

(* A frame of a message its sender has, and of an answer to one that m     *)
(* has; there are ways where it says so.                                   *)
FrameTraced(m, f) ==
  /\ In(node[f.from], f.id)
  /\ f.ack_for # NO_ID => In(node[m], f.ack_for)
  /\ FrameLed(f, Ways)

LEMMA TracedStep ==
  ASSUME Sane, Traced, NEW n \in Node, NEW t \in NodeRecord, node' = [node EXCEPT ![n] = t],
         Gained(n, node[n], t), rx' \in [Node -> Seq(Frame)],
         \A m \in Node : \A k \in DOMAIN rx'[m] : FrameTraced(m, rx'[m][k])
  PROVE  Traced'
<1>1. node \in [Node -> NodeRecord] /\ node'[n] = t /\ \A m \in Node \ {n} : node'[m] = node[m]
  BY DEF Sane, Types
<1>2. ASSUME NEW m \in Node, NEW id, In(node[m], id) PROVE In(node'[m], id)
  <2>1. CASE m = n  BY <1>1, <1>2, <2>1 DEF Gained, In
  <2>2. CASE m # n  BY <1>1, <1>2, <2>2
  <2>. QED  BY <2>1, <2>2
<1>3. ASSUME NEW m \in Node, NEW id \in DOMAIN node'[m].g_msg_table
      PROVE  In(node'[node'[m].g_msg_table[id].src_node], id)
  <2>. DEFINE src == node'[m].g_msg_table[id].src_node
  <2>1. src \in Node
    <3>1. node'[m] \in NodeRecord  BY <1>1
    <3>. QED  BY <1>3, <3>1, EntryType DEF DataEntry
  <2>2. CASE id \in DOMAIN node[m].g_msg_table
    <3>1. src = node[m].g_msg_table[id].src_node
      <4>1. CASE m = n  BY <1>1, <2>2, <4>1 DEF Gained, Stamp
      <4>2. CASE m # n  BY <1>1, <4>2
      <4>. QED  BY <4>1, <4>2
    <3>2. In(node[src], id)  BY <2>2, <3>1 DEF Traced
    <3>. HIDE DEF src
    <3>. QED  BY <1>2, <2>1, <3>2 DEF src
  <2>3. CASE id \notin DOMAIN node[m].g_msg_table
    <3>1. m = n  BY <1>1, <1>3, <2>3
    <3>2. src = n \/ In(node[src], id)  BY <1>1, <1>3, <2>3, <3>1 DEF Gained
    <3>3. In(node'[n], id)  BY <1>3, <3>1 DEF In
    <3>. HIDE DEF src
    <3>. QED  BY <1>2, <2>1, <3>2, <3>3 DEF src
  <2>. QED  BY <2>2, <2>3
<1>4. ASSUME NEW m \in Node, NEW k \in DOMAIN rx'[m]
      PROVE  /\ In(node'[rx'[m][k].from], rx'[m][k].id)
             /\ rx'[m][k].ack_for # NO_ID => In(node'[m], rx'[m][k].ack_for)
  <2>. DEFINE f == rx'[m][k]
  <2>1. f \in Frame /\ FrameTraced(m, f)  BY <1>4
  <2>2. f.from \in Node  BY <2>1 DEF Frame
  <2>. HIDE DEF f
  <2>3. In(node'[f.from], f.id) /\ (f.ack_for # NO_ID => In(node'[m], f.ack_for))
    BY <1>2, <2>1, <2>2 DEF FrameTraced
  <2>. QED  BY <2>3 DEF f
<1>. QED  BY <1>3, <1>4 DEF Traced

LEMMA BondedAnew ==
  ASSUME NEW n, NEW s, NEW W, NEW V, Bonded(n, s, W), Uncut /\ Steady => W \subseteq V,
         \A d \in Node : <<n, d>> \in V => Leads(s.router, d)
  PROVE  Bonded(n, s, V)
BY DEF Bonded, Knows, Guided, SlotGuides, Way

LEMMA WovenStep ==
  ASSUME Woven, Sane', NEW n \in Node, NEW t \in NodeRecord, node' = [node EXCEPT ![n] = t],
         Bonded(n, t, Ways), rx' \in [Node -> Seq(Frame)],
         \A m \in Node : \A k \in DOMAIN rx'[m] : Framed(m, rx'[m][k]),
         Uncut /\ Steady =>
           /\ Gained(n, node[n], t)
           /\ \A m \in Node : \A k \in DOMAIN rx'[m] : FrameTraced(m, rx'[m][k])
  PROVE  Woven'
<1>1. node \in [Node -> NodeRecord]  BY DEF Woven, Sane, Types
<1>2. ASSUME NEW m \in Node PROVE Bonded(m, node'[m], Ways)
  <2>1. CASE m = n  BY <1>1, <2>1
  <2>2. CASE m # n  BY <1>1, <2>2 DEF Woven
  <2>. QED  BY <2>1, <2>2
<1>3. ASSUME Uncut, Steady PROVE Traced'
  BY <1>3, TracedStep DEF Woven
<1>4. ASSUME Uncut, Steady PROVE Ways \subseteq Ways'
  <2>. SUFFICES ASSUME NEW m \in Node, NEW d \in Node, <<m, d>> \in Ways
                PROVE  node'[m].mode = "up" /\ Leads(node'[m].router, d)
    BY DEF Ways, Up
  <2>1. Leads(node'[m].router, d) /\ node'[m].mode # "panic"
    BY <1>2, <1>4 DEF Bonded, Knows, Guided
  <2>2. node[m].mode = "up"  BY DEF Ways, Up
  <2>3. node'[m].mode # "off"
    <3>1. CASE m = n  BY <1>1, <1>4, <2>2, <3>1 DEF Gained
    <3>2. CASE m # n  BY <1>1, <2>2, <3>2
    <3>. QED  BY <3>1, <3>2
  <2>4. node'[m] \in NodeRecord  BY <1>1
  <2>. QED  BY <2>1, <2>3, <2>4 DEF NodeRecord
<1>5. ASSUME NEW m \in Node PROVE Bonded(m, node'[m], Ways')
  <2>1. Bonded(m, node'[m], Ways)  BY <1>2
  <2>2. \A d \in Node : <<m, d>> \in Ways' => Leads(node'[m].router, d)  BY DEF Ways
  <2>. QED  BY <1>4, <2>1, <2>2, BondedAnew
<1>6. ASSUME Uncut, Steady, NEW m \in Node, NEW k \in DOMAIN rx'[m]
      PROVE  FrameLed(rx'[m][k], Ways')
  <2>1. FrameLed(rx'[m][k], Ways)  BY <1>6 DEF FrameTraced
  <2>. QED  BY <1>4, <1>6, <2>1 DEF FrameLed, Way
<1>. QED  BY <1>3, <1>5, <1>6 DEF Woven

(* What is on the air.                                                     *)
LEMMA AirFramed ==
  ASSUME Woven, NEW m \in Node, NEW k \in DOMAIN rx[m]
  PROVE  Framed(m, rx[m][k]) /\ (Uncut /\ Steady => FrameTraced(m, rx[m][k]))
BY DEF Woven, Traced, FrameTraced

(* A task other than the receive handler makes node n into t.              *)
LEMMA BecomeWoven ==
  ASSUME Woven, Sane', NEW n \in Node, NEW t, Become(n, t), Ready(n, t, flooded[n]),
         Learns(n, node[n], t), Bonded(n, t, Ways)
  PROVE  Woven'
<1>1. node' = [node EXCEPT ![n] = t] /\ rx' = rx  BY DEF Become
<1>2. t \in NodeRecord  BY DEF Ready
<1>3. rx' \in [Node -> Seq(Frame)]  BY <1>1 DEF Woven, Sane, Types
<1>4. Gained(n, node[n], t)  BY DEF Gained, Learns
<1>. QED  BY <1>1, <1>2, <1>3, <1>4, AirFramed, WovenStep

LEMMA OriginateWoven ==
  ASSUME Woven, Sane', NEW n \in Node, Up(n), NEW s,
         Ready(n, s, flooded[n]), Learns(n, node[n], s), Bonded(n, s, Ways),
         NEW content \in Content, content \notin Responses \cup {"gbcast"},
         Uncut => content # "unlink",
         NEW dst \in Node \cup {NO_ID}, NEW target \in Node \cup {NO_ID},
         NEW use_router \in BOOLEAN, Originate(n, s, content, dst, target, use_router)
  PROVE  Woven'
<1>. DEFINE u == create_data_object(s, n, content, {}, dst, NO_ID)
            t == queue_send(u, LastId(n, u), target, use_router)
<1>1. node[n].mode # "off"  BY DEF Up
<1>2. s.mode # "off"  BY <1>1, LearnsMode
<1>3. Ready(n, t, flooded[n]) /\ Learns(n, s, t)  BY <1>2, OriginateReady
<1>4. Become(n, t)  BY DEF Originate
<1>. HIDE DEF u
<1>5. Bonded(n, t, Ways)  BY <1>2, OwnBonded DEF u
<1>. HIDE DEF t
<1>6. node[n] \in NodeRecord /\ s \in NodeRecord /\ t \in NodeRecord
  BY <1>3 DEF Woven, Sane, Types, Ready
<1>7. Learns(n, node[n], t)  BY <1>3, <1>6, LearnsTwice
<1>. QED  BY <1>3, <1>4, <1>5, <1>7, BecomeWoven

LEMMA PingWoven ==
  ASSUME Woven, Sane', NEW n \in Node, NEW m \in Node, Ping(n, m)
  PROVE  Woven'
<1>. DEFINE s  == node[n]
            id == s.ping_id[m]
            u  == [s EXCEPT !.g_msg_table[id].ack_status = FALSE]
            t  == queue_send(u, id, m, TRUE)
            final == Hop(u, m, TRUE)
<1>1. s.mode = "up" /\ m \in DOMAIN s.ping_id /\ m # n /\ Become(n, t)
  BY DEF Ping, Up
<1>2. /\ Ready(n, s, flooded[n]) /\ s \in NodeRecord /\ s.mode # "off" /\ Bonded(n, s, Ways)
  BY <1>1 DEF Woven, Sane, Ready
<1>3. id \in DOMAIN s.g_msg_table /\ IsPing(s.g_msg_table[id])
  BY <1>1, <1>2 DEF Ready, In
<1>. HIDE DEF id
<1>4. FALSE \in BOOLEAN /\ TRUE \in BOOLEAN /\ m \in Node \cup {NO_ID}  OBVIOUS
<1>5. Ready(n, u, flooded[n]) /\ Learns(n, s, u)  BY <1>2, <1>3, <1>4, MarkReady
<1>6. Bonded(n, u, Ways)  BY <1>2, <1>3, <1>4, MarkBonded
<1>. HIDE DEF u
<1>7. id \in DOMAIN u.g_msg_table /\ IsPing(u.g_msg_table[id])
  BY <1>3, <1>5 DEF Learns, In, Stamp, IsPing
<1>8. u.mode # "off" /\ u \in NodeRecord  BY <1>2, <1>5, LearnsMode DEF Ready
<1>9. Ready(n, t, flooded[n]) /\ Learns(n, u, t)
  BY <1>4, <1>5, <1>7, <1>8, QueueReady DEF IsPing
<1>. HIDE DEF final
<1>10. FitsVia(u, id, final)
  <2>. DEFINE x == [u.g_msg_table[id] EXCEPT !.target_node = final]
  <2>1. u.g_msg_table[id] \in DataEntry  BY <1>7, <1>8, EntryType
  <2>2. EntryOk(n, id, u.g_msg_table[id])  BY <1>5, <1>7 DEF Ready
  <2>3. u.g_msg_table[id].ack_for = NO_ID  BY <1>7, <2>2 DEF EntryOk, IsPing, Responses
  <2>4. x.content = "ping" /\ x.ack_for = NO_ID /\ x.steps = 0
    BY <1>7, <2>1, <2>3 DEF IsPing, DataEntry
  <2>. HIDE DEF x
  <2>5. Fit(u, x)  BY <2>4 DEF Fit, Settles
  <2>. QED  BY <2>5 DEF FitsVia, x
<1>11. Bonded(n, t, Ways)  BY <1>4, <1>5, <1>6, <1>7, <1>10, QueueBonded DEF final
<1>. HIDE DEF t
<1>12. Learns(n, s, t)
  <2>1. t \in NodeRecord  BY <1>9 DEF Ready
  <2>. QED  BY <1>2, <1>5, <1>8, <1>9, <2>1, LearnsTwice
<1>. QED  BY <1>1, <1>9, <1>11, <1>12, BecomeWoven

LEMMA BootWoven ==
  ASSUME Woven, Sane', NEW n \in Node, Boot(n)
  PROVE  Woven'
<1>. DEFINE t == Booted(n, 0)
<1>1. node[n].mode = "off" /\ node' = [node EXCEPT ![n] = t] /\ rx' = rx
  BY DEF Boot, Do
<1>. HIDE DEF t
<1>2. node[n] = Off  BY <1>1 DEF Woven, Sane, Ready
<1>3. Ready(n, t, {}) /\ Woke(n, t, 0)  BY BootedReady DEF t
<1>4. Bonded(n, t, Ways)
  <2>1. \A d \in Node : <<n, d>> \notin Ways  BY <1>1 DEF Ways, Up
  <2>2. 0 \in Nat  OBVIOUS
  <2>. QED  BY <2>1, <2>2, BootedBonded DEF t
<1>5. t \in NodeRecord  BY <1>3 DEF Ready
<1>6. rx' \in [Node -> Seq(Frame)]  BY <1>1 DEF Woven, Sane, Types
<1>7. Gained(n, node[n], t)  BY <1>2, <1>3, OffIsRecord DEF Gained, Woke
<1>. QED  BY <1>1, <1>4, <1>5, <1>6, <1>7, AirFramed, WovenStep

LEMMA RestartWoven ==
  ASSUME Woven, Sane', NEW n \in Node, Restart(n)
  PROVE  Woven'
<1>. DEFINE t == Booted(n, node[n].drawn)
<1>1. /\ node' = [node EXCEPT ![n] = t] /\ rx' = [rx EXCEPT ![n] = << >>]
      /\ [op |-> "restart", at |-> n, on |-> NO_ID] \in todo
  BY DEF Restart, Do
<1>. HIDE DEF t
<1>2. ~ Steady  BY <1>1 DEF Woven, Sane, Types, Steady
<1>3. node[n] \in NodeRecord  BY DEF Woven, Sane, Types
<1>4. node[n].drawn \in Nat  BY <1>3 DEF NodeRecord
<1>5. Ready(n, t, {})  BY <1>4, BootedReady DEF t
<1>6. Bonded(n, t, Ways)  BY <1>2, <1>4, BootedBonded DEF t
<1>7. t \in NodeRecord  BY <1>5 DEF Ready
<1>8. << >> \in Seq(Frame) /\ DOMAIN << >> = {}  OBVIOUS
<1>9. rx' \in [Node -> Seq(Frame)]  BY <1>1, <1>8 DEF Woven, Sane, Types
<1>10. ASSUME NEW m \in Node, NEW k \in DOMAIN rx'[m] PROVE Framed(m, rx'[m][k])
  <2>1. m # n  BY <1>1, <1>8, <1>10 DEF Woven, Sane, Types
  <2>2. rx'[m] = rx[m]  BY <1>1, <2>1 DEF Woven, Sane, Types
  <2>. QED  BY <1>10, <2>2, AirFramed
<1>. QED  BY <1>1, <1>2, <1>6, <1>7, <1>9, <1>10, WovenStep

(* The frame of an entry, at a node it is for.                             *)
FrameOf(n, id, e) ==
  [from |-> n, id |-> id, content |-> e.content, pairs |-> e.pairs,
   origin |-> e.origin_node, dst |-> e.dst_node, steps |-> e.steps, ack_for |-> e.ack_for]

LEMMA EntryFramed ==
  ASSUME NEW n \in Node, NEW s, NEW sent, Ready(n, s, sent),
         NEW id \in DOMAIN s.g_msg_table, NEW e, e = s.g_msg_table[id],
         Tied(n, s, e), Fit(s, e),
         NEW m \in Reach[n], e.target_node \in {BROADCAST_ID, m},
         NEW f, f = FrameOf(n, id, e)
  PROVE  Framed(m, f)
<1>1. s \in NodeRecord  BY DEF Ready
<1>2. e \in DataEntry /\ EntryOk(n, id, e)  BY <1>1, EntryType DEF Ready
<1>3. /\ f.from = n /\ f.id = id /\ f.content = e.content /\ f.pairs = e.pairs
      /\ f.origin = e.origin_node /\ f.dst = e.dst_node /\ f.steps = e.steps
      /\ f.ack_for = e.ack_for
  BY DEF FrameOf
<1>4. n # m  BY MeshAssumption
<1>5. EntryHonest(e)  BY DEF Tied
<1>6. Direct(e.content, e.ack_for) => n = e.origin_node  BY <1>2 DEF Fit, EntryOk
<1>7. ASSUME Settles(e.content) PROVE e.dst_node = m
  <2>1. e.ack_for # NO_ID  BY <1>2, <1>7 DEF EntryOk, Responses, Settles
  <2>2. e.ack_for \in Id /\ e.dst_node = e.ack_for[1]
    BY <1>2, <1>5, <2>1 DEF DataEntry, EntryHonest, Honest
  <2>3. e.dst_node \in Node  BY <2>2 DEF Id
  <2>4. e.target_node = e.dst_node  BY <1>7 DEF Fit
  <2>. QED  BY <2>3, <2>4, RoutingAssumption DEF BROADCAST_ID
<1>8. Symmetric => Near(n, e.origin_node, e.steps)  BY DEF Tied
<1>. QED  BY <1>3, <1>4, <1>5, <1>6, <1>7, <1>8 DEF Framed, EntryHonest

(* While no link is cut, an ack goes to a node that has what it acks, and  *)
(* whoever passes a message on has a way to its origin.                    *)
LEMMA EntryTraced ==
  ASSUME Woven, Uncut, Steady, NEW n \in Node, Up(n), NEW s, s = node[n],
         NEW id \in DOMAIN s.g_msg_table, NEW e, e = s.g_msg_table[id],
         Tied(n, s, e), Fit(s, e), NEW m \in Node, e.target_node \in {BROADCAST_ID, m},
         NEW f, f = FrameOf(n, id, e)
  PROVE  FrameTraced(m, f)
<1>1. s \in NodeRecord  BY DEF Woven, Sane, Types
<1>2. /\ f.from = n /\ f.id = id /\ f.ack_for = e.ack_for
      /\ f.origin = e.origin_node /\ f.pairs = e.pairs
  BY DEF FrameOf
<1>3. ASSUME e.ack_for # NO_ID PROVE In(node[m], e.ack_for)
  <2>. DEFINE a == s.g_msg_table[e.ack_for]
  <2>1. e.ack_for \in DOMAIN s.g_msg_table /\ e.target_node = a.src_node
    BY <1>3 DEF Fit, In
  <2>2. a.src_node \in Node  BY <1>1, <2>1, EntryType DEF DataEntry
  <2>3. a.src_node = m  BY <2>1, <2>2, RoutingAssumption DEF BROADCAST_ID
  <2>4. In(node[a.src_node], e.ack_for)  BY <2>1 DEF Woven, Traced
  <2>. QED  BY <2>3, <2>4
<1>4. FrameLed(f, Ways)
  <2>1. e \in DataEntry  BY <1>1, EntryType
  <2>2. EntryOk(n, id, e)  BY DEF Woven, Sane, Ready
  <2>3. e.origin_node \in Node /\ e.steps \in Nat /\ \A p \in e.pairs : p.destination_node \in Node
    BY <2>1 DEF DataEntry
  <2>4. \A d \in Node : Leads(s.router, d) => <<n, d>> \in Ways  BY DEF Ways
  <2>5. CASE e.steps = 0
    <3>1. e.origin_node = n  BY <2>2, <2>5 DEF EntryOk
    <3>2. \A p \in e.pairs : Leads(s.router, p.destination_node)  BY <2>5 DEF Tied
    <3>. QED  BY <1>2, <2>3, <2>4, <3>1, <3>2 DEF FrameLed, Way
  <2>6. CASE e.steps >= 1
    <3>1. Leads(s.router, e.origin_node)  BY <2>6 DEF Tied
    <3>2. e.pairs = {}
      <4>1. e.pairs # {} => Direct(e.content, e.ack_for)
        BY DEF Tied, EntryHonest, Honest, Direct, Settles
      <4>. QED  BY <2>3, <2>6, <4>1 DEF Fit
    <3>. QED  BY <1>2, <2>3, <2>4, <3>1, <3>2 DEF FrameLed, Way
  <2>. QED  BY <2>3, <2>5, <2>6
<1>. QED  BY <1>2, <1>3, <1>4 DEF FrameTraced, In

LEMMA TransmitWoven ==
  ASSUME Woven, Sane', NEW n \in Node, Transmit(n)
  PROVE  Woven'
<1>. DEFINE s  == node[n]
            id == Head(s.MessageQueue)
            e  == s.g_msg_table[id]
            f  == FrameOf(n, id, e)
            t  == [s EXCEPT !.MessageQueue = Tail(s.MessageQueue)]
            heard == {m \in Reach[n] : Up(m) /\ e.target_node \in {BROADCAST_ID, m}}
<1>1. s.mode = "up" /\ s.MessageQueue # << >> /\ node' = [node EXCEPT ![n] = t]
  BY DEF Transmit, Sends, Up
<1>2. PICK D \in SUBSET heard :
        rx' = [m \in Node |-> IF m \in D THEN Append(rx[m], f) ELSE rx[m]]
  <2>1. \E D \in IF Lossy THEN SUBSET heard ELSE {heard} :
          rx' = [m \in Node |-> IF m \in D THEN Append(rx[m], f) ELSE rx[m]]
    BY DEF Transmit, FrameOf
  <2>. HIDE DEF heard, f
  <2>. QED  BY <2>1
<1>3. s \in NodeRecord /\ s.MessageQueue \in Seq(DOMAIN s.g_msg_table)
      /\ Ready(n, s, flooded[n]) /\ Bonded(n, s, Ways)
  BY DEF Woven, Sane, Ready
<1>4. id \in DOMAIN s.g_msg_table /\ 1 \in DOMAIN s.MessageQueue /\ s.MessageQueue[1] = id
  BY <1>1, <1>3
<1>5. Tied(n, s, e) /\ Fit(s, e)  BY <1>3, <1>4 DEF Bonded
<1>6. ASSUME NEW m \in D
      PROVE  m \in Node /\ Framed(m, f) /\ (Uncut /\ Steady => FrameTraced(m, f))
  <2>1. m \in Reach[n] /\ e.target_node \in {BROADCAST_ID, m} /\ m \in Node
    BY MeshAssumption
  <2>. HIDE DEF s, id, e, f, heard
  <2>2. Framed(m, f)  BY <1>3, <1>4, <1>5, <2>1, EntryFramed DEF e, f
  <2>3. Uncut /\ Steady => FrameTraced(m, f)
    BY <1>1, <1>4, <1>5, <2>1, EntryTraced DEF Up, s, e, f
  <2>. QED  BY <2>1, <2>2, <2>3
<1>7. rx \in [Node -> Seq(Frame)] /\ rx' \in [Node -> Seq(Frame)]  BY DEF Woven, Sane, Types
<1>. HIDE DEF f, heard
<1>8. ASSUME NEW m \in Node, NEW k \in DOMAIN rx'[m]
      PROVE  Framed(m, rx'[m][k]) /\ (Uncut /\ Steady => FrameTraced(m, rx'[m][k]))
  <2>1. CASE m \notin D
    <3>1. rx'[m] = rx[m]  BY <1>2, <2>1
    <3>. QED  BY <1>8, <3>1, AirFramed
  <2>2. CASE m \in D
    <3>1. rx[m] \in Seq(Frame) /\ rx'[m] = Append(rx[m], f)  BY <1>2, <1>7, <2>2
    <3>2. \/ k \in DOMAIN rx[m] /\ rx'[m][k] = rx[m][k]
          \/ rx'[m][k] = f
      BY <1>8, <3>1
    <3>. QED  BY <1>6, <2>2, <3>2, AirFramed
  <2>. QED  BY <2>1, <2>2
<1>9. Taken(s.MessageQueue, Tail(s.MessageQueue), DOMAIN s.g_msg_table)
  BY <1>1, <1>3, TailIs
<1>10. /\ t \in NodeRecord /\ t.g_msg_table = s.g_msg_table /\ t.mode = s.mode
       /\ t.router = s.router /\ t.link_enabled = s.link_enabled
       /\ t.MessageQueue = Tail(s.MessageQueue)
  <2>1. Tail(s.MessageQueue) \in Seq(Id)  BY <1>1, <1>3 DEF NodeRecord
  <2>. QED  BY <1>3, <2>1 DEF NodeRecord
<1>11. Bonded(n, t, Ways)
  <2>. HIDE DEF t
  <2>1. ASSUME NEW x, Tied(n, s, x) PROVE Tied(n, t, x)
    BY <1>10, <2>1 DEF Tied, In
  <2>2. ASSUME NEW x, Fit(s, x) PROVE Fit(t, x)  BY <1>10, <2>2 DEF Fit, In
  <2>3. \A k \in DOMAIN t.MessageQueue : Fit(s, t.g_msg_table[t.MessageQueue[k]])
    BY <1>3, <1>9, <1>10 DEF Taken, Bonded
  <2>4. \A x \in DOMAIN t.g_msg_table : Tied(n, s, t.g_msg_table[x])
    BY <1>3, <1>10 DEF Bonded
  <2>. QED  BY <1>3, <1>10, <2>1, <2>2, <2>3, <2>4 DEF Bonded
<1>12. Gained(n, s, t)  BY <1>10 DEF Gained, In
<1>. HIDE DEF t
<1>. QED  BY <1>1, <1>7, <1>8, <1>10, <1>11, <1>12, WovenStep

LEMMA ReceiveWoven ==
  ASSUME Roomy, Woven, Sane', NEW n \in Node, Receive(n)
  PROVE  Woven'
<1>. DEFINE s == node[n]
            f == Head(rx[n])
            t == rcv_handler(s, n, f)
<1>1. /\ s.mode = "up" /\ rx[n] # << >> /\ rx' = [rx EXCEPT ![n] = Tail(@)]
      /\ node' = [node EXCEPT ![n] = t]
  BY DEF Receive, Takes, Up
<1>2. Sane  BY DEF Woven
<1>3. /\ f \in Frame /\ FrameOk(f)
      /\ f.id[1] = n => f.id[2] \in 1 .. s.drawn
      /\ In(s, f.id) => Body(s.g_msg_table[f.id]) = FrameBody(f)
  BY <1>1, <1>2, HeadArrives
<1>4. rx \in [Node -> Seq(Frame)] /\ rx' \in [Node -> Seq(Frame)]  BY DEF Woven, Sane, Types
<1>5. Taken(rx[n], Tail(rx[n]), Frame)  BY <1>1, <1>4, TailIs
<1>6. Framed(n, f) /\ (Uncut /\ Steady => FrameTraced(n, f))
  BY <1>5, AirFramed DEF Taken
<1>. HIDE DEF f
<1>7. Arrives(n, s, f, Ways)  BY <1>3, <1>6 DEF Arrives, FrameTraced
<1>8. Ready(n, s, flooded[n]) /\ s.mode # "off" /\ Bonded(n, s, Ways)
  BY <1>1 DEF Woven, Sane
<1>9. Ready(n, t, flooded[n]) /\ Handles(n, s, t, f)  BY <1>3, <1>8, HandlerReady
<1>10. Bonded(n, t, Ways)  BY <1>7, <1>8, HandlerBonded
<1>. HIDE DEF t
<1>11. t \in NodeRecord  BY <1>9 DEF Ready
<1>12. Uncut /\ Steady => Gained(n, s, t)
  BY <1>6, <1>9 DEF Gained, Handles, FrameTraced
<1>13. ASSUME NEW m \in Node, NEW k \in DOMAIN rx'[m]
       PROVE  Framed(m, rx'[m][k]) /\ (Uncut /\ Steady => FrameTraced(m, rx'[m][k]))
  <2>1. CASE m = n
    <3>1. k + 1 \in DOMAIN rx[n] /\ rx'[m][k] = rx[n][k + 1]
      BY <1>1, <1>4, <1>5, <1>13, <2>1 DEF Taken
    <3>. QED  BY <2>1, <3>1, AirFramed
  <2>2. CASE m # n
    <3>1. rx'[m] = rx[m]  BY <1>1, <1>4, <2>2
    <3>. QED  BY <1>13, <3>1, AirFramed
  <2>. QED  BY <2>1, <2>2
<1>. QED  BY <1>1, <1>4, <1>10, <1>11, <1>12, <1>13, WovenStep

LEMMA BootedKnows ==
  ASSUME NEW n, NEW drawn
  PROVE  Known(Booted(n, drawn).router) = {}
<1>1. Booted(n, drawn).router = create_router(0)
  BY DEF Booted, create_data_object, queue_send, Off
<1>. QED  BY <1>1 DEF create_router, Known

LEMMA WovenInit == Init => Woven
<1>. SUFFICES ASSUME Init PROVE Woven  OBVIOUS
<1>1. Sane  BY SaneInit
<1>2. \A m \in Node : DOMAIN rx[m] = {}  BY DEF Init
<1>3. ASSUME NEW n \in Node, NEW d \in Node PROVE <<n, d>> \notin Ways
  <2>1. CASE n \notin Quiet
    <3>1. node[n] = Off  BY <2>1 DEF Init
    <3>. QED  BY <3>1, OffIsRecord DEF Ways, Up, Off
  <2>2. CASE n \in Quiet
    <3>. DEFINE b == Booted(n, 0)
    <3>1. node[n] = [b EXCEPT !.MessageQueue = << >>]  BY <2>2 DEF Init
    <3>. HIDE DEF b
    <3>2. b \in NodeRecord  BY BootedReady DEF b, Ready
    <3>3. node[n].router = b.router  BY <3>1, <3>2 DEF NodeRecord
    <3>4. Known(b.router) = {}  BY BootedKnows DEF b
    <3>. QED  BY <3>3, <3>4 DEF Ways, Leads
  <2>. QED  BY <2>1, <2>2
<1>4. ASSUME NEW n \in Node
      PROVE  /\ Bonded(n, node[n], Ways)
             /\ \A id \in DOMAIN node[n].g_msg_table : node[n].g_msg_table[id].src_node = n
  <2>1. CASE n \notin Quiet
    <3>1. node[n] = Off  BY <2>1 DEF Init
    <3>. QED  BY <1>3, <3>1, OffBonded, OffIsRecord
  <2>2. CASE n \in Quiet
    <3>. DEFINE b == Booted(n, 0)
    <3>1. node[n] = [b EXCEPT !.MessageQueue = << >>]  BY <2>2 DEF Init
    <3>. HIDE DEF b
    <3>2. Ready(n, b, {}) /\ Woke(n, b, 0)  BY BootedReady DEF b
    <3>3. Bonded(n, b, Ways)
      <4>1. 0 \in Nat  OBVIOUS
      <4>. QED  BY <1>3, <4>1, BootedBonded DEF b
    <3>4. b \in NodeRecord  BY <3>2 DEF Ready
    <3>5. /\ node[n].g_msg_table = b.g_msg_table /\ node[n].mode = b.mode
          /\ node[n].router = b.router /\ node[n].link_enabled = b.link_enabled
          /\ node[n].MessageQueue = << >>
      BY <3>1, <3>4 DEF NodeRecord
    <3>6. DOMAIN node[n].MessageQueue = {}  BY <3>5
    <3>7. Bonded(n, node[n], Ways)  BY <3>3, <3>5, <3>6 DEF Bonded, Tied, In
    <3>. QED  BY <3>2, <3>5, <3>7 DEF Woke
  <2>. QED  BY <2>1, <2>2
<1>5. Traced  BY <1>2, <1>4 DEF Traced, In
<1>. QED  BY <1>1, <1>2, <1>4, <1>5 DEF Woven

LEMMA WovenNext == Roomy /\ Woven /\ [Next]_vars => Woven'
<1>. SUFFICES ASSUME Roomy, Woven, [Next]_vars PROVE Woven'  OBVIOUS
<1>1. Sane'  BY SaneNext DEF Woven
<1>2. ASSUME NEW n \in Node
      PROVE  /\ node[n] \in NodeRecord /\ Ready(n, node[n], flooded[n])
             /\ Learns(n, node[n], node[n]) /\ Bonded(n, node[n], Ways)
  <2>1. node[n] \in NodeRecord  BY DEF Woven, Sane, Types
  <2>. QED  BY <2>1, LearnsSame DEF Woven, Sane
<1>3. ASSUME NEW n \in Node, Transmit(n) PROVE Woven'  BY <1>1, <1>3, TransmitWoven
<1>4. ASSUME NEW n \in Node, Receive(n) PROVE Woven'  BY <1>1, <1>4, ReceiveWoven
<1>5. ASSUME NEW n \in Node, Boot(n) PROVE Woven'  BY <1>1, <1>5, BootWoven
<1>6. ASSUME NEW n \in Node, Restart(n) PROVE Woven'  BY <1>1, <1>6, RestartWoven
<1>7. ASSUME NEW n \in Node, rquery_task(n) PROVE Woven'
  <2>1. Up(n) /\ Originate(n, node[n], "rquery", BROADCAST_ID, BROADCAST_ID, FALSE)
    BY <1>7 DEF rquery_task
  <2>2. "rquery" # "unlink"  OBVIOUS
  <2>. QED  BY <1>1, <1>2, <2>1, <2>2, ContentsAre, OriginateWoven
<1>8. ASSUME NEW n \in Node, NEW m \in Node, Ping(n, m) PROVE Woven'
  BY <1>1, <1>8, PingWoven
<1>9. ASSUME NEW n \in Node, NEW m \in Node, SysUnlink(n, m) PROVE Woven'
  <2>1. /\ Up(n) /\ Originate(n, node[n], "unlink", m, m, FALSE)
        /\ [op |-> "unlink", at |-> n, on |-> m] \in todo
    BY <1>9 DEF SysUnlink, Do
  <2>2. ~ Uncut  BY <2>1 DEF Woven, Sane, Types, Uncut
  <2>. QED  BY <1>1, <1>2, <2>1, <2>2, ContentsAre, OriginateWoven
<1>10. ASSUME NEW n \in Node, NEW m \in Node, SysLink(n, m) PROVE Woven'
  <2>. DEFINE s == SetNeighborLink(node[n], m, TRUE)
  <2>1. Up(n) /\ Originate(n, s, "link", m, m, FALSE)  BY <1>10 DEF SysLink
  <2>2. node[n].mode # "off"  BY <2>1 DEF Up
  <2>3. Ready(n, s, flooded[n]) /\ Learns(n, node[n], s)
    BY <1>2, <2>2, SetNeighborLinkReady
  <2>4. TRUE \in BOOLEAN /\ "link" # "unlink"  OBVIOUS
  <2>. HIDE DEF s
  <2>5. Bonded(n, s, Ways)  BY <1>2, <2>4, SetNeighborLinkBonded DEF s
  <2>. QED  BY <1>1, <2>1, <2>3, <2>4, <2>5, ContentsAre, OriginateWoven
<1>11. ASSUME NEW n \in Node, NEW m \in Node \cup {NO_ID}, Post(n, m) PROVE Woven'
  <2>1. Up(n) /\ Originate(n, node[n], "chat", m, m, TRUE)  BY <1>11 DEF Post
  <2>2. "chat" # "unlink"  OBVIOUS
  <2>. QED  BY <1>1, <1>2, <2>1, <2>2, ContentsAre, OriginateWoven
<1>12. ASSUME UNCHANGED vars PROVE Woven'
  <2>1. Ways' = Ways  BY <1>12 DEF vars, Ways, Up
  <2>. QED  BY <1>1, <1>12, <2>1 DEF vars, Woven, Traced
<1>. QED
  BY <1>3, <1>4, <1>5, <1>6, <1>7, <1>8, <1>9, <1>10, <1>11, <1>12 DEF Next

LEMMA SpecWoven == Roomy => (Spec => []Woven)
<1>. SUFFICES ASSUME Roomy PROVE Spec => []Woven  OBVIOUS
<1>1. Init => Woven  BY WovenInit
<1>2. Woven /\ [Next]_vars => Woven'  BY WovenNext
<1>. QED  BY <1>1, <1>2, PTL DEF Spec

----------------------------------------------------------------------------
(* Theorems.                                                               *)

(* Router and node table of every node tell the same about a direct link,  *)
(* whatever is lost, cut, relinked or restarted: an answer heard in        *)
(* between brings no cut link back (maintenance.c:122-125, 139-142,        *)
(* 154-157, 205-206, routing.c:342-354).                                   *)
THEOREM LinksMirrored == Roomy => (Spec => []LinkMirror)
<1>1. Woven => LinkMirror
  BY DEF Woven, Bonded, Knows, Sound, Mirrors, LinkMirror, Router
<1>. QED  BY <1>1, SpecWoven, PTL

(* If every node hears whom it reaches, no route ever promises fewer steps *)
(* than the shortest path has: each hop of a frame and of an answer adds   *)
(* one, and the best of many candidates is one of them                     *)
(* (lora_uart.c:298-300, routing.c:106-112, 344, 352-353).                 *)
THEOREM NeverUnderestimates == Roomy /\ Symmetric => (Spec => []NoUnderestimate)
<1>. SUFFICES ASSUME Roomy, Symmetric PROVE Spec => []NoUnderestimate  OBVIOUS
<1>1. Woven => NoUnderestimate
  <2>. SUFFICES ASSUME Woven, NEW n \in Node, NEW d \in Node, Routes(n, d)
                PROVE  Near(n, d, BestRoute(Router(n), d).steps)
    BY DEF NoUnderestimate
  <2>. DEFINE r == node[n].router
              slots == r.best_routing_info[d]
  <2>1. node[n] \in NodeRecord  BY DEF Woven, Sane, Types
  <2>2. r \in RouterType  BY <2>1 DEF NodeRecord
  <2>3. AllNear(n, r)  BY DEF Woven, Bonded, Knows
  <2>4. d \in Known(r) /\ Routed(r, d)  BY DEF Routes, Router
  <2>5. PICK j \in ActiveSlots(slots) : BestRoute(r, d) = slots[j]
    BY <2>2, <2>4, BestIsActive
  <2>6. j \in Slot /\ slots[j].in_use  BY DEF ActiveSlots
  <2>7. Near(n, d, slots[j].steps)  BY <2>3, <2>6 DEF AllNear, SlotsNear
  <2>. QED  BY <2>5, <2>7 DEF Router
<1>. QED  BY <1>1, SpecWoven, PTL

(* While no link is cut, every queued ack goes to the node that what it    *)
(* acks came from, at its origin and at every node that passes it on: that *)
(* node is a neighbour, and a neighbour is its own next hop                *)
(* (lora_uart.c:340-345, maintenance.c:58, 168).                           *)
THEOREM AcksRetraced == Roomy /\ Uncut => (Spec => []AcksRetrace)
<1>. SUFFICES ASSUME Roomy, Uncut PROVE Spec => []AcksRetrace  OBVIOUS
<1>1. Woven => AcksRetrace
  <2>. SUFFICES ASSUME Woven, NEW n \in Node, NEW k \in DOMAIN node[n].MessageQueue,
                       NEW e, e = Entries(n)[node[n].MessageQueue[k]],
                       e.ack_for \in DOMAIN Entries(n)
                PROVE  e.target_node = Entries(n)[e.ack_for].src_node
    BY DEF AcksRetrace
  <2>1. Fit(node[n], e)  BY DEF Woven, Bonded, Entries
  <2>2. e.ack_for # NO_ID
    <3>1. DOMAIN Entries(n) \subseteq Id
      <4>1. node[n] \in NodeRecord  BY DEF Woven, Sane, Types
      <4>. QED  BY <4>1, TableIs DEF NodeRecord, Entries
    <3>. QED  BY <3>1, MeshAssumption DEF Id
  <2>. QED  BY <2>1, <2>2 DEF Fit, Entries
<1>. QED  BY <1>1, SpecWoven, PTL

(* While no link is cut and no node restarts, no node dereferences NULL:   *)
(* a response only ever reaches nodes that have what it answers in their   *)
(* table, as it retraces a path of nodes that keep what they passed on     *)
(* (lora_uart.c:335-338, maintenance.c:60-62, 85-87, 103-105, 132-134).    *)
THEOREM NeverPanics == Roomy /\ Uncut /\ Steady => (Spec => []NoPanic)
<1>. SUFFICES ASSUME Roomy, Uncut, Steady PROVE Spec => []NoPanic  OBVIOUS
<1>1. Woven => NoPanic  BY DEF Woven, Bonded, NoPanic
<1>. QED  BY <1>1, SpecWoven, PTL

(* While no link is cut and no node restarts, the next hop of a route is   *)
(* its destination or a node that has a route to it itself: a frame comes  *)
(* from a node with a way to its origin, an answer speaks of ways its      *)
(* maker has, and nobody loses a way it had (routing.c:258-285, 342-354).  *)
THEOREM NextHopsKnow == Roomy /\ Uncut /\ Steady => (Spec => []NextHopKnows)
<1>. SUFFICES ASSUME Roomy, Uncut, Steady PROVE Spec => []NextHopKnows  OBVIOUS
<1>1. Woven => NextHopKnows
  <2>. SUFFICES ASSUME Woven, NEW n \in Node, NEW d \in Node, Routes(n, d)
                PROVE  NextHop(n, d) = d \/ Routes(NextHop(n, d), d)
    BY DEF NextHopKnows
  <2>. DEFINE r == node[n].router
              slots == r.best_routing_info[d]
  <2>1. node[n] \in NodeRecord  BY DEF Woven, Sane, Types
  <2>2. r \in RouterType  BY <2>1 DEF NodeRecord
  <2>3. Guided(n, r, Ways)  BY DEF Woven, Bonded, Knows
  <2>4. d \in Known(r) /\ Routed(r, d)  BY DEF Routes, Router
  <2>5. PICK j \in ActiveSlots(slots) : BestRoute(r, d) = slots[j]
    BY <2>2, <2>4, BestIsActive
  <2>. DEFINE via == slots[j].intermediate_node
  <2>6. NextHop(n, d) = via  BY <2>4, <2>5 DEF NextHop, Router, router_query_intermediate
  <2>7. via \in Node /\ Way(Ways, via, d)
    BY <2>3 DEF Guided, SlotGuides, ActiveSlots
  <2>. HIDE DEF via
  <2>8. <<via, d>> \in Ways => Routes(via, d)  BY <2>7 DEF Ways, Leads, Routes, Router
  <2>. QED  BY <2>6, <2>7, <2>8 DEF Way
<1>. QED  BY <1>1, SpecWoven, PTL

----------------------------------------------------------------------------
(* In a mesh without cycles following next hops never comes back, for any  *)
(* finite set of nodes, any loss of frames and any script without cuts and *)
(* restarts.                                                               *)
(*                                                                         *)
(* Exact is what the operators of the handler preserve of a node besides   *)
(* Bonded: every slot and every entry tells a true distance, and a node    *)
(* with any way to a destination has one by way of the closer neighbour.   *)
(* Straight is the invariant of the mesh.                                  *)

(* level says how far each node is from d: neighbours are one apart, and a *)
(* node has at most one neighbour that is closer.  (The farthest node of a *)
(* cycle would have two.)                                                  *)
Rooted(d, level) ==
  /\ level[d] = 0
  /\ \A n \in Node : \A m \in Reach[n] : level[m] = level[n] + 1 \/ level[n] = level[m] + 1
  /\ \A n \in Node : \A l, m \in Reach[n] :
       level[l] < level[n] /\ level[m] < level[n] => l = m

Acyclic == \A d \in Node : \E level \in [Node -> Nat] : Rooted(d, level)

Treed == Roomy /\ Symmetric /\ Uncut /\ Steady /\ Acyclic

Hops(n, d) == (CHOOSE level \in [Node -> Nat] : Rooted(d, level))[n]

Closer(m, n, d) == m \in Reach[n] /\ Hops(m, d) < Hops(n, d)

LEMMA HopsAre ==
  ASSUME Acyclic, NEW d \in Node
  PROVE  /\ Hops(d, d) = 0
         /\ \A n \in Node : Hops(n, d) \in Nat
         /\ \A n \in Node : \A m \in Reach[n] :
              m \in Node /\ (Hops(m, d) = Hops(n, d) + 1 \/ Hops(n, d) = Hops(m, d) + 1)
         /\ \A n \in Node : \A l, m : Closer(l, n, d) /\ Closer(m, n, d) => l = m
<1>. DEFINE level == CHOOSE level \in [Node -> Nat] : Rooted(d, level)
<1>1. level \in [Node -> Nat] /\ Rooted(d, level)  BY DEF Acyclic
<1>2. \A n : Hops(n, d) = level[n]  BY DEF Hops
<1>. HIDE DEF level
<1>3. \A n \in Node : Reach[n] \in SUBSET Node  BY MeshAssumption
<1>. QED  BY <1>1, <1>2, <1>3 DEF Rooted, Closer

(* Every slot is of a neighbour and tells its distance, and a destination  *)
(* that has any slot has one by way of the closer neighbour.               *)
SlotAligned(n, d, slot) ==
  slot.in_use =>
    slot.intermediate_node \in Reach[n] /\ slot.steps = Hops(slot.intermediate_node, d) + 1

Leans(n, d, slots) == \E i \in Slot : slots[i].in_use /\ Closer(slots[i].intermediate_node, n, d)

SlotsAligned(n, d, slots) ==
  /\ \A i \in Slot : SlotAligned(n, d, slots[i])
  /\ d # n /\ (\E i \in Slot : slots[i].in_use) => Leans(n, d, slots)

Aligned(n, r) == \A d \in Node : SlotsAligned(n, d, r.best_routing_info[d])

(* An update may only tell of a farther neighbour where there is a slot    *)
(* already; the slot of the closer one is then not a farthest one.         *)
LEMMA UpdatedAligned ==
  ASSUME Roomy, Acyclic, NEW n \in Node, NEW d \in Node,
         NEW slots \in DestinationApproximator, OneEach(slots), SlotsAligned(n, d, slots),
         NEW via \in Reach[n], NEW steps \in Nat,
         steps = Hops(via, d) + 1 \/ (via = d /\ SlotsVia(slots, via) # {}),
         d = n \/ Closer(via, n, d) \/ \E i \in Slot : slots[i].in_use
  PROVE  SlotsAligned(n, d, UpdatedSlots(slots, d, via, steps))
<1>. DEFINE new == UpdatedSlots(slots, d, via, steps)
<1>1. \A i \in Slot : slots[i] \in IntermediateStepInfo  BY DEF DestinationApproximator
<1>2. via \in Node /\ Hops(via, d) \in Nat /\ (via = d => Hops(via, d) = 0)
  BY HopsAre
<1>3. CASE Refreshes(slots, new, d, via, steps)
  <2>1. PICK k \in SlotsVia(slots, via) :
          new = [slots EXCEPT ![k].steps = IF via = d THEN 1 ELSE steps]
    BY <1>3 DEF Refreshes
  <2>. HIDE DEF new
  <2>2. k \in Slot /\ slots[k].in_use /\ slots[k].intermediate_node = via
    BY DEF SlotsVia
  <2>3. \A i \in Slot \ {k} : new[i] = slots[i]
    BY <2>1 DEF DestinationApproximator
  <2>4. new[k] = [slots[k] EXCEPT !.steps = IF via = d THEN 1 ELSE steps]
    BY <2>1, <2>2 DEF DestinationApproximator
  <2>5. /\ new[k].in_use = slots[k].in_use /\ new[k].intermediate_node = via
        /\ new[k].steps = Hops(via, d) + 1
    <3>1. (IF via = d THEN 1 ELSE steps) = Hops(via, d) + 1  BY <1>2
    <3>. QED  BY <1>1, <2>2, <2>4, <3>1 DEF IntermediateStepInfo
  <2>6. \A i \in Slot : SlotAligned(n, d, new[i])
    BY <2>2, <2>3, <2>5 DEF SlotsAligned, SlotAligned
  <2>7. \A i \in Slot : /\ new[i].in_use = slots[i].in_use
                        /\ new[i].intermediate_node = slots[i].intermediate_node
    BY <2>2, <2>3, <2>5
  <2>. QED  BY <2>6, <2>7 DEF SlotsAligned, Leans, new
<1>4. CASE Fills(slots, new, via, steps)
  <2>1. PICK k \in Slot :
          /\ new = [slots EXCEPT ![k] = UsedSlot(via, steps)]
          /\ k \in FreeSlots(slots) \/ (FreeSlots(slots) = {} /\ k \in FarthestSlots(slots))
    BY <1>4 DEF Fills
  <2>. HIDE DEF new
  <2>2. steps = Hops(via, d) + 1  BY <1>4 DEF Fills
  <2>3. new[k] = UsedSlot(via, steps) /\ \A i \in Slot \ {k} : new[i] = slots[i]
    BY <2>1 DEF DestinationApproximator
  <2>4. new[k].in_use /\ new[k].intermediate_node = via /\ new[k].steps = steps
    BY <2>3 DEF UsedSlot
  <2>5. \A i \in Slot : SlotAligned(n, d, new[i])
    BY <2>2, <2>3, <2>4 DEF SlotsAligned, SlotAligned
  <2>6. ASSUME d # n PROVE Leans(n, d, new)
    <3>1. CASE Closer(via, n, d)  BY <2>4, <3>1 DEF Leans
    <3>2. CASE ~ Closer(via, n, d)
      <4>1. PICK j \in Slot : slots[j].in_use /\ Closer(slots[j].intermediate_node, n, d)
        BY <2>6, <3>2 DEF SlotsAligned, Leans
      <4>2. j # k
        <5>1. CASE k \in FreeSlots(slots)  BY <4>1, <5>1 DEF FreeSlots
        <5>2. CASE FreeSlots(slots) = {} /\ k \in FarthestSlots(slots)
          <6>1. PICK i \in Slot : i # j  BY RoutingAssumption DEF Roomy, Slot
          <6>2. slots[i].in_use  BY <5>2 DEF FreeSlots
          <6>. DEFINE x == slots[i].intermediate_node
                      y == slots[j].intermediate_node
          <6>3. x # y  BY <4>1, <6>1, <6>2 DEF OneEach
          <6>4. /\ x \in Reach[n] /\ slots[i].steps = Hops(x, d) + 1
                /\ y \in Reach[n] /\ slots[j].steps = Hops(y, d) + 1
            BY <4>1, <6>2 DEF SlotsAligned, SlotAligned
          <6>. HIDE DEF x, y
          <6>5. ~ Closer(x, n, d) /\ Closer(y, n, d)
            <7>1. Closer(y, n, d)  BY <4>1 DEF y
            <7>. QED  BY <6>3, <7>1, HopsAre
          <6>6. /\ Hops(x, d) \in Nat /\ Hops(y, d) \in Nat /\ Hops(n, d) \in Nat
            BY <6>4, HopsAre
          <6>7. Hops(y, d) < Hops(x, d)  BY <6>4, <6>5, <6>6 DEF Closer
          <6>8. ~ (slots[i].steps <= slots[j].steps)  BY <6>4, <6>6, <6>7
          <6>. QED  BY <5>2, <6>8 DEF FarthestSlots
        <5>. QED  BY <2>1, <5>1, <5>2
      <4>3. new[j] = slots[j]  BY <2>3, <4>2
      <4>. QED  BY <4>1, <4>3 DEF Leans
    <3>. QED  BY <3>1, <3>2
  <2>. QED  BY <2>5, <2>6 DEF SlotsAligned, new
<1>. QED  BY <1>3, <1>4, UpdateCases

LEMMA UpdateAligned ==
  ASSUME Roomy, Acyclic, NEW n \in Node, NEW r \in RouterType, AllOneEach(r), Aligned(n, r),
         NEW d \in Node, NEW via \in Reach[n], NEW steps \in Nat,
         steps = Hops(via, d) + 1 \/ (via = d /\ HeardBy(r, d)),
         d = n \/ Closer(via, n, d) \/ Routed(r, d),
         NEW t, t = update_approximation_entry(r, d, via, steps)
  PROVE  /\ t \in RouterType /\ AllOneEach(t) /\ Aligned(n, t)
         /\ \A e \in Node : Routed(r, e) => Routed(t, e)
<1>. DEFINE slots == r.best_routing_info[d]
            new   == UpdatedSlots(slots, d, via, steps)
<1>1. via \in Node /\ via \in Node \cup {NO_ID}  BY MeshAssumption
<1>2. slots \in DestinationApproximator  BY DEF RouterType
<1>3. Routed(r, d) => \E i \in Slot : slots[i].in_use  BY DEF Routed, ActiveSlots
<1>4. SlotsAligned(n, d, new)
  <2>1. OneEach(slots) /\ SlotsAligned(n, d, slots)  BY DEF AllOneEach, Aligned
  <2>2. via = d /\ HeardBy(r, d) => SlotsVia(slots, via) # {}  BY DEF HeardBy
  <2>. HIDE DEF slots
  <2>. QED  BY <1>2, <1>3, <2>1, <2>2, UpdatedAligned
<1>5. \A e \in Node : t.best_routing_info[e] = IF e = d THEN new ELSE r.best_routing_info[e]
  BY UpdateEffect
<1>. HIDE DEF new
<1>6. Aligned(n, t)  BY <1>4, <1>5 DEF Aligned
<1>. QED  BY <1>1, <1>6, UpdateType, UpdateOneEach, UpdateRouted

LEMMA DestinationAligned ==
  ASSUME NEW n, NEW r \in RouterType, AllOneEach(r), Aligned(n, r), NEW d \in Node,
         NEW t, t = get_destination_approximator(r, d)
  PROVE  /\ t \in RouterType /\ AllOneEach(t) /\ Aligned(n, t)
         /\ t.best_routing_info = r.best_routing_info
BY DestinationEffect, DestinationType DEF Aligned, AllOneEach

LEMMA HearAligned ==
  ASSUME Roomy, Acyclic, NEW n \in Node, NEW r \in RouterType, AllOneEach(r), Aligned(n, r),
         NEW origin \in Node, NEW from \in Reach[n], NEW steps \in Nat,
         steps = Hops(from, origin) + 1,
         origin = n \/ Closer(from, n, origin) \/ Routed(r, origin),
         NEW t, t = router_update(r, origin, from, steps)
  PROVE  Aligned(n, t)
<1>. DEFINE first  == get_destination_approximator(r, from)
            known  == get_destination_approximator(first, origin)
            direct == update_approximation_entry(known, from, from, 1)
<1>1. from \in Node /\ Hops(from, from) = 0 /\ Closer(from, n, from)
  <2>1. from \in Node  BY MeshAssumption
  <2>2. Hops(from, from) = 0 /\ Hops(n, from) \in Nat
        /\ (Hops(from, from) = Hops(n, from) + 1 \/ Hops(n, from) = Hops(from, from) + 1)
    BY <2>1, HopsAre
  <2>. QED  BY <2>1, <2>2 DEF Closer
<1>2. /\ first \in RouterType /\ AllOneEach(first) /\ Aligned(n, first)
      /\ first.best_routing_info = r.best_routing_info
  BY <1>1, DestinationAligned
<1>. HIDE DEF first
<1>3. /\ known \in RouterType /\ AllOneEach(known) /\ Aligned(n, known)
      /\ known.best_routing_info = r.best_routing_info
  BY <1>2, DestinationAligned
<1>. HIDE DEF known
<1>4. 1 \in Nat /\ 1 = Hops(from, from) + 1  BY <1>1
<1>5. /\ direct \in RouterType /\ AllOneEach(direct) /\ Aligned(n, direct)
      /\ \A e \in Node : Routed(known, e) => Routed(direct, e)
  BY <1>1, <1>3, <1>4, UpdateAligned
<1>6. t = update_approximation_entry(direct, origin, from, steps)
  BY DEF router_update, first, known
<1>. HIDE DEF direct
<1>7. Routed(r, origin) => Routed(direct, origin)  BY <1>3, <1>5 DEF Routed
<1>. QED  BY <1>5, <1>6, <1>7, UpdateAligned

LEMMA IncorporateAligned ==
  ASSUME Roomy, Acyclic, NEW n \in Node, NEW r \in RouterType, AllOneEach(r), Aligned(n, r),
         NEW from \in Reach[n], HeardBy(r, from), NEW dest \in Node, NEW steps \in Nat,
         from = dest \/ steps = Hops(from, dest),
         dest = n \/ Closer(from, n, dest) \/ Routed(r, dest),
         NEW t, t = router_incorporate_rquery(r, from, dest, steps)
  PROVE  Aligned(n, t)
<1>. DEFINE known == get_destination_approximator(r, dest)
<1>1. /\ known \in RouterType /\ AllOneEach(known) /\ Aligned(n, known)
      /\ known.best_routing_info = r.best_routing_info
  BY DestinationAligned
<1>2. t = update_approximation_entry(known, dest, from, steps + 1) /\ steps + 1 \in Nat
  BY DEF router_incorporate_rquery
<1>. HIDE DEF known
<1>3. /\ HeardBy(r, from) => HeardBy(known, from)
      /\ Routed(r, dest) => Routed(known, dest)
  BY <1>1 DEF HeardBy, Routed
<1>. QED  BY <1>1, <1>2, <1>3, UpdateAligned

LEMMA SetLinkAligned ==
  ASSUME NEW n, NEW r \in RouterType, Aligned(n, r), NEW m \in Node, NEW active \in BOOLEAN
  PROVE  Aligned(n, SetLink(r, m, active))
<1>. DEFINE t == SetLink(r, m, active)
<1>1. ASSUME NEW d \in Node, NEW i \in Slot
      PROVE  LET old == r.best_routing_info[d][i]
                 new == t.best_routing_info[d][i]
             IN  /\ new.in_use = old.in_use /\ new.intermediate_node = old.intermediate_node
                 /\ new.steps = old.steps
  <2>1. r.best_routing_info[d][i] \in IntermediateStepInfo
    BY DEF RouterType, DestinationApproximator
  <2>. QED  BY <2>1 DEF SetLink, RouterType, IntermediateStepInfo
<1>. HIDE DEF t
<1>. QED  BY <1>1 DEF Aligned, SlotsAligned, SlotAligned, Leans, t

LEMMA CreateAligned ==
  ASSUME NEW n
  PROVE  Aligned(n, create_router(0))
<1>. DEFINE r == create_router(0)
<1>1. \A d \in Node : \A i \in Slot : r.best_routing_info[d][i].in_use = FALSE
  BY DEF create_router, FreeSlot
<1>. HIDE DEF r
<1>. QED  BY <1>1 DEF Aligned, SlotsAligned, SlotAligned, r

(* The best way to a node is by way of its closer neighbour, and tells the *)
(* distance.                                                               *)
LEMMA BestAligned ==
  ASSUME Acyclic, NEW W, NEW n \in Node, NEW r \in RouterType, Guided(n, r, W), Aligned(n, r),
         NEW d \in Node, d # n, Routed(r, d)
  PROVE  /\ Closer(BestRoute(r, d).intermediate_node, n, d)
         /\ BestRoute(r, d).steps = Hops(n, d)
<1>. DEFINE slots == r.best_routing_info[d]
<1>1. PICK j \in ActiveSlots(slots) :
        /\ BestRoute(r, d) = slots[j]
        /\ \A i \in ActiveSlots(slots) : slots[j].steps <= slots[i].steps
  BY BestIsActive
<1>2. j \in Slot /\ slots[j].in_use  BY DEF ActiveSlots
<1>3. SlotsAligned(n, d, slots)  BY DEF Aligned
<1>4. \A i \in Slot : slots[i].in_use => slots[i].link_active
  BY DEF Guided, SlotGuides
<1>. HIDE DEF slots
<1>5. PICK i \in Slot : slots[i].in_use /\ Closer(slots[i].intermediate_node, n, d)
  BY <1>2, <1>3 DEF SlotsAligned, Leans
<1>6. slots[j].steps <= slots[i].steps  BY <1>1, <1>4, <1>5 DEF ActiveSlots
<1>. DEFINE x == slots[j].intermediate_node
            y == slots[i].intermediate_node
<1>7. /\ x \in Reach[n] /\ slots[j].steps = Hops(x, d) + 1
      /\ y \in Reach[n] /\ slots[i].steps = Hops(y, d) + 1
  BY <1>2, <1>3, <1>5 DEF SlotsAligned, SlotAligned
<1>8. /\ Hops(x, d) \in Nat /\ Hops(y, d) \in Nat /\ Hops(n, d) \in Nat
      /\ Hops(x, d) = Hops(n, d) + 1 \/ Hops(n, d) = Hops(x, d) + 1
  BY <1>7, HopsAre
<1>9. Hops(x, d) < Hops(n, d)  BY <1>5, <1>6, <1>7, <1>8 DEF Closer
<1>10. slots[j].steps = Hops(n, d)  BY <1>7, <1>8, <1>9
<1>. QED  BY <1>1, <1>7, <1>9, <1>10 DEF Closer

(* An answer tells distances, except of the node itself.                   *)
LEMMA AnswerAligned ==
  ASSUME Acyclic, NEW W, NEW n \in Node, NEW r \in RouterType, Guided(n, r, W), Aligned(n, r),
         NEW m, NEW since, NEW p \in router_answer_rquery(r, m, since, RQUERY_COUNT)
  PROVE  p.destination_node = n \/ p.steps = Hops(n, p.destination_node)
<1>1. RQUERY_COUNT \in Nat  BY MeshAssumption
<1>2. Offers(r, p)  BY <1>1, AnswerPairs
<1>3. /\ p.destination_node \in Node /\ Routed(r, p.destination_node)
      /\ p.steps = BestRoute(r, p.destination_node).steps
  BY <1>2, KnownFinite DEF Offers
<1>. QED  BY <1>3, BestAligned

(* What a message says of distances: pairs of an answer are told by its    *)
(* origin.                                                                 *)
PairsTold(o, pairs) ==
  \A p \in pairs : p.destination_node = o \/ p.steps = Hops(o, p.destination_node)

Told(n, e) ==
  /\ e.steps = Hops(n, e.origin_node)
  /\ e.steps >= 1 => Closer(e.src_node, n, e.origin_node)
  /\ PairsTold(e.origin_node, e.pairs)

FrameTold(f) == f.steps = Hops(f.from, f.origin) /\ PairsTold(f.origin, f.pairs)

Exact(n, s) ==
  Aligned(n, s.router) /\ \A id \in DOMAIN s.g_msg_table : Told(n, s.g_msg_table[id])

(* A neighbour that has a way, but is farther, has it by way of n.         *)
Grounded(n, W) ==
  \A m \in Reach[n], d \in Node : d # n /\ Way(W, m, d) => Closer(m, n, d) \/ <<n, d>> \in W

LEMMA ParseAligned ==
  ASSUME Treed, NEW W, NEW n \in Node, Grounded(n, W),
         NEW r \in RouterType, NEW links, Knows(n, r, links, W), Aligned(n, r),
         NEW from \in Reach[n], n \in Reach[from], HeardBy(r, from), NEW pairs \in SUBSET Pair,
         PairsTold(from, pairs), \A p \in pairs : p.steps >= 1,
         \A p \in pairs : Near(n, p.destination_node, p.steps + 1),
         \A p \in pairs : Way(W, from, p.destination_node)
  PROVE  Aligned(n, router_parse_rquery(r, from, pairs))
<1>. DEFINE Good(x) == /\ x \in RouterType /\ Knows(n, x, links, W) /\ KeepsHearing(r, x)
                       /\ Aligned(n, x)
<1>1. PICK g : /\ Parsing(g, r, from, pairs, RQUERY_COUNT)
               /\ router_parse_rquery(r, from, pairs) = g[RQUERY_COUNT]
  BY ParseIsParsing
<1>. DEFINE Bad == {k \in 0 .. RQUERY_COUNT : ~ Good(g[k])}
<1>2. RQUERY_COUNT \in Nat /\ from \in Node  BY MeshAssumption
<1>3. g[0] = r /\ \A k \in 1 .. RQUERY_COUNT : g[k] = ParsePlace(g[k - 1], from, pairs, k - 1)
  BY <1>1, <1>2 DEF Parsing
<1>4. Good(r)  BY DEF KeepsHearing, KeepsWays
<1>5. ASSUME NEW x, Good(x), NEW k PROVE Good(ParsePlace(x, from, pairs, k))
  <2>1. ASSUME NEW p \in pairs
        PROVE  Good(router_incorporate_rquery(x, from, p.destination_node, p.steps))
    <3>. DEFINE y == router_incorporate_rquery(x, from, p.destination_node, p.steps)
                d == p.destination_node
    <3>1. /\ d \in Node /\ p.steps \in Nat /\ p.steps >= 1
          /\ from \in Node \cup {NO_ID}
      BY <1>2 DEF Pair
    <3>2. HeardBy(x, from)  BY <1>2, <1>5 DEF KeepsHearing
    <3>3. y \in RouterType  BY <1>5, <3>1, IncorporateType
    <3>4. Knows(n, y, links, W) /\ KeepsHearing(x, y)
      BY <1>2, <1>5, <3>1, <3>2, IncorporateKnows DEF Treed
    <3>5. Aligned(n, y)
      <4>1. AllOneEach(x) /\ Guided(n, x, W)  BY <1>5 DEF Knows, Sound, Treed
      <4>2. from = d \/ p.steps = Hops(from, d)  BY DEF PairsTold
      <4>3. d = n \/ Closer(from, n, d) \/ <<n, d>> \in W  BY <3>1 DEF Grounded
      <4>4. d = n \/ Closer(from, n, d) \/ Routed(x, d)
        BY <3>1, <4>1, <4>3 DEF Guided, Leads
      <4>. QED  BY <1>5, <3>1, <3>2, <4>1, <4>2, <4>4, IncorporateAligned DEF Treed
    <3>. HIDE DEF y
    <3>6. Good(y)  BY <1>5, <3>3, <3>4, <3>5 DEF KeepsHearing, KeepsWays
    <3>. QED  BY <3>6 DEF y
  <2>. HIDE DEF Good
  <2>. QED  BY <1>5, <2>1, ParsePlaceCases
<1>. HIDE DEF Good
<1>6. CASE Bad # {}
  <2>1. PICK k \in Bad : \A j \in Bad : k <= j
    <3>1. Bad \in SUBSET Nat  BY <1>2
    <3>. HIDE DEF Bad
    <3>. QED  BY <1>6, <3>1, LeastExists
  <2>2. k # 0  BY <1>3, <1>4, <2>1
  <2>3. k - 1 \in 0 .. RQUERY_COUNT /\ ~ (k <= k - 1)  BY <1>2, <2>1, <2>2
  <2>4. Good(g[k - 1])  BY <2>1, <2>3
  <2>5. g[k] = ParsePlace(g[k - 1], from, pairs, k - 1)  BY <1>2, <1>3, <2>1, <2>2
  <2>6. Good(g[k])  BY <1>5, <2>4, <2>5
  <2>. QED  BY <2>1, <2>6
<1>7. CASE Bad = {}
  <2>1. Good(g[RQUERY_COUNT])  BY <1>2, <1>7
  <2>. QED  BY <1>1, <2>1 DEF Good
<1>. QED  BY <1>6, <1>7

(* The operators, as MeshProofs has them for Ready.                        *)
LEMMA ToldSame ==
  ASSUME NEW n, NEW e, NEW e2, Told(n, e), Stamp(e2) = Stamp(e)
  PROVE  Told(n, e2)
<1>1. /\ e2.pairs = e.pairs /\ e2.src_node = e.src_node
      /\ e2.origin_node = e.origin_node /\ e2.steps = e.steps
  BY DEF Stamp
<1>. QED  BY <1>1 DEF Told

LEMMA OwnTold ==
  ASSUME Acyclic, NEW n \in Node, NEW content, NEW pairs, PairsTold(n, pairs), NEW dst, NEW ack_for
  PROVE  Told(n, OwnEntry(n, content, pairs, dst, ack_for))
<1>. DEFINE e == OwnEntry(n, content, pairs, dst, ack_for)
<1>1. e.steps = 0 /\ e.origin_node = n /\ e.pairs = pairs  BY DEF OwnEntry
<1>. HIDE DEF e
<1>2. e.steps = Hops(n, n) /\ ~ (e.steps >= 1)  BY <1>1, HopsAre
<1>. QED  BY <1>1, <1>2 DEF Told, e

LEMMA GrowExact ==
  ASSUME NEW n, NEW s, NEW t, Exact(n, s), Learns(n, s, t), Aligned(n, t.router),
         \A id \in DOMAIN t.g_msg_table \ DOMAIN s.g_msg_table : Told(n, t.g_msg_table[id])
  PROVE  Exact(n, t)
<1>1. ASSUME NEW id \in DOMAIN s.g_msg_table PROVE Told(n, t.g_msg_table[id])
  BY ToldSame DEF Exact, Learns
<1>. QED  BY <1>1 DEF Exact

LEMMA CreateExact ==
  ASSUME Acyclic, NEW n \in Node, NEW s, NEW sent, Ready(n, s, sent), s.mode # "off", Exact(n, s),
         NEW content \in Content, NEW pairs \in SUBSET Pair, PairsTold(n, pairs),
         NEW dst \in Node \cup {NO_ID}, NEW ack_for \in Id \cup {NO_ID},
         ack_for = NO_ID <=> content \notin Responses,
         NEW t, t = create_data_object(s, n, content, pairs, dst, ack_for)
  PROVE  Exact(n, t)
<1>. DEFINE e == OwnEntry(n, content, pairs, dst, ack_for)
<1>1. s \in NodeRecord  BY DEF Ready
<1>2. Created(n, s, t, e)  BY <1>1, CreateEffect
<1>3. Learns(n, s, t)  BY CreateReady
<1>4. Told(n, e)  BY OwnTold
<1>. HIDE DEF e
<1>5. t.router = s.router  BY <1>1, <1>2 DEF Created, NodeRecord
<1>6. \A id \in DOMAIN t.g_msg_table \ DOMAIN s.g_msg_table : t.g_msg_table[id] = e
  BY <1>2 DEF Created
<1>. QED  BY <1>3, <1>4, <1>5, <1>6, GrowExact DEF Exact

LEMMA QueueExact ==
  ASSUME NEW n, NEW s, NEW sent, Ready(n, s, sent), s.mode # "off", Exact(n, s),
         NEW id \in DOMAIN s.g_msg_table, New(s, sent, id),
         NEW target \in Node \cup {NO_ID}, NEW use_router \in BOOLEAN,
         NEW t, t = queue_send(s, id, target, use_router)
  PROVE  Exact(n, t)
<1>1. s \in NodeRecord  BY DEF Ready
<1>2. Learns(n, s, t)  BY QueueReady DEF New
<1>3. CASE t = s  BY <1>3
<1>4. ASSUME NEW final, Queued(s, t, id, final) PROVE Exact(n, t)
  <2>1. DOMAIN t.g_msg_table = DOMAIN s.g_msg_table /\ t.router = s.router
    BY <1>1, <1>4 DEF Queued, NodeRecord
  <2>. QED  BY <1>2, <2>1, GrowExact DEF Exact
<1>. QED  BY <1>1, <1>3, <1>4, QueueEffect

LEMMA MarkExact ==
  ASSUME NEW n, NEW s, NEW sent, Ready(n, s, sent), s.mode # "off", Exact(n, s),
         NEW id \in DOMAIN s.g_msg_table, NEW status \in BOOLEAN,
         NEW t, t = [s EXCEPT !.g_msg_table[id].ack_status = status]
  PROVE  Exact(n, t)
<1>1. s \in NodeRecord  BY DEF Ready
<1>2. Learns(n, s, t)  BY MarkReady
<1>3. Marked(s, t, id, status)  BY <1>1, MarkEffect
<1>4. DOMAIN t.g_msg_table = DOMAIN s.g_msg_table /\ t.router = s.router
  BY <1>1, <1>3 DEF Marked, NodeRecord
<1>. QED  BY <1>2, <1>4, GrowExact DEF Exact

LEMMA NodesUpdateExact ==
  ASSUME Acyclic, NEW n \in Node, NEW s, NEW sent, Ready(n, s, sent), s.mode # "off", Exact(n, s),
         NEW id \in DOMAIN s.g_msg_table, NEW t, t = nodes_update(s, n, id)
  PROVE  Exact(n, t)
<1>1. Notes(n, s, t) /\ Learns(n, s, t)  BY NodesUpdateNotes, NodesUpdateReady
<1>2. ASSUME NEW x \in DOMAIN t.g_msg_table \ DOMAIN s.g_msg_table
      PROVE  Told(n, t.g_msg_table[x])
  <2>1. PICK m \in Node : t.g_msg_table[x] = OwnEntry(n, "ping", {}, m, NO_ID)
    BY <1>1, <1>2 DEF Notes
  <2>2. PairsTold(n, {})  BY DEF PairsTold
  <2>. QED  BY <2>1, <2>2, OwnTold
<1>3. t.router = s.router  BY <1>1 DEF Notes
<1>. QED  BY <1>1, <1>2, <1>3, GrowExact DEF Exact

LEMMA RouterExact ==
  ASSUME NEW n, NEW s, NEW t, Exact(n, s), t.g_msg_table = s.g_msg_table, Aligned(n, t.router)
  PROVE  Exact(n, t)
BY DEF Exact

LEMMA SetNeighborLinkExact ==
  ASSUME NEW n, NEW s, NEW sent, Ready(n, s, sent), Exact(n, s),
         NEW m \in Node, NEW up \in BOOLEAN, NEW t, t = SetNeighborLink(s, m, up)
  PROVE  Exact(n, t)
<1>1. s \in NodeRecord  BY DEF Ready
<1>2. s.router \in RouterType  BY <1>1 DEF NodeRecord
<1>3. Aligned(n, SetLink(s.router, m, up))  BY <1>2, SetLinkAligned DEF Exact
<1>4. t.router = SetLink(s.router, m, up) /\ t.g_msg_table = s.g_msg_table
  BY <1>1 DEF SetNeighborLink, router_link_node, router_unlink_node, NodeRecord
<1>. QED  BY <1>3, <1>4, RouterExact

LEMMA RespondExact ==
  ASSUME Acyclic, NEW n \in Node, NEW s, NEW sent, Ready(n, s, sent), s.mode # "off", Exact(n, s),
         NEW id \in DOMAIN s.g_msg_table, NEW content \in Responses,
         NEW pairs \in SUBSET Pair, PairsTold(n, pairs), NEW use_router \in BOOLEAN,
         NEW t, t = Respond(s, n, id, content, pairs, use_router)
  PROVE  Exact(n, t)
<1>. DEFINE e == s.g_msg_table[id]
            u == create_data_object(s, n, content, pairs, e.origin_node, id)
            new == LastId(n, u)
<1>1. s \in NodeRecord  BY DEF Ready
<1>2. e \in DataEntry /\ id \in Id  BY <1>1, EntryType
<1>3. t = queue_send(u, new, e.src_node, use_router)  BY DEF Respond
<1>4. content \in Content /\ content # "gbcast"  BY DEF Content, Responses
<1>5. id # NO_ID  BY <1>2, MeshAssumption DEF Id
<1>6. /\ e.origin_node \in Node \cup {NO_ID} /\ e.src_node \in Node \cup {NO_ID}
      /\ id \in Id \cup {NO_ID} /\ (id = NO_ID <=> content \notin Responses)
  BY <1>2, <1>5 DEF DataEntry
<1>. HIDE DEF e
<1>7. Ready(n, u, sent) /\ Learns(n, s, u)  BY <1>4, <1>6, CreateReady
<1>8. Exact(n, u)  BY <1>4, <1>6, CreateExact
<1>9. Created(n, s, u, OwnEntry(n, content, pairs, e.origin_node, id))
  BY <1>1, <1>4, <1>6, CreateEffect
<1>. HIDE DEF u
<1>10. new \in DOMAIN u.g_msg_table /\ u.g_msg_table[new].content = content
  BY <1>9 DEF Created, OwnEntry
<1>11. u.mode # "off"  BY <1>7, LearnsMode
<1>. QED  BY <1>3, <1>4, <1>6, <1>7, <1>8, <1>10, <1>11, QueueExact DEF New

LEMMA HandleCommandExact ==
  ASSUME Treed, NEW W, NEW n \in Node, NEW s, NEW sent, Ready(n, s, sent), s.mode # "off",
         Bonded(n, s, W), Exact(n, s),
         NEW id \in DOMAIN s.g_msg_table, New(s, sent, id),
         NEW t, t = HandleCommand(s, n, id)
  PROVE  Exact(n, t)
<1>. DEFINE e == s.g_msg_table[id]
<1>1. s \in NodeRecord  BY DEF Ready
<1>2. e \in DataEntry  BY <1>1, EntryType
<1>3. e.origin_node \in Node /\ e.src_node \in Node  BY <1>2 DEF DataEntry
<1>4. /\ {} \in SUBSET Pair /\ TRUE \in BOOLEAN /\ FALSE \in BOOLEAN
      /\ "name" \in Responses /\ "routes" \in Responses
  BY DEF Responses
<1>5. PairsTold(n, {}) /\ Acyclic  BY DEF PairsTold, Treed
<1>6. e.content # "unlink"
  <2>1. Tied(n, s, e)  BY DEF Bonded
  <2>. QED  BY <2>1 DEF Tied, EntryHonest, Honest, Treed
<1>7. CASE e.content = "ping"
  <2>1. t = Respond(s, n, id, "name", {}, TRUE)  BY <1>7 DEF HandleCommand
  <2>. QED  BY <1>4, <1>5, <2>1, RespondExact
<1>8. CASE e.content = "gbcast"
  <2>. DEFINE u == queue_send(s, id, BROADCAST_ID, FALSE)
  <2>1. t = Respond(u, n, id, "name", {}, TRUE)  BY <1>8 DEF HandleCommand
  <2>2. BROADCAST_ID \in Node \cup {NO_ID}  BY DEF BROADCAST_ID
  <2>3. Ready(n, u, sent) /\ Learns(n, s, u)  BY <1>4, <2>2, QueueReady DEF New
  <2>4. Exact(n, u)  BY <1>4, <2>2, QueueExact
  <2>. HIDE DEF u
  <2>5. u.mode # "off" /\ id \in DOMAIN u.g_msg_table  BY <2>3, LearnsMode DEF Learns, In
  <2>. QED  BY <1>4, <1>5, <2>1, <2>3, <2>4, <2>5, RespondExact
<1>9. CASE e.content = "rquery"
  <2>. DEFINE u == [s EXCEPT !.last_rquery[e.src_node] = s.router.discovery_seq]
              pairs == router_answer_rquery(s.router, e.src_node, s.last_rquery[e.src_node],
                                            RQUERY_COUNT)
  <2>1. t = Respond(u, n, id, "routes", pairs, TRUE)  BY <1>9 DEF HandleCommand
  <2>2. Ready(n, u, sent) /\ Learns(n, s, u)  BY <1>3, QueriedReady
  <2>3. u.router = s.router /\ u.g_msg_table = s.g_msg_table  BY <1>1 DEF NodeRecord
  <2>4. s.router \in RouterType /\ Guided(n, s.router, W) /\ Aligned(n, s.router)
    BY <1>1 DEF NodeRecord, Bonded, Knows, Treed, Exact
  <2>5. pairs \in SUBSET Pair  BY <2>4, AnswerType
  <2>6. PairsTold(n, pairs)  BY <1>5, <2>4, AnswerAligned DEF PairsTold
  <2>. HIDE DEF u, pairs
  <2>7. Exact(n, u)  BY <2>3, RouterExact DEF Exact
  <2>8. u.mode # "off" /\ id \in DOMAIN u.g_msg_table  BY <2>2, LearnsMode DEF Learns, In
  <2>. QED  BY <1>4, <1>5, <2>1, <2>2, <2>5, <2>6, <2>7, <2>8, RespondExact
<1>10. CASE e.content = "link"
  <2>1. t = SetNeighborLink(s, e.origin_node, TRUE)  BY <1>10 DEF HandleCommand
  <2>. QED  BY <1>3, <1>4, <2>1, SetNeighborLinkExact
<1>11. CASE e.content \notin {"ping", "gbcast", "rquery", "unlink", "link"}
  <2>1. t = s  BY <1>11 DEF HandleCommand
  <2>. QED  BY <2>1
<1>. QED  BY <1>6, <1>7, <1>8, <1>9, <1>10, <1>11

LEMMA HandleResponseExact ==
  ASSUME Treed, NEW W, NEW n \in Node, Grounded(n, W),
         NEW s, NEW sent, Ready(n, s, sent), s.mode # "off", Bonded(n, s, W), Exact(n, s),
         NEW id \in DOMAIN s.g_msg_table,
         s.g_msg_table[id].ack_for # NO_ID, s.g_msg_table[id].dst_node = n,
         In(s, s.g_msg_table[id].ack_for), Leading(s.g_msg_table[id], W),
         NEW t, t = HandleResponse(s, n, id)
  PROVE  Exact(n, t)
<1>. DEFINE e == s.g_msg_table[id]
            asked == s.g_msg_table[e.ack_for].content
<1>1. s \in NodeRecord  BY DEF Ready
<1>2. e \in DataEntry /\ s.router \in RouterType  BY <1>1, EntryType DEF NodeRecord
<1>3. /\ e.origin_node \in Node /\ e.src_node \in Node /\ e.pairs \in SUBSET Pair
      /\ e.steps \in Nat
  BY <1>2 DEF DataEntry, Pair
<1>4. Tied(n, s, e) /\ Told(n, e)  BY DEF Bonded, Exact
<1>5. CASE asked = "rquery"
  <2>. DEFINE r == router_parse_rquery(s.router, e.src_node, e.pairs)
  <2>1. t = [s EXCEPT !.router = r]  BY <1>5 DEF HandleResponse
  <2>2. e.steps >= 1
    <3>1. e.steps # 0  BY <1>4, <1>5 DEF Tied
    <3>. QED  BY <1>3, <3>1
  <2>3. HeardBy(s.router, e.src_node) /\ n \in Reach[e.src_node] /\ e.src_node \in Reach[n]
    BY <1>3, <1>4, <2>2 DEF Tied, Treed, Symmetric
  <2>4. Honest(e.content, e.pairs, e.dst_node, e.origin_node, e.ack_for)
    BY <1>4 DEF Tied, EntryHonest
  <2>5. e.pairs # {} => e.src_node = e.origin_node
    <3>1. e.pairs # {} => Direct(e.content, e.ack_for)
      BY <2>4 DEF Honest, Direct, Settles, Treed
    <3>. QED  BY <1>4, <2>2, <3>1 DEF Tied
  <2>6. PairsTold(e.src_node, e.pairs) /\ \A p \in e.pairs : Way(W, e.src_node, p.destination_node)
    BY <1>4, <2>5 DEF Told, PairsTold, Leading
  <2>7. \A p \in e.pairs : p.steps >= 1  BY <2>4 DEF Honest
  <2>8. \A p \in e.pairs : Near(n, p.destination_node, p.steps + 1)
    <3>1. \A p \in e.pairs : /\ n \in Reach[e.origin_node]
                             /\ Near(e.origin_node, p.destination_node, p.steps)
      BY <2>4 DEF Honest, Treed
    <3>2. \A p \in e.pairs : p.destination_node \in Node /\ p.steps \in Nat
      BY <1>3 DEF Pair
    <3>. QED  BY <1>3, <3>1, <3>2, NearNext DEF Treed
  <2>9. Knows(n, s.router, s.link_enabled, W) /\ Aligned(n, s.router)
    BY DEF Bonded, Exact
  <2>10. Aligned(n, r)
    BY <1>2, <1>3, <2>3, <2>6, <2>7, <2>8, <2>9, ParseAligned
  <2>. HIDE DEF r
  <2>11. t.router = r /\ t.g_msg_table = s.g_msg_table  BY <1>1, <2>1 DEF NodeRecord
  <2>. QED  BY <2>10, <2>11, RouterExact
<1>6. CASE asked # "rquery"
  <2>1. asked # "unlink"
    <3>1. Tied(n, s, s.g_msg_table[e.ack_for])  BY DEF Bonded, In
    <3>. QED  BY <3>1 DEF Tied, EntryHonest, Honest, Treed
  <2>2. t = s  BY <1>6, <2>1 DEF HandleResponse
  <2>. QED  BY <2>2
<1>. QED  BY <1>5, <1>6

LEMMA HandleExact ==
  ASSUME Treed, NEW W, NEW n \in Node, Grounded(n, W),
         NEW s, NEW sent, Ready(n, s, sent), s.mode # "off", Bonded(n, s, W), Exact(n, s),
         NEW id \in DOMAIN s.g_msg_table, New(s, sent, id),
         s.g_msg_table[id].ack_for # NO_ID =>
           In(s, s.g_msg_table[id].ack_for) /\ Leading(s.g_msg_table[id], W),
         NEW t, t = handle_maintenance_msg(s, n, id)
  PROVE  Exact(n, t)
<1>. DEFINE e == s.g_msg_table[id]
<1>1. s \in NodeRecord  BY DEF Ready
<1>2. e \in DataEntry  BY <1>1, EntryType
<1>3. CASE e.dst_node \notin {BROADCAST_ID, n}
  <2>1. t = s  BY <1>3 DEF handle_maintenance_msg
  <2>. QED  BY <2>1
<1>4. CASE e.dst_node \in {BROADCAST_ID, n} /\ e.ack_for # NO_ID
  <2>1. t = HandleResponse(s, n, id)  BY <1>4 DEF handle_maintenance_msg
  <2>2. e.dst_node = e.ack_for[1]
    <3>1. Tied(n, s, e)  BY DEF Bonded
    <3>. QED  BY <1>4, <3>1 DEF Tied, EntryHonest, Honest
  <2>3. e.ack_for \in Id  BY <1>2, <1>4 DEF DataEntry
  <2>4. e.dst_node \in Node  BY <2>2, <2>3 DEF Id
  <2>5. e.dst_node = n  BY <1>4, <2>4, RoutingAssumption DEF BROADCAST_ID
  <2>. QED  BY <1>4, <2>1, <2>5, HandleResponseExact
<1>5. CASE e.dst_node \in {BROADCAST_ID, n} /\ e.ack_for = NO_ID
  <2>1. t = HandleCommand(s, n, id)  BY <1>5 DEF handle_maintenance_msg
  <2>. QED  BY <2>1, HandleCommandExact
<1>. QED  BY <1>3, <1>4, <1>5

LEMMA PassAckExact ==
  ASSUME NEW n, NEW s, NEW sent, Ready(n, s, sent), s.mode # "off", Exact(n, s),
         NEW f \in Frame, FrameOk(f), In(s, f.id), Body(s.g_msg_table[f.id]) = FrameBody(f),
         NEW t, t = PassAck(s, n, f)
  PROVE  Exact(n, t)
<1>1. s \in NodeRecord  BY DEF Ready
<1>2. CASE s.mode = "panic" \/ f.ack_for = NO_ID
  <2>1. t = s  BY <1>2 DEF PassAck
  <2>. QED  BY <2>1
<1>3. CASE s.mode # "panic" /\ f.ack_for # NO_ID /\ ~ In(s, f.ack_for)
  <2>1. t = Panic(s)  BY <1>3 DEF PassAck
  <2>2. t.router = s.router /\ t.g_msg_table = s.g_msg_table
    BY <1>1, <2>1 DEF Panic, NodeRecord
  <2>. QED  BY <2>2, RouterExact DEF Exact
<1>4. CASE s.mode # "panic" /\ f.ack_for # NO_ID /\ In(s, f.ack_for)
  <2>. DEFINE u == [s EXCEPT !.g_msg_table[f.ack_for].ack_status = TRUE]
              back == u.g_msg_table[f.ack_for].src_node
  <2>1. t = IF f.dst = n THEN u ELSE queue_send(u, f.id, back, TRUE)
    BY <1>4 DEF PassAck
  <2>2. f.ack_for \in DOMAIN s.g_msg_table /\ TRUE \in BOOLEAN  BY <1>4 DEF In
  <2>3. Ready(n, u, sent) /\ Learns(n, s, u)  BY <2>2, MarkReady
  <2>4. Exact(n, u)  BY <2>2, MarkExact
  <2>. HIDE DEF u
  <2>5. u \in NodeRecord /\ u.mode # "off"  BY <2>3, LearnsMode DEF Ready
  <2>6. f.id \in DOMAIN u.g_msg_table /\ f.ack_for \in DOMAIN u.g_msg_table
    BY <2>2, <2>3 DEF Learns, In
  <2>7. back \in Node \cup {NO_ID}  BY <2>5, <2>6, EntryType DEF DataEntry
  <2>8. u.g_msg_table[f.id].content # "gbcast"
    <3>1. u.g_msg_table[f.id].content = f.content
      BY <2>3, <2>6 DEF Learns, Stamp, Body, FrameBody, In
    <3>. QED  BY <1>4, <3>1 DEF FrameOk, Responses
  <2>. HIDE DEF back
  <2>. QED  BY <2>1, <2>2, <2>3, <2>4, <2>5, <2>6, <2>7, <2>8, QueueExact DEF New
<1>. QED  BY <1>2, <1>3, <1>4

(* A message comes to a node first from the closer neighbour.              *)
First(n, s, f) == Closer(f.from, n, f.origin) \/ In(s, f.id)

LEMMA StoredExact ==
  ASSUME Treed, NEW W, NEW n \in Node, NEW s, NEW sent, Ready(n, s, sent), s.mode # "off",
         Bonded(n, s, W), Exact(n, s), NEW f, Arrives(n, s, f, W), FrameTold(f), First(n, s, f),
         NEW t, t = Stored(n, s, f)
  PROVE  Exact(n, t)
<1>. DEFINE r       == router_update(s.router, f.origin, f.from, f.steps + 1)
            updated == [s EXCEPT !.router = r]
            got     == Received(updated, f)
<1>1. t = nodes_update(got, n, f.id)  BY DEF Stored
<1>2. s \in NodeRecord /\ f \in Frame /\ FrameOk(f) /\ Framed(n, f)  BY DEF Ready, Arrives
<1>3. /\ f.origin \in Node /\ f.from \in Reach[n] /\ f.steps \in Nat /\ f.steps + 1 \in Nat
      /\ f.steps + 1 = Hops(f.from, f.origin) + 1
  BY <1>2 DEF Frame, Framed, Treed, Symmetric, FrameTold
<1>4. s.router \in RouterType /\ AllOneEach(s.router) /\ Aligned(n, s.router)
  BY <1>2 DEF NodeRecord, Bonded, Knows, Sound, Exact
<1>5. f.origin = n \/ Closer(f.from, n, f.origin) \/ Routed(s.router, f.origin)
  <2>1. CASE In(s, f.id)
    <3>. DEFINE e == s.g_msg_table[f.id]
    <3>1. f.id \in DOMAIN s.g_msg_table  BY <2>1 DEF In
    <3>2. e \in DataEntry /\ EntryOk(n, f.id, e) /\ Tied(n, s, e)
      BY <1>2, <3>1, EntryType DEF Ready, Bonded
    <3>3. e.origin_node = f.origin  BY <1>2, <3>2 DEF EntryOk, FrameOk
    <3>4. CASE e.steps = 0  BY <3>2, <3>3, <3>4 DEF EntryOk
    <3>5. CASE e.steps # 0
      <4>1. e.steps >= 1  BY <3>2, <3>5 DEF DataEntry
      <4>2. Leads(s.router, e.origin_node)  BY <3>2, <4>1 DEF Tied, Treed
      <4>. QED  BY <3>3, <4>2 DEF Leads
    <3>. QED  BY <3>4, <3>5
  <2>2. CASE ~ In(s, f.id)  BY <2>2 DEF First
  <2>. QED  BY <2>1, <2>2
<1>6. Aligned(n, r)  BY <1>3, <1>4, <1>5, HearAligned DEF Treed
<1>7. r \in RouterType
  <2>1. f.from \in Node  BY <1>2 DEF Frame
  <2>. QED  BY <1>3, <1>4, <2>1, RouterUpdateType
<1>. HIDE DEF r
<1>8. /\ Ready(n, updated, sent) /\ updated.router = r /\ updated.g_msg_table = s.g_msg_table
      /\ updated.drawn = s.drawn /\ updated.mode = s.mode
  BY <1>2, <1>7, RouterReady DEF NodeRecord
<1>. HIDE DEF updated
<1>9. Exact(n, updated)  BY <1>6, <1>8, RouterExact
<1>10. Ready(n, got, sent)  BY <1>2, <1>8, ReceivedReady DEF Arrives
<1>11. Got(updated, got, f)  BY <1>2, <1>8, ReceivedEffect DEF Ready
<1>. HIDE DEF got
<1>12. /\ f.id \in DOMAIN got.g_msg_table /\ got.mode = s.mode /\ got.router = r
       /\ DOMAIN got.g_msg_table = DOMAIN s.g_msg_table \cup {f.id}
       /\ \A id \in DOMAIN s.g_msg_table : got.g_msg_table[id] = s.g_msg_table[id]
       /\ f.id \notin DOMAIN s.g_msg_table => got.g_msg_table[f.id] = Arrived(f)
  <2>1. updated \in NodeRecord  BY <1>8 DEF Ready
  <2>. QED  BY <1>8, <1>11, <2>1 DEF Got, NodeRecord
<1>13. Exact(n, got)
  <2>1. ASSUME f.id \notin DOMAIN s.g_msg_table PROVE Told(n, Arrived(f))
    <3>. DEFINE e == Arrived(f)
    <3>1. /\ e.steps = f.steps + 1 /\ e.src_node = f.from /\ e.origin_node = f.origin
          /\ e.pairs = f.pairs
      BY DEF Arrived
    <3>. HIDE DEF e
    <3>2. Closer(f.from, n, f.origin)  BY <2>1 DEF First, In
    <3>3. Hops(n, f.origin) = Hops(f.from, f.origin) + 1
      <4>1. f.from \in Node /\ n \in Node  BY <1>2 DEF Frame
      <4>2. /\ Hops(n, f.origin) \in Nat /\ Hops(f.from, f.origin) \in Nat
            /\ Hops(f.from, f.origin) = Hops(n, f.origin) + 1
                 \/ Hops(n, f.origin) = Hops(f.from, f.origin) + 1
        BY <1>3, <4>1, HopsAre DEF Treed
      <4>. QED  BY <3>2, <4>2 DEF Closer
    <3>. QED  BY <1>3, <3>1, <3>2, <3>3 DEF Told, FrameTold, e
  <2>2. \A id \in DOMAIN s.g_msg_table : Told(n, got.g_msg_table[id])
    BY <1>12 DEF Exact
  <2>3. \A id \in DOMAIN got.g_msg_table : Told(n, got.g_msg_table[id])
    BY <1>12, <2>1, <2>2
  <2>. QED  BY <1>6, <1>12, <2>3 DEF Exact
<1>. QED  BY <1>1, <1>10, <1>12, <1>13, NodesUpdateExact DEF Treed

LEMMA HandlerExact ==
  ASSUME Treed, NEW W, NEW n \in Node, Grounded(n, W),
         NEW s, NEW sent, Ready(n, s, sent), s.mode # "off", Bonded(n, s, W), Exact(n, s),
         NEW f, Arrives(n, s, f, W), FrameTold(f), First(n, s, f),
         NEW t, t = rcv_handler(s, n, f)
  PROVE  Exact(n, t)
<1>. DEFINE stored  == Stored(n, s, f)
            handled == IF MessageType(f.content) = "MAINTENANCE"
                       THEN handle_maintenance_msg(stored, n, f.id) ELSE stored
<1>1. t = IF Again(s, f) THEN stored ELSE PassAck(handled, n, f)
  BY DEF rcv_handler, Stored, Again
<1>2. f \in Frame /\ FrameOk(f)  BY DEF Arrives
<1>3. /\ Ready(n, stored, sent) /\ Bonded(n, stored, W) /\ stored.mode # "off"
      /\ In(stored, f.id) /\ Body(stored.g_msg_table[f.id]) = FrameBody(f)
      /\ f.ack_for # NO_ID => In(stored, f.ack_for) /\ Leading(stored.g_msg_table[f.id], W)
      /\ ~ Again(s, f) => New(stored, sent, f.id)
  BY StoredBonded DEF Treed
<1>4. Exact(n, stored)  BY StoredExact
<1>. HIDE DEF stored
<1>5. CASE Again(s, f)  BY <1>1, <1>4, <1>5
<1>6. CASE ~ Again(s, f)
  <2>1. t = PassAck(handled, n, f)  BY <1>1, <1>6
  <2>2. /\ New(stored, sent, f.id) /\ f.id \in DOMAIN stored.g_msg_table
        /\ stored.g_msg_table[f.id].ack_for # NO_ID =>
             /\ In(stored, stored.g_msg_table[f.id].ack_for)
             /\ Leading(stored.g_msg_table[f.id], W)
    BY <1>3, <1>6 DEF In, Body, FrameBody
  <2>3. Ready(n, handled, sent) /\ Learns(n, stored, handled) /\ Exact(n, handled)
    <3>1. CASE handled = stored
      <4>1. stored \in NodeRecord  BY <1>3 DEF Ready
      <4>. QED  BY <1>3, <1>4, <3>1, <4>1, LearnsSame
    <3>2. CASE handled = handle_maintenance_msg(stored, n, f.id)
      <4>. HIDE DEF handled
      <4>1. Ready(n, handled, sent) /\ Learns(n, stored, handled)
        BY <1>3, <2>2, <3>2, HandleReady
      <4>2. Exact(n, handled)  BY <1>3, <1>4, <2>2, <3>2, HandleExact
      <4>. QED  BY <4>1, <4>2
    <3>. QED  BY <3>1, <3>2
  <2>. HIDE DEF handled
  <2>4. handled.mode # "off"  BY <1>3, <2>3, LearnsMode
  <2>5. In(handled, f.id) /\ Body(handled.g_msg_table[f.id]) = FrameBody(f)
    BY <1>3, <2>3 DEF Learns, In, Stamp, Body
  <2>. QED  BY <1>2, <2>1, <2>3, <2>4, <2>5, PassAckExact
<1>. QED  BY <1>5, <1>6

(* A message of the node's own, queued.                                    *)
LEMMA OwnExact ==
  ASSUME Acyclic, NEW n \in Node, NEW s, NEW sent, Ready(n, s, sent), s.mode # "off", Exact(n, s),
         NEW content \in Content, content \notin Responses,
         NEW dst \in Node \cup {NO_ID}, NEW target \in Node \cup {NO_ID},
         NEW use_router \in BOOLEAN,
         NEW u, u = create_data_object(s, n, content, {}, dst, NO_ID),
         content = "gbcast" => s.MessageQueue = << >> /\ sent = {},
         NEW t, t = queue_send(u, LastId(n, u), target, use_router)
  PROVE  Exact(n, t)
<1>. DEFINE new == LastId(n, u)
<1>1. s \in NodeRecord  BY DEF Ready
<1>2. /\ {} \in SUBSET Pair /\ NO_ID \in Id \cup {NO_ID} /\ PairsTold(n, {})
      /\ (NO_ID = NO_ID <=> content \notin Responses)
  BY DEF PairsTold
<1>3. Ready(n, u, sent) /\ Learns(n, s, u)  BY <1>2, CreateReady
<1>4. Exact(n, u)  BY <1>2, CreateExact
<1>5. Created(n, s, u, OwnEntry(n, content, {}, dst, NO_ID))  BY <1>1, <1>2, CreateEffect
<1>6. /\ new \in DOMAIN u.g_msg_table /\ u.g_msg_table[new].content = content
      /\ u.MessageQueue = s.MessageQueue
  <2>1. new \in DOMAIN u.g_msg_table /\ u.g_msg_table[new].content = content
    BY <1>5 DEF Created, OwnEntry
  <2>2. u.MessageQueue = s.MessageQueue  BY <1>1, <1>5 DEF Created, NodeRecord
  <2>. QED  BY <2>1, <2>2
<1>7. u.mode # "off"  BY <1>3, LearnsMode
<1>. HIDE DEF new
<1>8. New(u, sent, new)
  <2>1. content = "gbcast" => DOMAIN u.MessageQueue = {}  BY <1>6
  <2>. QED  BY <1>6, <2>1 DEF New
<1>. QED  BY <1>3, <1>4, <1>6, <1>7, <1>8, QueueExact DEF new

LEMMA BootedExact ==
  ASSUME Acyclic, NEW n \in Node, NEW drawn \in Nat, NEW t, t = Booted(n, drawn)
  PROVE  Exact(n, t)
<1>. DEFINE s == Started(n, drawn)
            u == create_data_object(s, n, "gbcast", {}, BROADCAST_ID, NO_ID)
<1>1. t = queue_send(u, LastId(n, u), BROADCAST_ID, FALSE)  BY DEF Booted, Started
<1>. HIDE DEF s
<1>2. Ready(n, s, {}) /\ StartedFields(n, s, drawn)  BY StartedReady DEF s
<1>3. s.mode # "off" /\ s.MessageQueue = << >>  BY <1>2 DEF StartedFields
<1>4. Exact(n, s)  BY <1>2, CreateAligned DEF StartedFields, Exact
<1>5. /\ "gbcast" \in Content /\ "gbcast" \notin Responses
      /\ BROADCAST_ID \in Node \cup {NO_ID} /\ FALSE \in BOOLEAN
  BY DEF Content, Commands, Responses, BROADCAST_ID
<1>. HIDE DEF u
<1>. QED  BY <1>1, <1>2, <1>3, <1>4, <1>5, OwnExact DEF u

(* The mesh.                                                               *)
Straight ==
  /\ \A n \in Node : Exact(n, node[n])
  /\ \A m \in Node : \A k \in DOMAIN rx[m] : FrameTold(rx[m][k])

LEMMA WovenGrounded ==
  ASSUME Treed, Woven, Straight, NEW n \in Node
  PROVE  Grounded(n, Ways)
<1>. SUFFICES ASSUME NEW m \in Reach[n], NEW d \in Node, d # n, Way(Ways, m, d),
                     ~ Closer(m, n, d)
              PROVE  <<n, d>> \in Ways
  BY DEF Grounded
<1>1. m \in Node /\ n \in Reach[m]  BY MeshAssumption DEF Treed, Symmetric
<1>2. /\ Hops(m, d) = Hops(n, d) + 1 \/ Hops(n, d) = Hops(m, d) + 1
      /\ Hops(m, d) \in Nat /\ Hops(n, d) \in Nat /\ Hops(d, d) = 0
  BY <1>1, HopsAre DEF Treed
<1>3. Hops(m, d) = Hops(n, d) + 1  BY <1>2 DEF Closer
<1>4. m # d /\ Closer(n, m, d)  BY <1>1, <1>2, <1>3 DEF Closer
<1>. DEFINE r == node[m].router
<1>5. Leads(r, d)  BY <1>4 DEF Way, Ways
<1>6. node[m] \in NodeRecord  BY <1>1 DEF Woven, Sane, Types
<1>7. r \in RouterType /\ Guided(m, r, Ways) /\ Aligned(m, r)
  BY <1>1, <1>6 DEF NodeRecord, Woven, Bonded, Knows, Treed, Straight, Exact
<1>. HIDE DEF r
<1>8. Closer(BestRoute(r, d).intermediate_node, m, d)
  BY <1>1, <1>4, <1>5, <1>7, BestAligned DEF Leads, Treed
<1>9. BestRoute(r, d).intermediate_node = n  BY <1>1, <1>4, <1>8, HopsAre DEF Treed
<1>10. PICK j \in ActiveSlots(r.best_routing_info[d]) : BestRoute(r, d) = r.best_routing_info[d][j]
  BY <1>5, <1>7, BestIsActive DEF Leads
<1>11. Way(Ways, n, d)  BY <1>7, <1>9, <1>10 DEF Guided, SlotGuides, ActiveSlots
<1>. QED  BY <1>11 DEF Way

LEMMA WovenFirst ==
  ASSUME Treed, Woven, Straight, NEW n \in Node, NEW k \in DOMAIN rx[n]
  PROVE  First(n, node[n], rx[n][k])
<1>. DEFINE f == rx[n][k]
<1>1. Framed(n, f) /\ FrameTraced(n, f)  BY AirFramed DEF Treed
<1>2. f \in Frame /\ FrameOk(f)  BY DEF Woven, Sane, Types
<1>3. FrameTold(f)  BY DEF Straight
<1>. HIDE DEF f
<1>. SUFFICES ASSUME ~ Closer(f.from, n, f.origin) PROVE In(node[n], f.id)
  BY DEF First, f
<1>4. /\ f.from \in Node /\ f.origin \in Node /\ n \in Reach[f.from] /\ f.from \in Reach[n]
  BY <1>1, <1>2 DEF Frame, Framed, Treed, Symmetric
<1>5. /\ Hops(f.from, f.origin) = Hops(n, f.origin) + 1
           \/ Hops(n, f.origin) = Hops(f.from, f.origin) + 1
      /\ Hops(f.from, f.origin) \in Nat /\ Hops(n, f.origin) \in Nat
  BY <1>4, HopsAre DEF Treed
<1>6. Hops(f.from, f.origin) = Hops(n, f.origin) + 1  BY <1>4, <1>5 DEF Closer
<1>7. Closer(n, f.from, f.origin)  BY <1>4, <1>5, <1>6 DEF Closer
<1>. DEFINE s == node[f.from]
            e == s.g_msg_table[f.id]
<1>8. f.id \in DOMAIN s.g_msg_table  BY <1>1 DEF FrameTraced, In
<1>9. Told(f.from, e) /\ EntryOk(f.from, f.id, e)
  BY <1>4, <1>8 DEF Straight, Exact, Woven, Sane, Ready
<1>10. In(node[e.src_node], f.id)  BY <1>4, <1>8 DEF Woven, Traced, Treed
<1>. HIDE DEF s, e
<1>11. e.origin_node = f.origin  BY <1>2, <1>9 DEF EntryOk, FrameOk
<1>12. e.steps >= 1  BY <1>5, <1>6, <1>9, <1>11 DEF Told
<1>13. Closer(e.src_node, f.from, f.origin)  BY <1>9, <1>11, <1>12 DEF Told
<1>14. e.src_node = n  BY <1>4, <1>7, <1>13, HopsAre DEF Treed
<1>. QED  BY <1>10, <1>14

LEMMA StraightStep ==
  ASSUME Woven, Straight, NEW n \in Node, NEW t, node' = [node EXCEPT ![n] = t], Exact(n, t),
         \A m \in Node : \A k \in DOMAIN rx'[m] : FrameTold(rx'[m][k])
  PROVE  Straight'
<1>1. node \in [Node -> NodeRecord]  BY DEF Woven, Sane, Types
<1>2. ASSUME NEW m \in Node PROVE Exact(m, node'[m])
  <2>1. CASE m = n  BY <1>1, <2>1
  <2>2. CASE m # n  BY <1>1, <2>2 DEF Straight
  <2>. QED  BY <2>1, <2>2
<1>. QED  BY <1>2 DEF Straight

LEMMA OriginateStraight ==
  ASSUME Treed, Woven, Straight, NEW n \in Node, Up(n), NEW s,
         Ready(n, s, flooded[n]), Learns(n, node[n], s), Exact(n, s),
         NEW content \in Content, content \notin Responses \cup {"gbcast"},
         NEW dst \in Node \cup {NO_ID}, NEW target \in Node \cup {NO_ID},
         NEW use_router \in BOOLEAN, Originate(n, s, content, dst, target, use_router)
  PROVE  Straight'
<1>. DEFINE u == create_data_object(s, n, content, {}, dst, NO_ID)
            t == queue_send(u, LastId(n, u), target, use_router)
<1>1. node[n].mode # "off"  BY DEF Up
<1>2. s.mode # "off"  BY <1>1, LearnsMode
<1>3. node' = [node EXCEPT ![n] = t] /\ rx' = rx  BY DEF Originate, Become
<1>. HIDE DEF u
<1>4. Exact(n, t)  BY <1>2, OwnExact DEF u, Treed
<1>. HIDE DEF t
<1>. QED  BY <1>3, <1>4, StraightStep DEF Straight

LEMMA PingStraight ==
  ASSUME Woven, Straight, NEW n \in Node, NEW m \in Node, Ping(n, m)
  PROVE  Straight'
<1>. DEFINE s  == node[n]
            id == s.ping_id[m]
            u  == [s EXCEPT !.g_msg_table[id].ack_status = FALSE]
            t  == queue_send(u, id, m, TRUE)
<1>1. /\ s.mode = "up" /\ m \in DOMAIN s.ping_id /\ m # n
      /\ node' = [node EXCEPT ![n] = t] /\ rx' = rx
  BY DEF Ping, Up, Become
<1>2. Ready(n, s, flooded[n]) /\ s \in NodeRecord /\ s.mode # "off" /\ Exact(n, s)
  BY <1>1 DEF Woven, Sane, Ready, Straight
<1>3. id \in DOMAIN s.g_msg_table /\ IsPing(s.g_msg_table[id])
  BY <1>1, <1>2 DEF Ready, In
<1>. HIDE DEF id
<1>4. FALSE \in BOOLEAN /\ TRUE \in BOOLEAN /\ m \in Node \cup {NO_ID}  OBVIOUS
<1>5. Ready(n, u, flooded[n]) /\ Learns(n, s, u)  BY <1>2, <1>3, <1>4, MarkReady
<1>6. Exact(n, u)  BY <1>2, <1>3, <1>4, MarkExact
<1>. HIDE DEF u
<1>7. id \in DOMAIN u.g_msg_table /\ u.g_msg_table[id].content = "ping"
  BY <1>3, <1>5 DEF Learns, In, Stamp, IsPing
<1>8. u.mode # "off" /\ New(u, flooded[n], id)  BY <1>2, <1>5, <1>7, LearnsMode DEF New
<1>9. Exact(n, t)  BY <1>4, <1>5, <1>6, <1>7, <1>8, QueueExact
<1>. HIDE DEF t
<1>. QED  BY <1>1, <1>9, StraightStep DEF Straight

LEMMA TransmitStraight ==
  ASSUME Woven, Straight, NEW n \in Node, Transmit(n)
  PROVE  Straight'
<1>. DEFINE s  == node[n]
            id == Head(s.MessageQueue)
            e  == s.g_msg_table[id]
            f  == FrameOf(n, id, e)
            t  == [s EXCEPT !.MessageQueue = Tail(s.MessageQueue)]
            heard == {m \in Reach[n] : Up(m) /\ e.target_node \in {BROADCAST_ID, m}}
<1>1. s.MessageQueue # << >> /\ node' = [node EXCEPT ![n] = t]
  BY DEF Transmit, Sends
<1>2. PICK D \in SUBSET heard :
        rx' = [m \in Node |-> IF m \in D THEN Append(rx[m], f) ELSE rx[m]]
  <2>1. \E D \in IF Lossy THEN SUBSET heard ELSE {heard} :
          rx' = [m \in Node |-> IF m \in D THEN Append(rx[m], f) ELSE rx[m]]
    BY DEF Transmit, FrameOf
  <2>. HIDE DEF heard, f
  <2>. QED  BY <2>1
<1>3. s \in NodeRecord /\ s.MessageQueue \in Seq(DOMAIN s.g_msg_table) /\ Exact(n, s)
  BY DEF Woven, Sane, Ready, Straight
<1>4. id \in DOMAIN s.g_msg_table  BY <1>1, <1>3
<1>5. FrameTold(f)
  <2>1. Told(n, e)  BY <1>3, <1>4 DEF Exact
  <2>2. f.from = n /\ f.steps = e.steps /\ f.origin = e.origin_node /\ f.pairs = e.pairs
    BY DEF FrameOf
  <2>. QED  BY <2>1, <2>2 DEF Told, FrameTold
<1>6. rx \in [Node -> Seq(Frame)]  BY DEF Woven, Sane, Types
<1>. HIDE DEF f, heard
<1>7. ASSUME NEW m \in Node, NEW k \in DOMAIN rx'[m] PROVE FrameTold(rx'[m][k])
  <2>1. CASE m \notin D
    <3>1. rx'[m] = rx[m]  BY <1>2, <2>1
    <3>. QED  BY <1>7, <3>1 DEF Straight
  <2>2. CASE m \in D
    <3>1. rx[m] \in Seq(Frame) /\ rx'[m] = Append(rx[m], f)  BY <1>2, <1>6, <2>2
    <3>2. \/ k \in DOMAIN rx[m] /\ rx'[m][k] = rx[m][k]
          \/ rx'[m][k] = f
      BY <1>7, <3>1
    <3>. QED  BY <1>5, <3>2 DEF Straight
  <2>. QED  BY <2>1, <2>2
<1>8. t.g_msg_table = s.g_msg_table /\ t.router = s.router  BY <1>3 DEF NodeRecord
<1>. HIDE DEF t
<1>9. Exact(n, t)  BY <1>3, <1>8, RouterExact DEF Exact
<1>. QED  BY <1>1, <1>7, <1>9, StraightStep

LEMMA ReceiveStraight ==
  ASSUME Treed, Woven, Straight, NEW n \in Node, Receive(n)
  PROVE  Straight'
<1>. DEFINE s == node[n]
            f == Head(rx[n])
            t == rcv_handler(s, n, f)
<1>1. /\ s.mode = "up" /\ rx[n] # << >> /\ rx' = [rx EXCEPT ![n] = Tail(@)]
      /\ node' = [node EXCEPT ![n] = t]
  BY DEF Receive, Takes, Up
<1>2. Sane  BY DEF Woven
<1>3. /\ f \in Frame /\ FrameOk(f)
      /\ f.id[1] = n => f.id[2] \in 1 .. s.drawn
      /\ In(s, f.id) => Body(s.g_msg_table[f.id]) = FrameBody(f)
  BY <1>1, <1>2, HeadArrives
<1>4. rx \in [Node -> Seq(Frame)]  BY DEF Woven, Sane, Types
<1>5. Taken(rx[n], Tail(rx[n]), Frame)  BY <1>1, <1>4, TailIs
<1>6. 1 \in DOMAIN rx[n] /\ f = rx[n][1]  BY <1>1, <1>4
<1>7. Framed(n, f) /\ FrameTraced(n, f) /\ FrameTold(f) /\ First(n, s, f)
  BY <1>6, AirFramed, WovenFirst DEF Treed, Straight
<1>. HIDE DEF f
<1>8. Arrives(n, s, f, Ways)  BY <1>3, <1>7 DEF Arrives, FrameTraced
<1>9. Ready(n, s, flooded[n]) /\ s.mode # "off" /\ Bonded(n, s, Ways) /\ Exact(n, s)
  BY <1>1 DEF Woven, Sane, Straight
<1>10. Exact(n, t)  BY <1>7, <1>8, <1>9, WovenGrounded, HandlerExact
<1>. HIDE DEF t
<1>11. ASSUME NEW m \in Node, NEW k \in DOMAIN rx'[m] PROVE FrameTold(rx'[m][k])
  <2>1. CASE m = n
    <3>1. k + 1 \in DOMAIN rx[n] /\ rx'[m][k] = rx[n][k + 1]
      BY <1>1, <1>4, <1>5, <1>11, <2>1 DEF Taken
    <3>. QED  BY <3>1 DEF Straight
  <2>2. CASE m # n
    <3>1. rx'[m] = rx[m]  BY <1>1, <1>4, <2>2
    <3>. QED  BY <1>11, <3>1 DEF Straight
  <2>. QED  BY <2>1, <2>2
<1>. QED  BY <1>1, <1>10, <1>11, StraightStep

LEMMA StraightInit == Acyclic /\ Init => Straight
<1>. SUFFICES ASSUME Acyclic, Init PROVE Straight  OBVIOUS
<1>1. \A m \in Node : DOMAIN rx[m] = {}  BY DEF Init
<1>2. ASSUME NEW n \in Node PROVE Exact(n, node[n])
  <2>1. CASE n \notin Quiet
    <3>1. node[n] = Off  BY <2>1 DEF Init
    <3>2. Off.router = create_router(0)  BY DEF Off
    <3>. QED  BY <3>1, <3>2, CreateAligned, OffIsRecord DEF Exact
  <2>2. CASE n \in Quiet
    <3>. DEFINE b == Booted(n, 0)
    <3>1. node[n] = [b EXCEPT !.MessageQueue = << >>]  BY <2>2 DEF Init
    <3>2. Exact(n, b)  BY BootedExact
    <3>. HIDE DEF b
    <3>3. b \in NodeRecord  BY BootedReady DEF b, Ready
    <3>4. node[n].g_msg_table = b.g_msg_table /\ node[n].router = b.router
      BY <3>1, <3>3 DEF NodeRecord
    <3>. QED  BY <3>2, <3>4, RouterExact DEF Exact
  <2>. QED  BY <2>1, <2>2
<1>. QED  BY <1>1, <1>2 DEF Straight

LEMMA StraightNext == Treed /\ Woven /\ Straight /\ [Next]_vars => Straight'
<1>. SUFFICES ASSUME Treed, Woven, Straight, [Next]_vars PROVE Straight'  OBVIOUS
<1>1. ASSUME NEW n \in Node
      PROVE  /\ node[n] \in NodeRecord /\ Ready(n, node[n], flooded[n])
             /\ Learns(n, node[n], node[n]) /\ Exact(n, node[n])
  <2>1. node[n] \in NodeRecord  BY DEF Woven, Sane, Types
  <2>. QED  BY <2>1, LearnsSame DEF Woven, Sane, Straight
<1>2. ASSUME NEW n \in Node, Transmit(n) PROVE Straight'  BY <1>2, TransmitStraight
<1>3. ASSUME NEW n \in Node, Receive(n) PROVE Straight'  BY <1>3, ReceiveStraight
<1>4. ASSUME NEW n \in Node, Boot(n) PROVE Straight'
  <2>1. node' = [node EXCEPT ![n] = Booted(n, 0)] /\ rx' = rx  BY <1>4 DEF Boot
  <2>2. Exact(n, Booted(n, 0))  BY BootedExact DEF Treed
  <2>. QED  BY <2>1, <2>2, StraightStep DEF Straight
<1>5. ASSUME NEW n \in Node, Restart(n) PROVE Straight'
  <2>1. [op |-> "restart", at |-> n, on |-> NO_ID] \in todo  BY <1>5 DEF Restart, Do
  <2>2. ~ Steady  BY <2>1 DEF Woven, Sane, Types, Steady
  <2>. QED  BY <2>2 DEF Treed
<1>6. ASSUME NEW n \in Node, rquery_task(n) PROVE Straight'
  <2>1. Up(n) /\ Originate(n, node[n], "rquery", BROADCAST_ID, BROADCAST_ID, FALSE)
    BY <1>6 DEF rquery_task
  <2>. QED  BY <1>1, <2>1, ContentsAre, OriginateStraight
<1>7. ASSUME NEW n \in Node, NEW m \in Node, Ping(n, m) PROVE Straight'
  BY <1>7, PingStraight
<1>8. ASSUME NEW n \in Node, NEW m \in Node, SysUnlink(n, m) PROVE Straight'
  <2>1. [op |-> "unlink", at |-> n, on |-> m] \in todo  BY <1>8 DEF SysUnlink, Do
  <2>2. ~ Uncut  BY <2>1 DEF Woven, Sane, Types, Uncut
  <2>. QED  BY <2>2 DEF Treed
<1>9. ASSUME NEW n \in Node, NEW m \in Node, SysLink(n, m) PROVE Straight'
  <2>. DEFINE s == SetNeighborLink(node[n], m, TRUE)
  <2>1. Up(n) /\ Originate(n, s, "link", m, m, FALSE)  BY <1>9 DEF SysLink
  <2>2. node[n].mode # "off"  BY <2>1 DEF Up
  <2>3. Ready(n, s, flooded[n]) /\ Learns(n, node[n], s)
    BY <1>1, <2>2, SetNeighborLinkReady
  <2>4. TRUE \in BOOLEAN  OBVIOUS
  <2>. HIDE DEF s
  <2>5. Exact(n, s)  BY <1>1, <2>4, SetNeighborLinkExact DEF s
  <2>. QED  BY <2>1, <2>3, <2>5, ContentsAre, OriginateStraight
<1>10. ASSUME NEW n \in Node, NEW m \in Node \cup {NO_ID}, Post(n, m) PROVE Straight'
  <2>1. Up(n) /\ Originate(n, node[n], "chat", m, m, TRUE)  BY <1>10 DEF Post
  <2>. QED  BY <1>1, <2>1, ContentsAre, OriginateStraight
<1>11. ASSUME UNCHANGED vars PROVE Straight'  BY <1>11 DEF vars, Straight
<1>. QED
  BY <1>2, <1>3, <1>4, <1>5, <1>6, <1>7, <1>8, <1>9, <1>10, <1>11 DEF Next

LEMMA SpecStraight == Treed => (Spec => [](Woven /\ Straight))
<1>. SUFFICES ASSUME Treed PROVE Spec => [](Woven /\ Straight)  OBVIOUS
<1>1. Init => Woven /\ Straight  BY WovenInit, StraightInit DEF Treed
<1>2. (Woven /\ Straight) /\ [Next]_vars => (Woven /\ Straight)'
  BY WovenNext, StraightNext DEF Treed
<1>. QED  BY <1>1, <1>2, PTL DEF Spec

(* In a mesh without cycles, where nodes hear whom they reach, no link is  *)
(* cut and no node restarts, following next hops towards a destination     *)
(* never comes back, whatever is lost and in whatever order frames and     *)
(* answers come in: a node first hears of another from the neighbour on    *)
(* the way to it, and keeps that neighbour's slot when it evicts a         *)
(* farthest one (lora_uart.c:294-300, routing.c:106-112, 158-175, 344-354).*)
THEOREM NoLoops ==
  Roomy /\ Symmetric /\ Uncut /\ Steady /\ Acyclic => (Spec => []LoopFree)
<1>. SUFFICES ASSUME Treed PROVE Spec => []LoopFree  BY DEF Treed
<1>1. Woven /\ Straight => LoopFree
  <2>. SUFFICES ASSUME Woven, Straight, NEW d \in Node, NEW S \in SUBSET (Node \ {d}), S # {},
                       \A n \in S : Routes(n, d) /\ NextHop(n, d) \in S
                PROVE  FALSE
    BY DEF LoopFree
  <2>. DEFINE Far == {Hops(n, d) : n \in S}
  <2>1. \A n \in S : n \in Node /\ n # d /\ Hops(n, d) \in Nat  BY HopsAre DEF Treed
  <2>2. Far \in SUBSET Nat /\ Far # {}  BY <2>1
  <2>3. PICK h \in Far : \A j \in Far : h <= j
    <3>. HIDE DEF Far
    <3>. QED  BY <2>2, LeastExists
  <2>4. PICK n \in S : Hops(n, d) = h  BY <2>3
  <2>. DEFINE r == node[n].router
  <2>5. node[n] \in NodeRecord  BY <2>1 DEF Woven, Sane, Types
  <2>6. r \in RouterType /\ Guided(n, r, Ways) /\ Aligned(n, r)
    BY <2>1, <2>5 DEF NodeRecord, Woven, Bonded, Knows, Treed, Straight, Exact
  <2>7. d \in Known(r) /\ Routed(r, d)  BY DEF Routes, Router
  <2>8. NextHop(n, d) = BestRoute(r, d).intermediate_node
    BY <2>7 DEF NextHop, Router, router_query_intermediate
  <2>. HIDE DEF r
  <2>9. Closer(NextHop(n, d), n, d)  BY <2>1, <2>6, <2>7, <2>8, BestAligned DEF Treed
  <2>10. NextHop(n, d) \in S  OBVIOUS
  <2>11. Hops(NextHop(n, d), d) \in Far /\ Hops(NextHop(n, d), d) \in Nat  BY <2>1, <2>10
  <2>12. h <= Hops(NextHop(n, d), d)  BY <2>3, <2>11
  <2>. QED  BY <2>1, <2>4, <2>9, <2>11, <2>12 DEF Closer
<1>. QED  BY <1>1, SpecStraight, PTL

----------------------------------------------------------------------------
(* When everything sent has arrived, both ends of a link agree whether it  *)
(* is cut, for any finite set of nodes, any topology and any script of     *)
(* boots, queries, pings, posts and unlinks.                               *)
(*                                                                         *)
(* Cuts is what the operators of the handler do to the links, the queue    *)
(* and the messages of a node; Heeds is what a whole run of the handler    *)
(* does.  Matched is the invariant of the mesh: whoever has cut a link is  *)
(* followed by the other end, which has cut it too, or has a "y" for it on *)
(* the way or in the sender's queue.                                       *)

(* Hypotheses: besides, no frame is lost and nobody makes up a link again. *)
Reliable == ~ Lossy
Unjoined == \A o \in Script : o.op # "link"

----------------------------------------------------------------------------
(* What a node does.                                                       *)

Extends(q, p) == \A k \in DOMAIN q : k \in DOMAIN p /\ p[k] = q[k]

(* From s to t a node cuts its links to C, and no other, and what it makes *)
(* besides ids agrees to unlinks only as A tells: who asked, and in what.  *)
Cuts(s, t, ids, C, A) ==
  /\ \A m \in Node :
       IF m \in C THEN ~ t.link_enabled[m] ELSE t.link_enabled[m] = s.link_enabled[m]
  /\ Extends(s.MessageQueue, t.MessageQueue)
  /\ \A id \in DOMAIN t.g_msg_table \ ids :
       LET e == t.g_msg_table[id]
       IN  e.content # "link" /\ (e.content = "y" => <<e.dst_node, e.ack_for>> \in A)

Makes(s, t, C, A) == Cuts(s, t, DOMAIN s.g_msg_table, C, A)

(* A "y" for m is in the queue.                                            *)
Owes(s, m) ==
  \E k \in DOMAIN s.MessageQueue :
    LET e == s.g_msg_table[s.MessageQueue[k]] IN e.content = "y" /\ e.dst_node = m

LEMMA CutsTwice ==
  ASSUME NEW n, NEW s, NEW t, NEW u, NEW ids, NEW C, NEW A, NEW D, NEW B,
         Cuts(s, t, ids, C, A), Makes(t, u, D, B), Learns(n, t, u)
  PROVE  Cuts(s, u, ids, C \cup D, A \cup B)
<1>1. ASSUME NEW m \in Node
      PROVE  IF m \in C \cup D THEN ~ u.link_enabled[m]
             ELSE u.link_enabled[m] = s.link_enabled[m]
  BY DEF Cuts, Makes
<1>2. Extends(s.MessageQueue, u.MessageQueue)  BY DEF Cuts, Makes, Extends
<1>3. ASSUME NEW id \in DOMAIN u.g_msg_table \ ids, NEW e, e = u.g_msg_table[id]
      PROVE  e.content # "link" /\ (e.content = "y" => <<e.dst_node, e.ack_for>> \in A \cup B)
  <2>1. CASE id \in DOMAIN t.g_msg_table
    <3>. DEFINE x == t.g_msg_table[id]
    <3>1. e.content = x.content /\ e.dst_node = x.dst_node /\ e.ack_for = x.ack_for
      BY <1>3, <2>1 DEF Learns, Stamp
    <3>2. x.content # "link" /\ (x.content = "y" => <<x.dst_node, x.ack_for>> \in A)
      BY <1>3, <2>1 DEF Cuts
    <3>. QED  BY <3>1, <3>2
  <2>2. CASE id \notin DOMAIN t.g_msg_table  BY <1>3, <2>2 DEF Cuts, Makes
  <2>. QED  BY <2>1, <2>2
<1>. QED  BY <1>1, <1>2, <1>3 DEF Cuts

LEMMA CalmAfter ==
  ASSUME NEW n, NEW s, NEW t, NEW u, NEW ids, NEW C, NEW A,
         Cuts(s, t, ids, C, A), Makes(t, u, {}, {}), Learns(n, t, u)
  PROVE  Cuts(s, u, ids, C, A)
<1>1. Cuts(s, u, ids, C \cup {}, A \cup {})  BY CutsTwice
<1>2. C \cup {} = C /\ A \cup {} = A  OBVIOUS
<1>. QED  BY <1>1, <1>2

LEMMA CalmBefore ==
  ASSUME NEW n, NEW s, NEW t, NEW u, NEW ids, NEW C, NEW A,
         Cuts(s, t, ids, {}, {}), Makes(t, u, C, A), Learns(n, t, u)
  PROVE  Cuts(s, u, ids, C, A)
<1>1. Cuts(s, u, ids, {} \cup C, {} \cup A)  BY CutsTwice
<1>2. {} \cup C = C /\ {} \cup A = A  OBVIOUS
<1>. QED  BY <1>1, <1>2

LEMMA PlainCalm ==
  ASSUME NEW s, NEW t, t.link_enabled = s.link_enabled, t.MessageQueue = s.MessageQueue,
         NEW ids, DOMAIN t.g_msg_table \subseteq ids
  PROVE  Cuts(s, t, ids, {}, {})
BY DEF Cuts, Extends

LEMMA CreateCuts ==
  ASSUME NEW n, NEW s \in NodeRecord, NEW t, NEW e, Created(n, s, t, e), e.content # "link",
         NEW A, e.content = "y" => <<e.dst_node, e.ack_for>> \in A
  PROVE  Makes(s, t, {}, A)
<1>. DEFINE new == LastId(n, t)
<1>1. /\ t.link_enabled = s.link_enabled /\ t.MessageQueue = s.MessageQueue
      /\ DOMAIN t.g_msg_table = DOMAIN s.g_msg_table \cup {new}
      /\ t.g_msg_table[new] = e
  BY DEF Created, NodeRecord
<1>. HIDE DEF new
<1>. QED  BY <1>1 DEF Makes, Cuts, Extends

LEMMA QueueCalm ==
  ASSUME NEW s \in NodeRecord, NEW id \in DOMAIN s.g_msg_table,
         NEW target \in Node \cup {NO_ID}, NEW use_router \in BOOLEAN,
         NEW t, t = queue_send(s, id, target, use_router)
  PROVE  Makes(s, t, {}, {})
<1>1. s.MessageQueue \in Seq(Id)  BY DEF NodeRecord
<1>2. CASE t = s  BY <1>2, PlainCalm DEF Makes
<1>3. ASSUME NEW final, Queued(s, t, id, final) PROVE Makes(s, t, {}, {})
  <2>1. /\ t.link_enabled = s.link_enabled /\ DOMAIN t.g_msg_table = DOMAIN s.g_msg_table
        /\ t.MessageQueue = s.MessageQueue \/ t.MessageQueue = Append(s.MessageQueue, id)
    BY <1>3 DEF Queued, NodeRecord
  <2>2. Extends(s.MessageQueue, t.MessageQueue)  BY <1>1, <2>1 DEF Extends
  <2>. QED  BY <2>1, <2>2 DEF Makes, Cuts
<1>. QED  BY <1>2, <1>3, QueueEffect

LEMMA NotesCalm ==
  ASSUME NEW n, NEW s, NEW t, Notes(n, s, t)
  PROVE  Makes(s, t, {}, {})
<1>1. \A m : OwnEntry(n, "ping", {}, m, NO_ID).content = "ping"  BY DEF OwnEntry
<1>2. \A id \in DOMAIN t.g_msg_table \ DOMAIN s.g_msg_table : t.g_msg_table[id].content = "ping"
  BY <1>1 DEF Notes
<1>. QED  BY <1>2 DEF Notes, Makes, Cuts, Extends

(* A message of the node's own, made and queued.                           *)
LEMMA OwnCuts ==
  ASSUME NEW n \in Node, NEW s, NEW sent, Ready(n, s, sent), s.mode # "off",
         NEW content \in Content, content # "link", NEW pairs \in SUBSET Pair,
         NEW dst \in Node \cup {NO_ID}, NEW ack_for \in Id \cup {NO_ID},
         ack_for = NO_ID <=> content \notin Responses,
         NEW target \in Node \cup {NO_ID}, NEW use_router \in BOOLEAN,
         NEW A, content = "y" => <<dst, ack_for>> \in A,
         NEW u, u = create_data_object(s, n, content, pairs, dst, ack_for),
         NEW t, t = queue_send(u, LastId(n, u), target, use_router)
  PROVE  Makes(s, t, {}, A)
<1>. DEFINE e == OwnEntry(n, content, pairs, dst, ack_for)
            new == LastId(n, u)
<1>1. s \in NodeRecord  BY DEF Ready
<1>2. Created(n, s, u, e)  BY <1>1, CreateEffect
<1>3. e.content = content /\ e.dst_node = dst /\ e.ack_for = ack_for  BY DEF OwnEntry
<1>. HIDE DEF e
<1>4. Makes(s, u, {}, A)  BY <1>1, <1>2, <1>3, CreateCuts
<1>5. u \in NodeRecord /\ new \in DOMAIN u.g_msg_table  BY <1>2 DEF Created
<1>. HIDE DEF new
<1>6. Makes(u, t, {}, {})  BY <1>5, QueueCalm DEF new
<1>7. Learns(n, u, t)
  <2>1. t = u \/ \E final : Queued(u, t, new, final)  BY <1>5, QueueEffect DEF new
  <2>2. CASE t = u  BY <1>5, <2>2, LearnsSame
  <2>3. ASSUME NEW final, Queued(u, t, new, final) PROVE Learns(n, u, t)
    <3>1. u.drawn \in Nat /\ t.drawn = u.drawn /\ t.mode = u.mode
      BY <1>5, <2>3 DEF Queued, NodeRecord
    <3>2. u.g_msg_table[new] \in DataEntry  BY <1>5, EntryType
    <3>3. Stamp(t.g_msg_table[new]) = Stamp(u.g_msg_table[new])
      BY <2>3, <3>2 DEF Queued, Stamp, DataEntry
    <3>. QED  BY <2>3, <3>1, <3>3 DEF Queued, Learns, In
  <2>. QED  BY <2>1, <2>2, <2>3
<1>. QED  BY <1>4, <1>6, <1>7, CalmAfter DEF Makes

(* An answer that goes straight out has a place in a queue with room.      *)
LEMMA RespondOwes ==
  ASSUME NEW n \in Node, NEW s, NEW sent, Ready(n, s, sent), s.mode # "off",
         NEW id \in DOMAIN s.g_msg_table, Len(s.MessageQueue) < QUEUE_LENGTH,
         NEW t, t = Respond(s, n, id, "y", {}, FALSE)
  PROVE  Owes(t, s.g_msg_table[id].origin_node)
<1>. DEFINE x == s.g_msg_table[id]
            u == create_data_object(s, n, "y", {}, x.origin_node, id)
            new == LastId(n, u)
            e == OwnEntry(n, "y", {}, x.origin_node, id)
<1>1. s \in NodeRecord  BY DEF Ready
<1>2. x \in DataEntry /\ id \in Id  BY <1>1, EntryType, TableIs DEF NodeRecord
<1>3. x.origin_node \in Node /\ x.src_node \in Node  BY <1>2 DEF DataEntry
<1>4. t = queue_send(u, new, x.src_node, FALSE)  BY DEF Respond
<1>. HIDE DEF x
<1>5. "y" \in Content /\ {} \in SUBSET Pair /\ x.origin_node \in Node \cup {NO_ID}
      /\ id \in Id \cup {NO_ID} /\ x.src_node \in Node \cup {NO_ID} /\ FALSE \in BOOLEAN
  BY <1>2, <1>3 DEF Content, Responses
<1>6. Created(n, s, u, e)  BY <1>1, <1>5, CreateEffect
<1>7. e.content = "y" /\ e.dst_node = x.origin_node  BY DEF OwnEntry
<1>. HIDE DEF u, e
<1>8. /\ u \in NodeRecord /\ u.MessageQueue = s.MessageQueue
      /\ new \in DOMAIN u.g_msg_table /\ u.g_msg_table[new] = e
  BY <1>1, <1>6 DEF Created, NodeRecord
<1>. HIDE DEF new
<1>9. t.MessageQueue = Append(u.MessageQueue, new)
      /\ t.g_msg_table[new].content = e.content /\ t.g_msg_table[new].dst_node = e.dst_node
  <2>1. u.g_msg_table[new] \in DataEntry  BY <1>8, EntryType
  <2>2. t = [u EXCEPT !.g_msg_table[new].target_node = x.src_node,
                      !.MessageQueue = Append(u.MessageQueue, new)]
    BY <1>4, <1>8 DEF queue_send
  <2>3. t.MessageQueue = Append(u.MessageQueue, new)
        /\ t.g_msg_table = [u.g_msg_table EXCEPT ![new].target_node = x.src_node]
    BY <1>8, <2>2 DEF NodeRecord
  <2>4. t.g_msg_table[new] = [u.g_msg_table[new] EXCEPT !.target_node = x.src_node]
    BY <1>8, <2>3
  <2>. QED  BY <1>8, <2>1, <2>3, <2>4 DEF DataEntry
<1>10. u.MessageQueue \in Seq(Id) /\ new \in Id  BY <1>8, TableIs DEF NodeRecord
<1>. DEFINE q == u.MessageQueue
<1>11. Len(q) + 1 \in DOMAIN t.MessageQueue /\ t.MessageQueue[Len(q) + 1] = new
  <2>1. t.MessageQueue = Append(q, new) /\ q \in Seq(Id)  BY <1>9, <1>10
  <2>. HIDE DEF q
  <2>2. Len(q) \in Nat /\ DOMAIN Append(q, new) = 1 .. Len(q) + 1
        /\ Append(q, new)[Len(q) + 1] = new
    BY <1>10, <2>1
  <2>3. Len(q) + 1 \in 1 .. Len(q) + 1  BY <2>2
  <2>. QED  BY <2>1, <2>2, <2>3
<1>. HIDE DEF q
<1>12. Owes(t, x.origin_node)  BY <1>7, <1>8, <1>9, <1>11 DEF Owes
<1>. QED  BY <1>12 DEF x

LEMMA RespondCuts ==
  ASSUME NEW n \in Node, NEW s, NEW sent, Ready(n, s, sent), s.mode # "off",
         NEW id \in DOMAIN s.g_msg_table, NEW content \in Responses,
         NEW pairs \in SUBSET Pair, NEW use_router \in BOOLEAN,
         NEW A, content = "y" => <<s.g_msg_table[id].origin_node, id>> \in A,
         NEW t, t = Respond(s, n, id, content, pairs, use_router)
  PROVE  Makes(s, t, {}, A) /\ Learns(n, s, t)
<1>. DEFINE e == s.g_msg_table[id]
            u == create_data_object(s, n, content, pairs, e.origin_node, id)
<1>1. s \in NodeRecord  BY DEF Ready
<1>2. e \in DataEntry /\ id \in Id  BY <1>1, TableIs DEF NodeRecord
<1>3. e.origin_node \in Node \cup {NO_ID} /\ e.src_node \in Node \cup {NO_ID}
  BY <1>2 DEF DataEntry
<1>4. t = queue_send(u, LastId(n, u), e.src_node, use_router)  BY DEF Respond
<1>5. content \in Content /\ content # "link"  BY DEF Content, Responses
<1>6. id # NO_ID /\ id \in Id \cup {NO_ID} /\ (id = NO_ID <=> content \notin Responses)
  BY <1>2, MeshAssumption DEF Id
<1>7. Learns(n, s, t)  BY RespondReady
<1>. HIDE DEF e, u
<1>8. Makes(s, t, {}, A)  BY <1>3, <1>4, <1>5, <1>6, OwnCuts DEF u, e
<1>. QED  BY <1>7, <1>8

LEMMA SetNeighborLinkCuts ==
  ASSUME NEW s \in NodeRecord, NEW m \in Node, NEW t, t = SetNeighborLink(s, m, FALSE)
  PROVE  Makes(s, t, {m}, {}) /\ t.g_msg_table = s.g_msg_table
         /\ t.MessageQueue = s.MessageQueue
<1>1. /\ t.link_enabled = [s.link_enabled EXCEPT ![m] = FALSE]
      /\ t.g_msg_table = s.g_msg_table /\ t.MessageQueue = s.MessageQueue
  BY DEF SetNeighborLink, NodeRecord
<1>2. s.link_enabled \in [Node -> BOOLEAN]  BY DEF NodeRecord
<1>3. \A x \in Node : IF x \in {m} THEN ~ t.link_enabled[x]
                      ELSE t.link_enabled[x] = s.link_enabled[x]
  BY <1>1, <1>2
<1>. QED  BY <1>1, <1>3 DEF Makes, Cuts, Extends

(* What an unlink asked by m in message id makes of a node.                *)
Consents(s, t, m, id) ==
  /\ Makes(s, t, {m}, {<<m, id>>})
  /\ Len(s.MessageQueue) < QUEUE_LENGTH => Owes(t, m)

LEMMA HandleCommandCuts ==
  ASSUME NEW n \in Node, NEW s, NEW sent, Ready(n, s, sent), s.mode # "off",
         NEW id \in DOMAIN s.g_msg_table, New(s, sent, id), s.g_msg_table[id].content # "link",
         NEW t, t = HandleCommand(s, n, id)
  PROVE  \/ Makes(s, t, {}, {})
         \/ s.g_msg_table[id].content = "unlink"
            /\ Consents(s, t, s.g_msg_table[id].origin_node, id)
<1>. DEFINE e == s.g_msg_table[id]
<1>1. s \in NodeRecord  BY DEF Ready
<1>2. e \in DataEntry /\ id \in Id  BY <1>1, TableIs DEF NodeRecord
<1>3. e.origin_node \in Node /\ e.src_node \in Node  BY <1>2 DEF DataEntry
<1>4. /\ {} \in SUBSET Pair /\ TRUE \in BOOLEAN /\ FALSE \in BOOLEAN
      /\ \A c \in {"name", "routes", "n"} : c \in Responses /\ c # "y"
      /\ "y" \in Responses
  BY DEF Responses
<1>5. Makes(s, s, {}, {})  BY PlainCalm DEF Makes
<1>6. ASSUME NEW u, Ready(n, u, sent), Learns(n, s, u), Makes(s, u, {}, {}),
             NEW content \in {"name", "routes", "n"}, NEW pairs \in SUBSET Pair,
             t = Respond(u, n, id, content, pairs, TRUE)
      PROVE  Makes(s, t, {}, {})
  <2>1. id \in DOMAIN u.g_msg_table /\ u.mode # "off"
    BY <1>6, LearnsMode DEF Learns, In
  <2>2. content \in Responses /\ (content = "y" => <<u.g_msg_table[id].origin_node, id>> \in {})
    BY <1>4
  <2>3. Makes(u, t, {}, {}) /\ Learns(n, u, t)  BY <1>4, <1>6, <2>1, <2>2, RespondCuts
  <2>. QED  BY <1>6, <2>3, CalmAfter DEF Makes
<1>7. Ready(n, s, sent) /\ Learns(n, s, s)  BY <1>1, LearnsSame
<1>8. CASE e.content = "ping"
  <2>1. t = Respond(s, n, id, "name", {}, TRUE)  BY <1>8 DEF HandleCommand
  <2>. QED  BY <1>4, <1>5, <1>6, <1>7, <2>1
<1>9. CASE e.content = "gbcast"
  <2>. DEFINE u == queue_send(s, id, BROADCAST_ID, FALSE)
  <2>1. t = Respond(u, n, id, "name", {}, TRUE)  BY <1>9 DEF HandleCommand
  <2>2. BROADCAST_ID \in Node \cup {NO_ID}  BY DEF BROADCAST_ID
  <2>3. Ready(n, u, sent) /\ Learns(n, s, u)  BY <1>4, <2>2, QueueReady DEF New
  <2>4. Makes(s, u, {}, {})  BY <1>1, <1>4, <2>2, QueueCalm
  <2>. HIDE DEF u
  <2>. QED  BY <1>4, <1>6, <2>1, <2>3, <2>4
<1>10. CASE e.content = "rquery"
  <2>. DEFINE u == [s EXCEPT !.last_rquery[e.src_node] = s.router.discovery_seq]
              pairs == router_answer_rquery(s.router, e.src_node, s.last_rquery[e.src_node],
                                            RQUERY_COUNT)
  <2>1. t = Respond(u, n, id, "routes", pairs, TRUE)  BY <1>10 DEF HandleCommand
  <2>2. Ready(n, u, sent) /\ Learns(n, s, u)  BY <1>3, QueriedReady
  <2>3. pairs \in SUBSET Pair  BY <1>1, AnswerType DEF NodeRecord
  <2>4. u.link_enabled = s.link_enabled /\ u.MessageQueue = s.MessageQueue
        /\ u.g_msg_table = s.g_msg_table
    BY <1>1 DEF NodeRecord
  <2>. HIDE DEF u, pairs
  <2>5. Makes(s, u, {}, {})  BY <2>4, PlainCalm DEF Makes
  <2>. QED  BY <1>6, <2>1, <2>2, <2>3, <2>5
<1>11. CASE e.content = "unlink" /\ e.steps # 1
  <2>1. t = Respond(s, n, id, "n", {}, TRUE)  BY <1>11 DEF HandleCommand
  <2>. QED  BY <1>4, <1>5, <1>6, <1>7, <2>1
<1>12. CASE e.content = "unlink" /\ e.steps = 1
  <2>. DEFINE m == e.origin_node
              u == SetNeighborLink(s, m, FALSE)
  <2>1. t = Respond(u, n, id, "y", {}, FALSE)  BY <1>12 DEF HandleCommand
  <2>2. Ready(n, u, sent) /\ Learns(n, s, u)  BY <1>3, <1>4, SetNeighborLinkReady
  <2>3. Makes(s, u, {m}, {}) /\ u.g_msg_table = s.g_msg_table
        /\ u.MessageQueue = s.MessageQueue
    BY <1>1, <1>3, SetNeighborLinkCuts
  <2>. HIDE DEF u
  <2>4. u.mode # "off" /\ id \in DOMAIN u.g_msg_table
        /\ u.g_msg_table[id].origin_node = m
    BY <2>2, <2>3, LearnsMode
  <2>5. Makes(u, t, {}, {<<m, id>>}) /\ Learns(n, u, t)
    <3>1. <<u.g_msg_table[id].origin_node, id>> \in {<<m, id>>}  BY <2>4
    <3>. HIDE DEF m
    <3>. QED  BY <1>4, <2>1, <2>2, <2>4, <3>1, RespondCuts
  <2>6. Makes(s, t, {m}, {<<m, id>>})
    <3>1. Cuts(s, t, DOMAIN s.g_msg_table, {m} \cup {}, {} \cup {<<m, id>>})
      BY <2>3, <2>5, CutsTwice DEF Makes
    <3>2. {m} \cup {} = {m} /\ {} \cup {<<m, id>>} = {<<m, id>>}  OBVIOUS
    <3>. QED  BY <3>1, <3>2 DEF Makes
  <2>7. ASSUME Len(s.MessageQueue) < QUEUE_LENGTH PROVE Owes(t, m)
    BY <2>1, <2>2, <2>3, <2>4, <2>7, RespondOwes
  <2>. QED  BY <1>12, <2>6, <2>7 DEF Consents
<1>13. CASE e.content \notin {"ping", "gbcast", "rquery", "unlink", "link"}
  <2>1. t = s  BY <1>13 DEF HandleCommand
  <2>. QED  BY <1>5, <2>1
<1>. QED  BY <1>8, <1>9, <1>10, <1>11, <1>12, <1>13

(* A response that tells the node its unlink was agreed to.                *)
Agrees(s, n, e) ==
  /\ e.content = "y" /\ e.ack_for # NO_ID
  /\ In(s, e.ack_for) /\ s.g_msg_table[e.ack_for].content = "unlink"

LEMMA HandleResponseCuts ==
  ASSUME NEW n \in Node, NEW s, NEW sent, Ready(n, s, sent),
         NEW id \in DOMAIN s.g_msg_table, NEW e, e = s.g_msg_table[id],
         NEW t, t = HandleResponse(s, n, id)
  PROVE  \/ Makes(s, t, {}, {}) /\ ~ Agrees(s, n, e)
         \/ Makes(s, t, {e.origin_node}, {}) /\ e.content = "y"
<1>1. s \in NodeRecord  BY DEF Ready
<1>2. e \in DataEntry  BY <1>1, EntryType
<1>3. e.origin_node \in Node  BY <1>2 DEF DataEntry
<1>4. CASE ~ In(s, e.ack_for)
  <2>1. t = Panic(s)  BY <1>4 DEF HandleResponse
  <2>2. /\ t.link_enabled = s.link_enabled /\ t.MessageQueue = s.MessageQueue
        /\ t.g_msg_table = s.g_msg_table
    BY <1>1, <2>1 DEF Panic, NodeRecord
  <2>. QED  BY <1>4, <2>2, PlainCalm DEF Makes, Agrees
<1>5. CASE In(s, e.ack_for)
  <2>. DEFINE asked == s.g_msg_table[e.ack_for].content
  <2>1. CASE asked = "rquery"
    <3>1. t = [s EXCEPT !.router = router_parse_rquery(@, e.src_node, e.pairs)]
      BY <1>5, <2>1 DEF HandleResponse
    <3>2. /\ t.link_enabled = s.link_enabled /\ t.MessageQueue = s.MessageQueue
          /\ t.g_msg_table = s.g_msg_table
      BY <1>1, <3>1 DEF NodeRecord
    <3>. QED  BY <2>1, <3>2, PlainCalm DEF Makes, Agrees
  <2>2. CASE asked = "unlink" /\ e.content = "y"
    <3>1. t = SetNeighborLink(s, e.origin_node, FALSE)  BY <1>5, <2>2 DEF HandleResponse
    <3>. QED  BY <1>1, <1>3, <2>2, <3>1, SetNeighborLinkCuts
  <2>3. CASE asked # "rquery" /\ ~ (asked = "unlink" /\ e.content = "y")
    <3>1. t = s  BY <1>5, <2>3 DEF HandleResponse
    <3>. QED  BY <2>3, <3>1, PlainCalm DEF Makes, Agrees
  <2>. QED  BY <2>1, <2>2, <2>3
<1>. QED  BY <1>4, <1>5

LEMMA HandleCuts ==
  ASSUME NEW n \in Node, NEW s, NEW sent, Ready(n, s, sent), s.mode # "off",
         NEW id \in DOMAIN s.g_msg_table, New(s, sent, id),
         NEW e, e = s.g_msg_table[id], e.content # "link",
         NEW t, t = handle_maintenance_msg(s, n, id)
  PROVE  \/ Makes(s, t, {}, {}) /\ ~ (e.dst_node = n /\ Agrees(s, n, e))
         \/ Makes(s, t, {e.origin_node}, {}) /\ e.content = "y"
         \/ e.content = "unlink" /\ Consents(s, t, e.origin_node, id)
<1>1. CASE e.dst_node \notin {BROADCAST_ID, n}
  <2>1. t = s  BY <1>1 DEF handle_maintenance_msg
  <2>. QED  BY <1>1, <2>1, PlainCalm DEF Makes
<1>2. CASE e.dst_node \in {BROADCAST_ID, n} /\ e.ack_for # NO_ID
  <2>1. t = HandleResponse(s, n, id)  BY <1>2 DEF handle_maintenance_msg
  <2>. QED  BY <2>1, HandleResponseCuts
<1>3. CASE e.dst_node \in {BROADCAST_ID, n} /\ e.ack_for = NO_ID
  <2>1. t = HandleCommand(s, n, id)  BY <1>3 DEF handle_maintenance_msg
  <2>2. ~ Agrees(s, n, e)  BY <1>3 DEF Agrees
  <2>. QED  BY <2>1, <2>2, HandleCommandCuts
<1>. QED  BY <1>1, <1>2, <1>3

LEMMA PassAckCalm ==
  ASSUME NEW n, NEW s, NEW sent, Ready(n, s, sent), s.mode # "off",
         NEW f \in Frame, In(s, f.id), NEW t, t = PassAck(s, n, f)
  PROVE  Makes(s, t, {}, {})
<1>1. s \in NodeRecord  BY DEF Ready
<1>2. CASE s.mode = "panic" \/ f.ack_for = NO_ID
  <2>1. t = s  BY <1>2 DEF PassAck
  <2>. QED  BY <2>1, PlainCalm DEF Makes
<1>3. CASE s.mode # "panic" /\ f.ack_for # NO_ID /\ ~ In(s, f.ack_for)
  <2>1. t = Panic(s)  BY <1>3 DEF PassAck
  <2>2. /\ t.link_enabled = s.link_enabled /\ t.MessageQueue = s.MessageQueue
        /\ t.g_msg_table = s.g_msg_table
    BY <1>1, <2>1 DEF Panic, NodeRecord
  <2>. QED  BY <2>2, PlainCalm DEF Makes
<1>4. CASE s.mode # "panic" /\ f.ack_for # NO_ID /\ In(s, f.ack_for)
  <2>. DEFINE u == [s EXCEPT !.g_msg_table[f.ack_for].ack_status = TRUE]
              back == u.g_msg_table[f.ack_for].src_node
  <2>1. t = u \/ t = queue_send(u, f.id, back, TRUE)  BY <1>4 DEF PassAck
  <2>2. f.ack_for \in DOMAIN s.g_msg_table /\ TRUE \in BOOLEAN  BY <1>4 DEF In
  <2>3. Marked(s, u, f.ack_for, TRUE)  BY <1>1, <2>2, MarkEffect
  <2>. HIDE DEF u
  <2>4. /\ u \in NodeRecord /\ DOMAIN u.g_msg_table = DOMAIN s.g_msg_table
        /\ u.link_enabled = s.link_enabled /\ u.MessageQueue = s.MessageQueue
    BY <1>1, <2>3 DEF Marked, NodeRecord
  <2>5. Makes(s, u, {}, {})  BY <2>4, PlainCalm DEF Makes
  <2>6. back \in Node \cup {NO_ID}  BY <2>2, <2>4, EntryType DEF DataEntry
  <2>. HIDE DEF back
  <2>7. ASSUME t = queue_send(u, f.id, back, TRUE) PROVE Makes(s, t, {}, {})
    <3>1. Makes(u, t, {}, {})  BY <2>2, <2>4, <2>6, <2>7, QueueCalm DEF In
    <3>2. DOMAIN t.g_msg_table = DOMAIN u.g_msg_table
      <4>1. f.id \in DOMAIN u.g_msg_table  BY <2>4 DEF In
      <4>2. t = u \/ \E final : Queued(u, t, f.id, final)
        BY <2>2, <2>4, <2>6, <2>7, <4>1, QueueEffect
      <4>. QED  BY <4>2 DEF Queued
    <3>. QED  BY <2>4, <3>1, <3>2 DEF Makes, Cuts
  <2>. QED  BY <2>1, <2>5, <2>7
<1>. QED  BY <1>2, <1>3, <1>4
(* The node once it has stored a frame: it has its message, and has changed *)
(* nothing an unlink depends on.                                           *)
LEMMA StoredCalm ==
  ASSUME NEW n \in Node, NEW s, NEW sent, Ready(n, s, sent), s.mode # "off",
         NEW f \in Frame, FrameOk(f), f.id[1] = n => f.id[2] \in 1 .. s.drawn,
         In(s, f.id) => Body(s.g_msg_table[f.id]) = FrameBody(f),
         NEW r \in RouterType,
         NEW t, t = nodes_update(Received([s EXCEPT !.router = r], f), n, f.id)
  PROVE  /\ Ready(n, t, sent) /\ t.mode # "off" /\ t.MessageQueue = s.MessageQueue
         /\ \A id \in DOMAIN s.g_msg_table : In(t, id) /\ t.g_msg_table[id] = s.g_msg_table[id]
         /\ In(t, f.id) /\ Body(t.g_msg_table[f.id]) = FrameBody(f)
         /\ Cuts(s, t, DOMAIN s.g_msg_table \cup {f.id}, {}, {})
         /\ ~ (In(s, f.id) /\ s.g_msg_table[f.id].content = "gbcast") => New(t, sent, f.id)
<1>. DEFINE updated == [s EXCEPT !.router = r]
            got     == Received(updated, f)
            ids     == DOMAIN s.g_msg_table \cup {f.id}
<1>1. s \in NodeRecord  BY DEF Ready
<1>2. Ready(n, updated, sent)  BY RouterReady
<1>3. /\ updated \in NodeRecord
      /\ updated.g_msg_table = s.g_msg_table /\ updated.drawn = s.drawn
      /\ updated.MessageQueue = s.MessageQueue /\ updated.mode = s.mode
      /\ updated.link_enabled = s.link_enabled
  BY <1>1 DEF NodeRecord
<1>. HIDE DEF updated
<1>4. Ready(n, got, sent)  BY <1>2, <1>3, ReceivedReady
<1>5. Got(updated, got, f)  BY <1>3, ReceivedEffect
<1>. HIDE DEF got
<1>6. /\ DOMAIN got.g_msg_table = ids
      /\ \A id \in DOMAIN s.g_msg_table : got.g_msg_table[id] = s.g_msg_table[id]
      /\ f.id \notin DOMAIN s.g_msg_table => got.g_msg_table[f.id] = Arrived(f)
      /\ got.MessageQueue = s.MessageQueue /\ got.mode = s.mode
      /\ got.link_enabled = s.link_enabled
  BY <1>3, <1>5 DEF Got, NodeRecord
<1>7. f.id \in DOMAIN got.g_msg_table /\ Body(got.g_msg_table[f.id]) = FrameBody(f)
  <2>1. CASE In(s, f.id)  BY <1>6, <2>1 DEF In
  <2>2. CASE ~ In(s, f.id)  BY <1>6, <2>2 DEF In, Arrived, Body, FrameBody
  <2>. QED  BY <2>1, <2>2
<1>8. t = nodes_update(got, n, f.id)  BY DEF got, updated
<1>9. Ready(n, t, sent) /\ Notes(n, got, t)
  BY <1>4, <1>6, <1>7, <1>8, NodesUpdateReady, NodesUpdateNotes
<1>10. Makes(got, t, {}, {})  BY <1>9, NotesCalm
<1>11. Cuts(s, t, ids, {}, {})  BY <1>6, <1>10 DEF Makes, Cuts
<1>12. t.MessageQueue = s.MessageQueue /\ t.mode # "off" /\ In(t, f.id)
       /\ t.g_msg_table[f.id] = got.g_msg_table[f.id]
  BY <1>6, <1>7, <1>9 DEF Notes
<1>13. \A id \in DOMAIN s.g_msg_table : In(t, id) /\ t.g_msg_table[id] = s.g_msg_table[id]
  BY <1>6, <1>9 DEF Notes
<1>14. ASSUME ~ (In(s, f.id) /\ s.g_msg_table[f.id].content = "gbcast"), Steady,
              t.g_msg_table[f.id].content = "gbcast"
       PROVE  f.id \notin sent /\ \A k \in DOMAIN s.MessageQueue : s.MessageQueue[k] # f.id
  <2>1. f.id \notin DOMAIN s.g_msg_table  BY <1>6, <1>12, <1>14 DEF In
  <2>2. sent \subseteq DOMAIN s.g_msg_table  BY <1>14 DEF Ready, OnceEach
  <2>3. \A k \in DOMAIN s.MessageQueue : s.MessageQueue[k] \in DOMAIN s.g_msg_table
    BY DEF Ready
  <2>. QED  BY <2>1, <2>2, <2>3
<1>. QED  BY <1>7, <1>9, <1>11, <1>12, <1>13, <1>14 DEF New

(* What frame f, of a message already known or new, does to the links.     *)
Heeds(n, s, t, f) ==
  LET ids == DOMAIN s.g_msg_table \cup {f.id}
  IN  \/ Cuts(s, t, ids, {}, {}) /\ ~ (f.dst = n /\ Agrees(s, n, f))
      \/ Cuts(s, t, ids, {f.origin}, {}) /\ f.content = "y"
      \/ /\ f.content = "unlink"
         /\ Cuts(s, t, ids, {f.origin}, {<<f.origin, f.id>>})
         /\ Len(s.MessageQueue) < QUEUE_LENGTH => Owes(t, f.origin)

LEMMA OwesKept ==
  ASSUME NEW s, NEW t, s.MessageQueue \in Seq(DOMAIN s.g_msg_table),
         Extends(s.MessageQueue, t.MessageQueue),
         \A id \in DOMAIN s.g_msg_table : Stamp(t.g_msg_table[id]) = Stamp(s.g_msg_table[id]),
         NEW m, Owes(s, m)
  PROVE  Owes(t, m)
<1>1. PICK k \in DOMAIN s.MessageQueue :
        LET e == s.g_msg_table[s.MessageQueue[k]] IN e.content = "y" /\ e.dst_node = m
  BY DEF Owes
<1>2. s.MessageQueue[k] \in DOMAIN s.g_msg_table  OBVIOUS
<1>3. k \in DOMAIN t.MessageQueue /\ t.MessageQueue[k] = s.MessageQueue[k]  BY DEF Extends
<1>. QED  BY <1>1, <1>2, <1>3 DEF Owes, Stamp

LEMMA HandlerCuts ==
  ASSUME NEW n \in Node, NEW s, NEW sent, Ready(n, s, sent), s.mode # "off",
         NEW f \in Frame, FrameOk(f), f.id[1] = n => f.id[2] \in 1 .. s.drawn,
         In(s, f.id) => Body(s.g_msg_table[f.id]) = FrameBody(f), f.content # "link",
         NEW t, t = rcv_handler(s, n, f)
  PROVE  Heeds(n, s, t, f)
<1>. DEFINE again   == In(s, f.id) /\ s.g_msg_table[f.id].content = "gbcast"
            r       == router_update(s.router, f.origin, f.from, f.steps + 1)
            stored  == nodes_update(Received([s EXCEPT !.router = r], f), n, f.id)
            handled == IF MessageType(f.content) = "MAINTENANCE"
                       THEN handle_maintenance_msg(stored, n, f.id) ELSE stored
            ids     == DOMAIN s.g_msg_table \cup {f.id}
<1>1. t = IF again THEN stored ELSE PassAck(handled, n, f)
  BY DEF rcv_handler
<1>2. r \in RouterType
  <2>1. f.origin \in Node /\ f.from \in Node /\ f.steps + 1 \in Nat  BY DEF Frame
  <2>. QED  BY <2>1, RouterUpdateType DEF Ready, NodeRecord
<1>. HIDE DEF r
<1>3. /\ Ready(n, stored, sent) /\ stored.mode # "off"
      /\ stored.MessageQueue = s.MessageQueue
      /\ \A id \in DOMAIN s.g_msg_table :
           In(stored, id) /\ stored.g_msg_table[id] = s.g_msg_table[id]
      /\ In(stored, f.id) /\ Body(stored.g_msg_table[f.id]) = FrameBody(f)
      /\ Cuts(s, stored, ids, {}, {})
      /\ ~ again => New(stored, sent, f.id)
  BY <1>2, StoredCalm
<1>. HIDE DEF stored
<1>. DEFINE e == stored.g_msg_table[f.id]
<1>4. /\ e.content = f.content /\ e.dst_node = f.dst /\ e.origin_node = f.origin
      /\ e.ack_for = f.ack_for
  BY <1>3 DEF Body, FrameBody
<1>5. ASSUME Agrees(s, n, f) PROVE Agrees(stored, n, e)
  BY <1>3, <1>4, <1>5 DEF Agrees, In
<1>. HIDE DEF e
<1>6. CASE again
  <2>1. t = stored  BY <1>1, <1>6
  <2>2. f.content = "gbcast"  BY <1>6 DEF Body, FrameBody
  <2>. QED  BY <1>3, <2>1, <2>2 DEF Heeds, Agrees
<1>7. ASSUME ~ again, NEW C, NEW A, Ready(n, handled, sent), Learns(n, stored, handled),
             Makes(stored, handled, C, A)
      PROVE  /\ Cuts(s, t, ids, C, A)
             /\ \A m : Owes(handled, m) => Owes(t, m)
  <2>1. t = PassAck(handled, n, f)  BY <1>1, <1>7
  <2>. HIDE DEF handled, again
  <2>2. handled.mode # "off" /\ In(handled, f.id)
        /\ Body(handled.g_msg_table[f.id]) = FrameBody(f)
    <3>1. handled.mode # "off"  BY <1>3, <1>7, LearnsMode
    <3>. QED  BY <1>3, <1>7, <3>1 DEF Learns, In, Stamp, Body
  <2>3. Makes(handled, t, {}, {}) /\ Learns(n, handled, t)
    BY <1>7, <2>1, <2>2, PassAckCalm, PassAckReady
  <2>4. Cuts(s, handled, ids, C, A)  BY <1>3, <1>7, CalmBefore
  <2>5. Cuts(s, t, ids, C, A)  BY <2>3, <2>4, CalmAfter
  <2>6. ASSUME NEW m, Owes(handled, m) PROVE Owes(t, m)
    <3>1. handled.MessageQueue \in Seq(DOMAIN handled.g_msg_table)  BY <1>7 DEF Ready
    <3>2. Extends(handled.MessageQueue, t.MessageQueue)  BY <2>3 DEF Makes, Cuts
    <3>3. \A id \in DOMAIN handled.g_msg_table :
            Stamp(t.g_msg_table[id]) = Stamp(handled.g_msg_table[id])
      BY <2>3 DEF Learns
    <3>. QED  BY <2>6, <3>1, <3>2, <3>3, OwesKept
  <2>. QED  BY <2>5, <2>6
<1>8. CASE ~ again /\ MessageType(f.content) # "MAINTENANCE"
  <2>1. handled = stored /\ f.content = "chat"  BY <1>8 DEF MessageType
  <2>2. Makes(stored, stored, {}, {})  BY PlainCalm DEF Makes
  <2>3. Learns(n, stored, stored)  BY <1>3, LearnsSame DEF Ready
  <2>4. Cuts(s, t, ids, {}, {})
    <3>. HIDE DEF handled, again
    <3>. QED  BY <1>3, <1>7, <1>8, <2>1, <2>2, <2>3
  <2>. QED  BY <2>1, <2>4 DEF Heeds, Agrees
<1>9. CASE ~ again /\ MessageType(f.content) = "MAINTENANCE"
  <2>1. handled = handle_maintenance_msg(stored, n, f.id)  BY <1>9
  <2>2. f.id \in DOMAIN stored.g_msg_table /\ New(stored, sent, f.id)  BY <1>3, <1>9 DEF In
  <2>. HIDE DEF handled, again
  <2>3. Ready(n, handled, sent) /\ Learns(n, stored, handled)
    BY <1>3, <2>1, <2>2, HandleReady
  <2>4. \/ Makes(stored, handled, {}, {}) /\ ~ (e.dst_node = n /\ Agrees(stored, n, e))
        \/ Makes(stored, handled, {e.origin_node}, {}) /\ e.content = "y"
        \/ e.content = "unlink" /\ Consents(stored, handled, e.origin_node, f.id)
    <3>1. e = stored.g_msg_table[f.id] /\ e.content # "link"  BY <1>4 DEF e
    <3>. QED  BY <1>3, <2>1, <2>2, <3>1, HandleCuts
  <2>5. CASE Makes(stored, handled, {}, {}) /\ ~ (e.dst_node = n /\ Agrees(stored, n, e))
    <3>1. Cuts(s, t, ids, {}, {})  BY <1>7, <1>9, <2>3, <2>5
    <3>. QED  BY <1>4, <1>5, <2>5, <3>1 DEF Heeds
  <2>6. CASE Makes(stored, handled, {e.origin_node}, {}) /\ e.content = "y"
    <3>1. Cuts(s, t, ids, {f.origin}, {})  BY <1>4, <1>7, <1>9, <2>3, <2>6
    <3>. QED  BY <1>4, <2>6, <3>1 DEF Heeds
  <2>7. CASE e.content = "unlink" /\ Consents(stored, handled, e.origin_node, f.id)
    <3>1. /\ Cuts(s, t, ids, {f.origin}, {<<f.origin, f.id>>})
          /\ \A m : Owes(handled, m) => Owes(t, m)
      BY <1>4, <1>7, <1>9, <2>3, <2>7 DEF Consents
    <3>2. Len(s.MessageQueue) < QUEUE_LENGTH => Owes(t, f.origin)
      BY <1>3, <1>4, <2>7, <3>1 DEF Consents
    <3>. QED  BY <1>4, <2>7, <3>1, <3>2 DEF Heeds
  <2>. QED  BY <2>4, <2>5, <2>6, <2>7
<1>. QED  BY <1>6, <1>8, <1>9
----------------------------------------------------------------------------
(* Cuts that reach both ends.                                              *)

(* A message its origin has, too, and no request to link.                  *)
FromOrigin(id, content) == In(node[id[1]], id) /\ content # "link"

Held ==
  /\ \A n \in Node : \A id \in DOMAIN node[n].g_msg_table :
       FromOrigin(id, node[n].g_msg_table[id].content)
  /\ \A m \in Node : \A k \in DOMAIN rx[m] : FromOrigin(rx[m][k].id, rx[m][k].content)

(* A node agrees to nothing but the unlink of a neighbour, and has cut its *)
(* own end by then.                                                        *)
Consented(n, s) ==
  \A id \in DOMAIN s.g_msg_table :
    LET e == s.g_msg_table[id]
    IN  id[1] = n /\ e.content = "y" =>
          /\ e.dst_node \in Reach[n] /\ ~ s.link_enabled[e.dst_node]
          /\ In(s, e.ack_for) /\ s.g_msg_table[e.ack_for].content = "unlink"

Coming(n, m) == \E k \in DOMAIN rx[m] : rx[m][k].content = "y" /\ rx[m][k].origin = n

(* Node m has followed n in cutting their link, or is about to.            *)
Followed(n, m) ==
  \/ ~ node[m].link_enabled[n] \/ node[m].mode = "panic"
  \/ Owes(node[n], m) \/ Coming(n, m)

Matched ==
  /\ Held
  /\ \A n \in Node : Consented(n, node[n])
  /\ \A n, m \in Node : ~ node[n].link_enabled[m] => Followed(n, m)

(* What a step of node n leaves of it, and must keep.                      *)
Pursues(n, s, t) ==
  /\ \A m \in Node : ~ s.link_enabled[m] => ~ t.link_enabled[m]
  /\ s.mode = "panic" => t.mode = "panic"
  /\ \A id \in DOMAIN s.g_msg_table :
       In(t, id) /\ Stamp(t.g_msg_table[id]) = Stamp(s.g_msg_table[id])
  /\ \A id \in DOMAIN t.g_msg_table \ DOMAIN s.g_msg_table :
       (id[1] = n \/ In(node[id[1]], id)) /\ t.g_msg_table[id].content # "link"

LEMMA MatchedStep ==
  ASSUME Sane, Matched, NEW n \in Node, NEW s, s = node[n], NEW t, node' = [node EXCEPT ![n] = t],
         Pursues(n, s, t), Consented(n, t),
         \A m \in Node : \A k \in DOMAIN rx'[m] :
           rx'[m][k].id \in Id /\ FromOrigin(rx'[m][k].id, rx'[m][k].content),
         \A m \in Node : s.link_enabled[m] /\ ~ t.link_enabled[m] =>
           ~ node[m].link_enabled[n] \/ Owes(t, m),
         \A m \in Node : Owes(s, m) =>
           Owes(t, m) \/ Coming(n, m)' \/ node[m].mode = "panic",
         \A l, m \in Node : Coming(l, m) =>
           Coming(l, m)' \/ (m = n /\ ~ t.link_enabled[l])
  PROVE  Matched'
<1>. node \in [Node -> NodeRecord]  BY DEF Sane, Types
<1>1. node'[n] = t /\ \A m \in Node : m # n => node'[m] = node[m]  OBVIOUS
<1>2. ASSUME NEW m \in Node, NEW id \in DOMAIN node[m].g_msg_table
      PROVE  In(node'[m], id)
  BY <1>1 DEF Pursues, In
<1>3. ASSUME NEW id \in Id, NEW content, FromOrigin(id, content) PROVE FromOrigin(id, content)'
  <2>1. id[1] \in Node  BY DEF Id
  <2>. QED  BY <1>2, <1>3, <2>1 DEF FromOrigin, In
<1>4. ASSUME NEW m \in Node, NEW id \in DOMAIN node'[m].g_msg_table
      PROVE  FromOrigin(id, node[m].g_msg_table[id].content)'
  <2>1. CASE id \in DOMAIN node[m].g_msg_table
    <3>1. id \in Id  BY <2>1, EntryType
    <3>2. FromOrigin(id, node[m].g_msg_table[id].content)  BY <2>1 DEF Matched, Held
    <3>3. node'[m].g_msg_table[id].content = node[m].g_msg_table[id].content
      BY <1>1, <2>1 DEF Pursues, Stamp
    <3>. QED  BY <1>3, <3>1, <3>2, <3>3 DEF FromOrigin
  <2>2. CASE id \notin DOMAIN node[m].g_msg_table
    <3>1. m = n  BY <1>1, <1>4, <2>2
    <3>2. (id[1] = n \/ In(node[id[1]], id)) /\ t.g_msg_table[id].content # "link"
      BY <1>1, <1>4, <2>2, <3>1 DEF Pursues
    <3>3. CASE id[1] = n  BY <1>1, <1>4, <3>1, <3>2, <3>3 DEF FromOrigin, In
    <3>4. CASE id[1] # n
      <4>1. node'[id[1]] = node[id[1]]  BY <1>1, <3>4
      <4>. QED  BY <1>1, <3>1, <3>2, <3>4, <4>1 DEF FromOrigin, In
    <3>. QED  BY <3>3, <3>4
  <2>. QED  BY <2>1, <2>2
<1>5. Held'  BY <1>3, <1>4 DEF Held, FromOrigin
<1>6. ASSUME NEW m \in Node PROVE Consented(m, node'[m])
  BY <1>1 DEF Matched
<1>7. ASSUME NEW l \in Node, NEW m \in Node, ~ node[l].link_enabled[m]
      PROVE  ~ node'[l].link_enabled[m]
  BY <1>1, <1>7 DEF Pursues
<1>8. ASSUME NEW l \in Node, NEW m \in Node, ~ node'[l].link_enabled[m]
      PROVE  Followed(l, m)'
  <2>1. CASE node[l].link_enabled[m]
    <3>1. l = n  BY <1>1, <1>8, <2>1
    <3>2. ~ node[m].link_enabled[l] \/ Owes(t, m)  BY <1>1, <1>8, <2>1, <3>1
    <3>. QED  BY <1>1, <1>7, <3>1, <3>2 DEF Followed
  <2>2. CASE ~ node[l].link_enabled[m]
    <3>1. Followed(l, m)  BY <2>2 DEF Matched
    <3>2. CASE ~ node[m].link_enabled[l]  BY <1>7, <3>2 DEF Followed
    <3>3. CASE node[m].mode = "panic"  BY <1>1, <3>3 DEF Followed, Pursues
    <3>4. CASE Owes(node[l], m)
      <4>1. CASE l # n  BY <1>1, <3>4, <4>1 DEF Followed
      <4>2. CASE l = n
        <5>1. Owes(t, m) \/ Coming(n, m)' \/ node[m].mode = "panic"  BY <3>4, <4>2
        <5>. QED  BY <1>1, <3>3, <4>2, <5>1 DEF Followed
      <4>. QED  BY <4>1, <4>2
    <3>5. CASE Coming(l, m)
      <4>1. Coming(l, m)' \/ (m = n /\ ~ t.link_enabled[l])  BY <3>5
      <4>. QED  BY <1>1, <4>1 DEF Followed
    <3>. QED  BY <3>1, <3>2, <3>3, <3>4, <3>5 DEF Followed
  <2>. QED  BY <2>1, <2>2
<1>. QED  BY <1>5, <1>6, <1>8 DEF Matched

LEMMA ConsentKept ==
  ASSUME NEW n \in Node, NEW s, NEW t, Consented(n, s), Pursues(n, s, t),
         \A id \in DOMAIN t.g_msg_table \ DOMAIN s.g_msg_table :
           LET e == t.g_msg_table[id]
           IN  id[1] = n /\ e.content = "y" =>
                 /\ e.dst_node \in Reach[n] /\ ~ t.link_enabled[e.dst_node]
                 /\ In(t, e.ack_for) /\ t.g_msg_table[e.ack_for].content = "unlink"
  PROVE  Consented(n, t)
<1>1. ASSUME NEW id \in DOMAIN s.g_msg_table, NEW e, e = t.g_msg_table[id],
             id[1] = n, e.content = "y"
      PROVE  /\ e.dst_node \in Reach[n] /\ ~ t.link_enabled[e.dst_node]
             /\ In(t, e.ack_for) /\ t.g_msg_table[e.ack_for].content = "unlink"
  <2>. DEFINE x == s.g_msg_table[id]
  <2>1. x.content = e.content /\ x.dst_node = e.dst_node /\ x.ack_for = e.ack_for
    BY <1>1 DEF Pursues, Stamp
  <2>2. /\ x.dst_node \in Reach[n] /\ ~ s.link_enabled[x.dst_node]
        /\ In(s, x.ack_for) /\ s.g_msg_table[x.ack_for].content = "unlink"
    BY <1>1, <2>1 DEF Consented
  <2>3. x.dst_node \in Node  BY <2>2, MeshAssumption
  <2>. HIDE DEF x
  <2>. QED  BY <2>1, <2>2, <2>3 DEF Pursues, In, Stamp
<1>. QED  BY <1>1 DEF Consented

(* A step that cuts nothing, agrees to nothing and sends nothing.          *)
LEMMA CalmMatched ==
  ASSUME Sane, Matched, NEW n \in Node, NEW s, s = node[n],
         NEW t, node' = [node EXCEPT ![n] = t], rx' = rx, Makes(s, t, {}, {}),
         s.mode = "panic" => t.mode = "panic",
         \A id \in DOMAIN s.g_msg_table :
           In(t, id) /\ Stamp(t.g_msg_table[id]) = Stamp(s.g_msg_table[id]),
         \A id \in DOMAIN t.g_msg_table \ DOMAIN s.g_msg_table : id[1] = n
  PROVE  Matched'
<1>1. \A m \in Node : t.link_enabled[m] = s.link_enabled[m]  BY DEF Makes, Cuts
<1>2. \A id \in DOMAIN t.g_msg_table \ DOMAIN s.g_msg_table :
        t.g_msg_table[id].content # "link" /\ t.g_msg_table[id].content # "y"
  BY DEF Makes, Cuts
<1>3. Pursues(n, s, t)  BY <1>1, <1>2 DEF Pursues
<1>4. Consented(n, t)
  <2>1. Consented(n, s)  BY DEF Matched
  <2>. QED  BY <1>2, <1>3, <2>1, ConsentKept
<1>5. ASSUME NEW m \in Node, NEW k \in DOMAIN rx'[m]
      PROVE  rx'[m][k].id \in Id /\ FromOrigin(rx'[m][k].id, rx'[m][k].content)
  <2>1. rx[m][k] \in Frame  BY <1>5, AirSaid
  <2>. QED  BY <1>5, <2>1 DEF Matched, Held, Frame
<1>6. ASSUME NEW m, Owes(s, m) PROVE Owes(t, m)
  <2>1. s.MessageQueue \in Seq(DOMAIN s.g_msg_table)  BY DEF Sane, Ready
  <2>. QED  BY <1>6, <2>1, OwesKept DEF Makes, Cuts
<1>7. ASSUME NEW l, NEW m PROVE Coming(l, m)' <=> Coming(l, m)  BY DEF Coming
<1>. QED  BY <1>1, <1>3, <1>4, <1>5, <1>6, <1>7, MatchedStep

LEMMA LearnsMatched ==
  ASSUME Sane, Matched, NEW n \in Node, NEW t, Become(n, t), Learns(n, node[n], t),
         Makes(node[n], t, {}, {})
  PROVE  Matched'
<1>1. node' = [node EXCEPT ![n] = t] /\ rx' = rx  BY DEF Become
<1>2. node[n].mode = "panic" => t.mode = "panic"  BY DEF Learns
<1>. QED  BY <1>1, <1>2, CalmMatched DEF Learns

LEMMA OriginateMatched ==
  ASSUME Sane, Matched, NEW n \in Node, Up(n),
         NEW content \in Content, content \notin Responses \cup {"gbcast"}, content # "link",
         NEW dst \in Node \cup {NO_ID}, NEW target \in Node \cup {NO_ID},
         NEW use_router \in BOOLEAN, Originate(n, node[n], content, dst, target, use_router)
  PROVE  Matched'
<1>. DEFINE u == create_data_object(node[n], n, content, {}, dst, NO_ID)
            t == queue_send(u, LastId(n, u), target, use_router)
<1>1. Ready(n, node[n], flooded[n]) /\ node[n].mode # "off"  BY DEF Sane, Up
<1>2. Become(n, t)  BY DEF Originate
<1>3. Learns(n, node[n], t)  BY <1>1, OriginateReady
<1>4. /\ {} \in SUBSET Pair /\ NO_ID \in Id \cup {NO_ID} /\ content \notin Responses
      /\ (NO_ID = NO_ID <=> content \notin Responses) /\ content # "y"
  BY DEF Responses
<1>. HIDE DEF u
<1>5. Makes(node[n], t, {}, {})
  <2>1. content = "y" => <<dst, NO_ID>> \in {}  BY <1>4
  <2>. QED  BY <1>1, <1>4, <2>1, OwnCuts DEF u
<1>. HIDE DEF t
<1>. QED  BY <1>2, <1>3, <1>5, LearnsMatched

LEMMA PingMatched ==
  ASSUME Sane, Matched, NEW n \in Node, NEW m \in Node, Ping(n, m)
  PROVE  Matched'
<1>. DEFINE s  == node[n]
            id == s.ping_id[m]
            u  == [s EXCEPT !.g_msg_table[id].ack_status = FALSE]
            t  == queue_send(u, id, m, TRUE)
<1>1. s.mode = "up" /\ m \in DOMAIN s.ping_id /\ m # n /\ Become(n, t)
  BY DEF Ping, Up
<1>2. Ready(n, s, flooded[n]) /\ s \in NodeRecord /\ s.mode # "off"
  BY <1>1 DEF Sane, Ready
<1>3. id \in DOMAIN s.g_msg_table /\ IsPing(s.g_msg_table[id])
  BY <1>1, <1>2 DEF Ready, In
<1>. HIDE DEF id
<1>4. FALSE \in BOOLEAN /\ TRUE \in BOOLEAN /\ m \in Node \cup {NO_ID}  OBVIOUS
<1>5. Ready(n, u, flooded[n]) /\ Learns(n, s, u)  BY <1>2, <1>3, <1>4, MarkReady
<1>6. Marked(s, u, id, FALSE)  BY <1>2, <1>3, <1>4, MarkEffect
<1>. HIDE DEF u
<1>7. /\ u \in NodeRecord /\ DOMAIN u.g_msg_table = DOMAIN s.g_msg_table
      /\ u.link_enabled = s.link_enabled /\ u.MessageQueue = s.MessageQueue
      /\ u.mode # "off"
  BY <1>2, <1>6 DEF Marked, NodeRecord
<1>8. id \in DOMAIN u.g_msg_table /\ u.g_msg_table[id].content # "gbcast"
  BY <1>3, <1>5, <1>7 DEF Learns, Stamp, IsPing
<1>9. Ready(n, t, flooded[n]) /\ Learns(n, u, t)  BY <1>4, <1>5, <1>7, <1>8, QueueReady
<1>10. Makes(s, u, {}, {})  BY <1>7, PlainCalm DEF Makes
<1>11. Makes(u, t, {}, {})  BY <1>4, <1>7, <1>8, QueueCalm
<1>. HIDE DEF t
<1>12. Makes(s, t, {}, {})  BY <1>9, <1>10, <1>11, CalmAfter DEF Makes
<1>13. Learns(n, s, t)
  <2>1. t \in NodeRecord  BY <1>9 DEF Ready
  <2>. QED  BY <1>2, <1>5, <1>7, <1>9, <2>1, LearnsTwice
<1>. QED  BY <1>1, <1>12, <1>13, LearnsMatched

LEMMA BootedCalm ==
  ASSUME NEW n \in Node, NEW t, t = Booted(n, 0)
  PROVE  /\ Makes(Off, t, {}, {}) /\ \A m \in Node : t.link_enabled[m]
         /\ \A id \in DOMAIN t.g_msg_table : t.g_msg_table[id].content \notin {"link", "y"}
<1>. DEFINE s == Started(n, 0)
            u == create_data_object(s, n, "gbcast", {}, BROADCAST_ID, NO_ID)
<1>1. t = queue_send(u, LastId(n, u), BROADCAST_ID, FALSE)  BY DEF Booted, Started
<1>. HIDE DEF s
<1>2. Ready(n, s, {}) /\ StartedFields(n, s, 0)
  <2>1. 0 \in Nat  OBVIOUS
  <2>. QED  BY <2>1, StartedReady DEF s
<1>3. /\ "gbcast" \in Content /\ "gbcast" \notin Responses /\ "gbcast" # "link"
      /\ BROADCAST_ID \in Node \cup {NO_ID} /\ FALSE \in BOOLEAN /\ s.mode # "off"
      /\ {} \in SUBSET Pair /\ NO_ID \in Id \cup {NO_ID}
  BY <1>2 DEF Content, Commands, Responses, BROADCAST_ID, StartedFields
<1>. HIDE DEF u
<1>4. Makes(s, t, {}, {})  BY <1>1, <1>2, <1>3, OwnCuts DEF u
<1>5. /\ DOMAIN s.g_msg_table = {} /\ DOMAIN Off.g_msg_table = {}
      /\ s.MessageQueue = << >> /\ Off.MessageQueue = << >>
      /\ s.link_enabled = [m \in Node |-> TRUE] /\ Off.link_enabled = s.link_enabled
  BY <1>2, OffIsRecord DEF StartedFields, Off
<1>6. Makes(Off, t, {}, {})  BY <1>4, <1>5 DEF Makes, Cuts
<1>. QED  BY <1>4, <1>5, <1>6 DEF Makes, Cuts

LEMMA BootMatched ==
  ASSUME Sane, Matched, NEW n \in Node, Boot(n)
  PROVE  Matched'
<1>. DEFINE t == Booted(n, 0)
<1>1. node[n].mode = "off" /\ node' = [node EXCEPT ![n] = t] /\ rx' = rx
  BY DEF Boot
<1>. HIDE DEF t
<1>2. node[n] = Off /\ DOMAIN node[n].g_msg_table = {}
  BY <1>1, OffIsRecord DEF Sane, Ready
<1>3. Woke(n, t, 0)  BY BootedReady DEF t
<1>4. \A id \in DOMAIN t.g_msg_table : id[1] = n  BY <1>3 DEF Woke
<1>5. Makes(node[n], t, {}, {})  BY <1>2, BootedCalm DEF t
<1>. QED  BY <1>1, <1>2, <1>4, <1>5, CalmMatched

LEMMA TailHas ==
  ASSUME NEW S, NEW q \in Seq(S), NEW k \in DOMAIN q, k # 1
  PROVE  k - 1 \in DOMAIN Tail(q) /\ Tail(q)[k - 1] = q[k]
<1>1. Len(q) \in Nat /\ DOMAIN q = 1 .. Len(q)  OBVIOUS
<1>2. k \in Nat /\ k >= 2 /\ k <= Len(q)  BY <1>1
<1>3. q # << >>  BY <1>2
<1>4. Len(Tail(q)) = Len(q) - 1 /\ DOMAIN Tail(q) = 1 .. Len(q) - 1
      /\ \A j \in 1 .. Len(q) - 1 : Tail(q)[j] = q[j + 1]
  BY <1>3
<1>5. k - 1 \in 1 .. Len(q) - 1 /\ (k - 1) + 1 = k  BY <1>1, <1>2
<1>. QED  BY <1>4, <1>5

LEMMA AirHeld ==
  ASSUME Sane, Matched, NEW m \in Node, NEW k \in DOMAIN rx[m]
  PROVE  rx[m][k].id \in Id /\ FromOrigin(rx[m][k].id, rx[m][k].content)
<1>1. rx[m][k] \in Frame  BY AirSaid
<1>. QED  BY <1>1 DEF Matched, Held, Frame

(* Two entries, or an entry and a frame, of one id say the same.           *)
LEMMA EntrySays ==
  ASSUME Sane, NEW m \in Node, NEW id, In(node[m], id), NEW b, Said(id, b)
  PROVE  Body(node[m].g_msg_table[id]) = b
<1>1. id \in Id
  <2>1. node[m] \in NodeRecord  BY DEF Sane, Types
  <2>. QED  BY <2>1, EntryType DEF In
<1>2. Said(id, Body(node[m].g_msg_table[id]))  BY DEF Said
<1>. QED  BY <1>1, <1>2 DEF Sane, Agreed

(* A "y" on its way is for the node that hears it, which asked for it, and *)
(* comes from one that has cut its own end.                                *)
LEMMA YesIsMeant ==
  ASSUME Sane, Matched, NEW n \in Node, NEW f \in Frame, FrameOk(f), Framed(n, f),
         Said(f.id, FrameBody(f)), FromOrigin(f.id, f.content), f.content = "y"
  PROVE  /\ f.dst = n /\ Agrees(node[n], n, f)
         /\ f.origin \in Node /\ ~ node[f.origin].link_enabled[n]
<1>. DEFINE l == f.origin
            x == node[l].g_msg_table[f.id]
            a == f.ack_for
<1>1. l \in Node /\ f.id[1] = l /\ In(node[l], f.id)  BY DEF Frame, FrameOk, FromOrigin
<1>2. f.dst = n /\ a # NO_ID /\ a[1] = n
  BY DEF Framed, Settles, FrameOk, Responses, Honest
<1>3. x.content = "y" /\ x.dst_node = n /\ x.ack_for = a
  <2>1. Body(x) = FrameBody(f)  BY <1>1, EntrySays
  <2>. HIDE DEF x
  <2>. QED  BY <1>2, <2>1 DEF Body, FrameBody
<1>4. Consented(l, node[l])  BY <1>1 DEF Matched
<1>5. /\ ~ node[l].link_enabled[n]
      /\ In(node[l], a) /\ node[l].g_msg_table[a].content = "unlink"
  BY <1>1, <1>3, <1>4 DEF Consented, In
<1>6. In(node[n], a)  BY <1>1, <1>2, <1>5 DEF Matched, Held, FromOrigin, In
<1>7. Said(a, Body(node[l].g_msg_table[a]))  BY <1>1, <1>5 DEF Said
<1>8. Body(node[n].g_msg_table[a]) = Body(node[l].g_msg_table[a])  BY <1>6, <1>7, EntrySays
<1>9. node[n].g_msg_table[a].content = "unlink"  BY <1>5, <1>8 DEF Body
<1>. QED  BY <1>1, <1>2, <1>5, <1>6, <1>9 DEF Agrees

LEMMA ReceiveMatched ==
  ASSUME Symmetric, Woven, Matched, NEW n \in Node, Receive(n),
         Len(node[n].MessageQueue) < QUEUE_LENGTH
  PROVE  Matched'
<1>. DEFINE s == node[n]
            f == Head(rx[n])
            t == rcv_handler(s, n, f)
            l == f.origin
            ids == DOMAIN s.g_msg_table \cup {f.id}
<1>1. /\ s.mode = "up" /\ rx[n] # << >> /\ rx' = [rx EXCEPT ![n] = Tail(@)]
      /\ node' = [node EXCEPT ![n] = t]
  BY DEF Receive, Takes, Up
<1>2. Sane  BY DEF Woven
<1>3. /\ f \in Frame /\ FrameOk(f) /\ Said(f.id, FrameBody(f))
      /\ f.id[1] = n => f.id[2] \in 1 .. s.drawn
      /\ In(s, f.id) => Body(s.g_msg_table[f.id]) = FrameBody(f)
  BY <1>1, <1>2, HeadArrives
<1>4. rx \in [Node -> Seq(Frame)]  BY DEF Woven, Sane, Types
<1>5. Taken(rx[n], Tail(rx[n]), Frame)  BY <1>1, <1>4, TailIs
<1>6. f = rx[n][1] /\ 1 \in DOMAIN rx[n]  BY <1>5 DEF Taken
<1>7. Framed(n, f) /\ FromOrigin(f.id, f.content)  BY <1>2, <1>6, AirFramed, AirHeld
<1>. HIDE DEF f
<1>8. Ready(n, s, flooded[n]) /\ s.mode # "off" /\ f.content # "link"
  BY <1>1, <1>2, <1>7 DEF Sane, FromOrigin
<1>9. Handles(n, s, t, f)  BY <1>3, <1>8, HandlerReady
<1>10. Heeds(n, s, t, f)  BY <1>3, <1>8, HandlerCuts
<1>. HIDE DEF t
<1>11. l \in Node /\ f.id[1] = l  BY <1>3 DEF Frame, FrameOk
<1>12. ASSUME f.content = "y"
       PROVE  ~ node[l].link_enabled[n] /\ Cuts(s, t, ids, {l}, {})
  <2>1. f.dst = n /\ Agrees(s, n, f) /\ ~ node[l].link_enabled[n]
    BY <1>2, <1>3, <1>7, <1>12, YesIsMeant
  <2>. QED  BY <1>10, <1>12, <2>1 DEF Heeds
<1>13. ASSUME f.content = "unlink" PROVE l \in Reach[n] /\ f.from = l
  <2>1. Direct(f.content, f.ack_for)  BY <1>3, <1>13 DEF FrameOk, Responses, Direct
  <2>2. f.from = l /\ n \in Reach[f.from]  BY <1>7, <2>1 DEF Framed
  <2>. QED  BY <1>11, <2>2 DEF Symmetric
<1>14. PICK C \in SUBSET {l}, A \in SUBSET {<<l, f.id>>} :
         /\ Cuts(s, t, ids, C, A)
         /\ C # {} => f.content = "y" \/ Owes(t, l)
         /\ A # {} => f.content = "unlink" /\ C = {l}
  <2>. DEFINE a == <<l, f.id>>
  <2>1. /\ {} \in SUBSET {l} /\ {l} \in SUBSET {l}
        /\ {} \in SUBSET {a} /\ {a} \in SUBSET {a}
    OBVIOUS
  <2>2. \/ Cuts(s, t, ids, {}, {})
        \/ Cuts(s, t, ids, {l}, {}) /\ f.content = "y"
        \/ Cuts(s, t, ids, {l}, {a}) /\ f.content = "unlink" /\ Owes(t, l)
    BY <1>10 DEF Heeds
  <2>. HIDE DEF l, a, ids
  <2>3. CASE Cuts(s, t, ids, {}, {})  BY <2>1, <2>3 DEF a
  <2>4. CASE Cuts(s, t, ids, {l}, {}) /\ f.content = "y"  BY <2>1, <2>4 DEF a
  <2>5. CASE Cuts(s, t, ids, {l}, {a}) /\ f.content = "unlink" /\ Owes(t, l)
    BY <2>1, <2>5 DEF a
  <2>. QED  BY <2>2, <2>3, <2>4, <2>5
<1>15. /\ \A m \in Node : IF m \in C THEN ~ t.link_enabled[m]
                           ELSE t.link_enabled[m] = s.link_enabled[m]
       /\ Extends(s.MessageQueue, t.MessageQueue)
       /\ \A id \in DOMAIN t.g_msg_table \ ids :
            LET e == t.g_msg_table[id]
            IN  e.content # "link" /\ (e.content = "y" => <<e.dst_node, e.ack_for>> \in A)
  BY <1>14 DEF Cuts
<1>16. In(t, f.id) /\ t.g_msg_table[f.id].content = f.content
  BY <1>9 DEF Handles, Body, FrameBody
<1>17. Pursues(n, s, t)
  <2>1. ASSUME NEW id \in DOMAIN t.g_msg_table \ DOMAIN s.g_msg_table
        PROVE  (id[1] = n \/ In(node[id[1]], id)) /\ t.g_msg_table[id].content # "link"
    <3>1. CASE id = f.id  BY <1>7, <1>8, <1>16, <3>1 DEF FromOrigin
    <3>2. CASE id # f.id
      <4>1. id[1] = n  BY <1>9, <2>1, <3>2 DEF Handles
      <4>. QED  BY <1>15, <2>1, <3>2, <4>1
    <3>. QED  BY <3>1, <3>2
  <2>. QED  BY <1>1, <1>9, <1>15, <2>1 DEF Pursues, Handles
<1>18. Consented(n, t)
  <2>1. ASSUME NEW id \in DOMAIN t.g_msg_table \ DOMAIN s.g_msg_table,
               NEW e, e = t.g_msg_table[id], id[1] = n, e.content = "y"
        PROVE  /\ e.dst_node \in Reach[n] /\ ~ t.link_enabled[e.dst_node]
               /\ In(t, e.ack_for) /\ t.g_msg_table[e.ack_for].content = "unlink"
    <3>1. id # f.id  BY <1>7, <2>1 DEF FromOrigin, In
    <3>2. <<e.dst_node, e.ack_for>> \in A  BY <1>15, <2>1, <3>1
    <3>3. f.content = "unlink" /\ <<e.dst_node, e.ack_for>> = <<l, f.id>> /\ C = {l}
      BY <1>14, <3>2
    <3>4. e.dst_node = l /\ e.ack_for = f.id  BY <3>3
    <3>. QED  BY <1>11, <1>13, <1>15, <1>16, <3>3, <3>4
  <2>2. Consented(n, s)  BY DEF Matched
  <2>. QED  BY <1>17, <2>1, <2>2, ConsentKept
<1>19. ASSUME NEW m \in Node, NEW k \in DOMAIN rx'[m]
       PROVE  rx'[m][k].id \in Id /\ FromOrigin(rx'[m][k].id, rx'[m][k].content)
  <2>1. CASE m = n
    <3>1. k + 1 \in DOMAIN rx[n] /\ rx'[m][k] = rx[n][k + 1]
      BY <1>1, <1>4, <1>5, <1>19, <2>1 DEF Taken
    <3>. QED  BY <1>2, <3>1, AirHeld
  <2>2. CASE m # n
    <3>1. rx'[m] = rx[m]  BY <1>1, <1>4, <2>2
    <3>. QED  BY <1>2, <1>19, <3>1, AirHeld
  <2>. QED  BY <2>1, <2>2
<1>20. ASSUME NEW m \in Node, s.link_enabled[m], ~ t.link_enabled[m]
       PROVE  ~ node[m].link_enabled[n] \/ Owes(t, m)
  <2>1. m = l /\ C # {}  BY <1>14, <1>15, <1>20
  <2>. QED  BY <1>12, <1>14, <2>1
<1>21. ASSUME NEW m \in Node, Owes(s, m) PROVE Owes(t, m)
  <2>1. s.MessageQueue \in Seq(DOMAIN s.g_msg_table)  BY <1>8 DEF Ready
  <2>. QED  BY <1>15, <1>17, <1>21, <2>1, OwesKept DEF Pursues
<1>22. ASSUME NEW o \in Node, NEW m \in Node, Coming(o, m)
       PROVE  Coming(o, m)' \/ (m = n /\ ~ t.link_enabled[o])
  <2>1. PICK k \in DOMAIN rx[m] : rx[m][k].content = "y" /\ rx[m][k].origin = o
    BY <1>22 DEF Coming
  <2>2. CASE m # n
    <3>1. rx'[m] = rx[m]  BY <1>1, <1>4, <2>2
    <3>. QED  BY <2>1, <3>1 DEF Coming
  <2>3. CASE m = n /\ k = 1
    <3>1. f.content = "y" /\ o = l  BY <1>6, <2>1, <2>3
    <3>2. Cuts(s, t, ids, {l}, {})  BY <1>12, <3>1
    <3>. QED  BY <1>11, <2>3, <3>1, <3>2 DEF Cuts
  <2>4. CASE m = n /\ k # 1
    <3>1. k - 1 \in DOMAIN Tail(rx[n]) /\ Tail(rx[n])[k - 1] = rx[n][k]
      BY <1>4, <2>4, TailHas
    <3>2. rx'[m] = Tail(rx[n])  BY <1>1, <1>4, <2>4
    <3>. QED  BY <2>1, <2>4, <3>1, <3>2 DEF Coming
  <2>. QED  BY <2>2, <2>3, <2>4
<1>. QED  BY <1>1, <1>2, <1>17, <1>18, <1>19, <1>20, <1>21, <1>22, MatchedStep

(* A "y" that fits goes to a node that hears it.                           *)
LEMMA YesIsHeard ==
  ASSUME Woven, Matched, NEW n \in Node, NEW s, s = node[n],
         NEW id \in DOMAIN s.g_msg_table, NEW e, e = s.g_msg_table[id],
         e.content = "y", Fit(s, e)
  PROVE  /\ e.dst_node \in Reach[n] /\ e.target_node = e.dst_node /\ e.origin_node = n
         /\ node[e.dst_node].mode # "off"
<1>1. s \in NodeRecord /\ Ready(n, s, flooded[n]) /\ Tied(n, s, e)
  <2>1. Ready(n, s, flooded[n]) /\ Bonded(n, s, Ways)  BY DEF Woven, Sane
  <2>. QED  BY <2>1 DEF Ready, Bonded
<1>2. e \in DataEntry /\ EntryOk(n, id, e)  BY <1>1, EntryType DEF Ready
<1>3. e.target_node = e.dst_node /\ e.origin_node = n /\ id[1] = n
  <2>1. Settles(e.content) /\ Direct(e.content, e.ack_for)  BY DEF Settles, Direct
  <2>2. e.target_node = e.dst_node /\ e.steps = 0  BY <1>1, <2>1 DEF Fit
  <2>. QED  BY <1>2, <2>2 DEF EntryOk
<1>4. e.ack_for # NO_ID /\ e.dst_node = e.ack_for[1]
  <2>1. e.content \in Responses  BY DEF Responses
  <2>2. e.ack_for # NO_ID  BY <1>2, <2>1 DEF EntryOk
  <2>3. EntryHonest(e)  BY <1>1 DEF Tied
  <2>. QED  BY <2>2, <2>3 DEF EntryHonest, Honest
<1>5. e.dst_node \in Reach[n] /\ In(s, e.ack_for)
  <2>1. Consented(n, s)  BY DEF Matched
  <2>. QED  BY <1>1, <1>3, <2>1 DEF Consented
<1>6. e.dst_node \in Node  BY <1>5, MeshAssumption
<1>7. In(node[e.dst_node], e.ack_for)
  <2>1. Held /\ e.ack_for \in DOMAIN s.g_msg_table  BY <1>5 DEF Matched, In
  <2>2. FromOrigin(e.ack_for, s.g_msg_table[e.ack_for].content)  BY <2>1 DEF Held
  <2>. QED  BY <1>4, <2>2 DEF FromOrigin
<1>8. node[e.dst_node].mode # "off"
  <2>1. Ready(e.dst_node, node[e.dst_node], flooded[e.dst_node])  BY <1>6 DEF Woven, Sane
  <2>2. node[e.dst_node] # Off  BY <1>7, OffIsRecord DEF In
  <2>. QED  BY <2>1, <2>2 DEF Ready
<1>. QED  BY <1>3, <1>5, <1>8

LEMMA TransmitMatched ==
  ASSUME Reliable, Woven, Matched, NEW n \in Node, Transmit(n)
  PROVE  Matched'
<1>. DEFINE s  == node[n]
            id == Head(s.MessageQueue)
            e  == s.g_msg_table[id]
            f  == FrameOf(n, id, e)
            t  == [s EXCEPT !.MessageQueue = Tail(s.MessageQueue)]
            D  == {m \in Reach[n] : Up(m) /\ e.target_node \in {BROADCAST_ID, m}}
<1>1. s.mode = "up" /\ s.MessageQueue # << >> /\ node' = [node EXCEPT ![n] = t]
  BY DEF Transmit, Sends, Up
<1>2. rx' = [m \in Node |-> IF m \in D THEN Append(rx[m], f) ELSE rx[m]]
  BY DEF Transmit, FrameOf, Reliable
<1>3. Sane /\ s \in NodeRecord /\ s.MessageQueue \in Seq(DOMAIN s.g_msg_table)
      /\ rx \in [Node -> Seq(Frame)]
  BY DEF Woven, Sane, Types, Ready
<1>4. id \in DOMAIN s.g_msg_table /\ 1 \in DOMAIN s.MessageQueue /\ s.MessageQueue[1] = id
  BY <1>1, <1>3
<1>5. /\ t.g_msg_table = s.g_msg_table /\ t.mode = s.mode /\ t.link_enabled = s.link_enabled
      /\ t.MessageQueue = Tail(s.MessageQueue)
  BY <1>3 DEF NodeRecord
<1>6. f.id = id /\ f.content = e.content /\ f.origin = e.origin_node  BY DEF FrameOf
<1>7. id \in Id /\ FromOrigin(f.id, f.content)
  BY <1>3, <1>4, <1>6, EntryType DEF Matched, Held
<1>. HIDE DEF f, t
<1>8. Pursues(n, s, t)  BY <1>5 DEF Pursues, In
<1>9. Consented(n, t)  BY <1>5 DEF Matched, Consented, In
<1>10. ASSUME NEW m \in Node, NEW k \in DOMAIN rx'[m]
       PROVE  rx'[m][k].id \in Id /\ FromOrigin(rx'[m][k].id, rx'[m][k].content)
  <2>1. CASE m \notin D
    <3>1. rx'[m] = rx[m]  BY <1>2, <2>1
    <3>. QED  BY <1>3, <1>10, <3>1, AirHeld
  <2>2. CASE m \in D
    <3>1. rx[m] \in Seq(Frame) /\ rx'[m] = Append(rx[m], f)  BY <1>2, <1>3, <2>2
    <3>2. \/ k \in DOMAIN rx[m] /\ rx'[m][k] = rx[m][k]
          \/ rx'[m][k] = f
      BY <1>10, <3>1
    <3>. QED  BY <1>3, <1>6, <1>7, <3>2, AirHeld
  <2>. QED  BY <2>1, <2>2
<1>11. ASSUME NEW m \in D
       PROVE  \E k \in DOMAIN rx'[m] : rx'[m][k] = f
  <2>1. m \in Node  BY MeshAssumption
  <2>2. rx[m] \in Seq(Frame) /\ rx'[m] = Append(rx[m], f)  BY <1>2, <1>3, <2>1
  <2>. DEFINE q == rx[m]
  <2>3. Len(q) \in Nat /\ DOMAIN Append(q, f) = 1 .. Len(q) + 1
        /\ Append(q, f)[Len(q) + 1] = f
    BY <2>2
  <2>. HIDE DEF q
  <2>4. Len(q) + 1 \in 1 .. Len(q) + 1  BY <2>3
  <2>. QED  BY <2>2, <2>3, <2>4 DEF q
<1>12. ASSUME NEW m \in Node, Owes(s, m)
       PROVE  Owes(t, m) \/ Coming(n, m)' \/ node[m].mode = "panic"
  <2>1. PICK k \in DOMAIN s.MessageQueue :
          LET x == s.g_msg_table[s.MessageQueue[k]] IN x.content = "y" /\ x.dst_node = m
    BY <1>12 DEF Owes
  <2>2. CASE k = 1
    <3>1. e.content = "y" /\ e.dst_node = m  BY <1>4, <2>1, <2>2
    <3>2. /\ m \in Reach[n] /\ e.target_node = m /\ e.origin_node = n
          /\ node[m].mode # "off"
      <4>1. Fit(s, e)  BY <1>4 DEF Woven, Bonded
      <4>. HIDE DEF e, id
      <4>. QED  BY <1>4, <3>1, <4>1, YesIsHeard DEF e, id
    <3>3. node[m].mode = "panic" \/ Up(m)  BY <1>3, <3>2 DEF Sane, Types, NodeRecord, Up
    <3>4. ASSUME Up(m) PROVE Coming(n, m)'
      <4>1. m \in D  BY <3>2, <3>4
      <4>2. PICK j \in DOMAIN rx'[m] : rx'[m][j] = f  BY <1>11, <4>1
      <4>. HIDE DEF D, e
      <4>. QED  BY <1>6, <3>1, <3>2, <4>2 DEF Coming
    <3>. QED  BY <3>3, <3>4
  <2>3. CASE k # 1
    <3>1. k - 1 \in DOMAIN t.MessageQueue /\ t.MessageQueue[k - 1] = s.MessageQueue[k]
      BY <1>3, <1>5, <2>3, TailHas
    <3>. QED  BY <1>5, <2>1, <3>1 DEF Owes
  <2>. QED  BY <2>2, <2>3
<1>13. ASSUME NEW l \in Node, NEW m \in Node, Coming(l, m) PROVE Coming(l, m)'
  <2>1. PICK k \in DOMAIN rx[m] : rx[m][k].content = "y" /\ rx[m][k].origin = l
    BY <1>13 DEF Coming
  <2>2. rx[m] \in Seq(Frame) /\ (rx'[m] = rx[m] \/ rx'[m] = Append(rx[m], f))
    BY <1>2, <1>3
  <2>3. k \in DOMAIN rx'[m] /\ rx'[m][k] = rx[m][k]  BY <2>2
  <2>. QED  BY <2>1, <2>3 DEF Coming
<1>. QED  BY <1>1, <1>3, <1>5, <1>8, <1>9, <1>10, <1>12, <1>13, MatchedStep

LEMMA MatchedInit == Init => Matched
<1>. SUFFICES ASSUME Init PROVE Matched  OBVIOUS
<1>1. \A m \in Node : DOMAIN rx[m] = {}  BY DEF Init
<1>2. ASSUME NEW n \in Node
      PROVE  /\ \A m \in Node : node[n].link_enabled[m]
             /\ \A id \in DOMAIN node[n].g_msg_table :
                  id[1] = n /\ node[n].g_msg_table[id].content \notin {"link", "y"}
  <2>1. CASE n \notin Quiet
    <3>1. node[n] = Off  BY <2>1 DEF Init
    <3>. QED  BY <3>1, OffIsRecord DEF Off
  <2>2. CASE n \in Quiet
    <3>. DEFINE b == Booted(n, 0)
    <3>1. node[n] = [b EXCEPT !.MessageQueue = << >>]  BY <2>2 DEF Init
    <3>. HIDE DEF b
    <3>2. Ready(n, b, {}) /\ Woke(n, b, 0)  BY BootedReady DEF b
    <3>3. /\ \A m \in Node : b.link_enabled[m]
          /\ \A id \in DOMAIN b.g_msg_table : b.g_msg_table[id].content \notin {"link", "y"}
      BY BootedCalm DEF b
    <3>4. node[n].g_msg_table = b.g_msg_table /\ node[n].link_enabled = b.link_enabled
      BY <3>1, <3>2 DEF Ready, NodeRecord
    <3>. QED  BY <3>2, <3>3, <3>4 DEF Woke
  <2>. QED  BY <2>1, <2>2
<1>3. Held  BY <1>1, <1>2 DEF Held, FromOrigin, In
<1>4. \A n \in Node : Consented(n, node[n])  BY <1>2 DEF Consented
<1>. QED  BY <1>2, <1>3, <1>4 DEF Matched

(* No send queue is full: a "y" that finds no room in it is never sent.    *)
Spacious == \A n \in Node : Len(node[n].MessageQueue) < QUEUE_LENGTH

LEMMA MatchedNext ==
  ASSUME Symmetric, Steady, Reliable, Unjoined, Woven, Matched, Spacious, [Next]_vars
  PROVE  Matched'
<1>1. Sane /\ todo \subseteq Script  BY DEF Woven, Sane, Types
<1>2. ASSUME NEW n \in Node, Transmit(n) PROVE Matched'  BY <1>2, TransmitMatched
<1>3. ASSUME NEW n \in Node, Receive(n) PROVE Matched'
  BY <1>3, ReceiveMatched DEF Spacious
<1>4. ASSUME NEW n \in Node, Boot(n) PROVE Matched'  BY <1>1, <1>4, BootMatched
<1>5. ASSUME NEW n \in Node, Restart(n) PROVE FALSE
  BY <1>1, <1>5 DEF Restart, Do, Steady
<1>6. ASSUME NEW n \in Node, rquery_task(n) PROVE Matched'
  <2>1. Up(n) /\ Originate(n, node[n], "rquery", BROADCAST_ID, BROADCAST_ID, FALSE)
        /\ "rquery" # "link" /\ FALSE \in BOOLEAN
    BY <1>6 DEF rquery_task
  <2>. QED  BY <1>1, <2>1, ContentsAre, OriginateMatched
<1>7. ASSUME NEW n \in Node, NEW m \in Node, Ping(n, m) PROVE Matched'
  BY <1>1, <1>7, PingMatched
<1>8. ASSUME NEW n \in Node, NEW m \in Node, SysUnlink(n, m) PROVE Matched'
  <2>1. Up(n) /\ Originate(n, node[n], "unlink", m, m, FALSE)
        /\ "unlink" # "link" /\ FALSE \in BOOLEAN
    BY <1>8 DEF SysUnlink
  <2>. QED  BY <1>1, <2>1, ContentsAre, OriginateMatched
<1>9. ASSUME NEW n \in Node, NEW m \in Node, SysLink(n, m) PROVE FALSE
  BY <1>1, <1>9 DEF SysLink, Do, Unjoined
<1>10. ASSUME NEW n \in Node, NEW m \in Node \cup {NO_ID}, Post(n, m) PROVE Matched'
  <2>1. Up(n) /\ Originate(n, node[n], "chat", m, m, TRUE)
        /\ "chat" # "link" /\ TRUE \in BOOLEAN
    BY <1>10 DEF Post
  <2>. QED  BY <1>1, <2>1, ContentsAre, OriginateMatched
<1>11. ASSUME UNCHANGED vars PROVE Matched'
  BY <1>11 DEF vars, Matched, Held, FromOrigin, Followed, Coming
<1>. QED
  BY <1>2, <1>3, <1>4, <1>5, <1>6, <1>7, <1>8, <1>9, <1>10, <1>11 DEF Next

(* While no frame is lost, no node restarts, nobody makes up a link again  *)
(* and no send queue overflows, both ends agree about a cut once every     *)
(* frame has arrived: the end that agrees cuts first and then answers, its *)
(* "y" goes straight to the node that asked, and that node still knows     *)
(* what it asked for (maintenance.c:112-130, 135-143).                     *)
THEOREM CutsAreAgreed ==
  Roomy /\ Symmetric /\ Steady /\ Reliable /\ Unjoined =>
    (Spec /\ []Spacious => []CutAgreed)
<1>. SUFFICES ASSUME Roomy, Symmetric, Steady, Reliable, Unjoined
              PROVE  Spec /\ []Spacious => []CutAgreed
  OBVIOUS
<1>1. Init => Matched  BY MatchedInit
<1>2. Matched /\ Woven /\ Spacious /\ [Next]_vars => Matched'  BY MatchedNext
<1>3. Matched => CutAgreed
  <2>. SUFFICES ASSUME Matched, Settled, NEW n \in Node, NEW m \in Node, Up(n), Up(m),
                       ~ node[n].link_enabled[m]
                PROVE  ~ node[m].link_enabled[n]
    BY DEF CutAgreed
  <2>1. node[n].MessageQueue = << >> /\ rx[m] = << >>  BY DEF Settled
  <2>2. ~ Owes(node[n], m) /\ ~ Coming(n, m)
    <3>1. DOMAIN << >> = {}  OBVIOUS
    <3>. QED  BY <2>1, <3>1 DEF Owes, Coming
  <2>3. Followed(n, m)  BY DEF Matched
  <2>. QED  BY <2>2, <2>3 DEF Followed, Up
<1>. QED  BY <1>1, <1>2, <1>3, SpecWoven, PTL DEF Spec
=============================================================================
