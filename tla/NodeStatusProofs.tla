-------------------------- MODULE NodeStatusProofs --------------------------
(***************************************************************************)
(* The safety invariants of NodeStatus hold for any number of nodes, tasks *)
(* and pings.  That no suspicion is forgotten rests on time: a run of      *)
(* pings starts on a node not heard for REQUEST_STATUS_TIME or heard just  *)
(* now; one heard in the meantime is too young, until the run is over, to  *)
(* be found silent; and a node the status task suspects during a run was   *)
(* heard since it read the age, so that the next walk takes it back.       *)
(***************************************************************************)
EXTENDS NodeStatus, TLAPS

(* The node a task pings has the task's handle; a task that pings the      *)
(* board itself is at its first line.                                      *)
Owned ==
  \A t \in Task :
    IF Pinging(t)
    THEN /\ pinged[t] \in g_node_table
         /\ ping_task[pinged[t]] = t
         /\ pinged[t] = Self => pc[t] = "start"
    ELSE pinged[t] = NULL

Tried ==
  \A t \in Task :
    /\ pc[t] \in {"free", "start"} => tries[t] = 0
    /\ pc[t] \in {"send", "wait"} => tries[t] < PINGS

(* Heard since the run of pings began.                                     *)
Young(n) == age[n] = 0 \/ (age[n] = 1 /\ aged[n])

Ages ==
  /\ marking # NULL => age[marking] = 0
  /\ \A n \in Others : ping_task[n] # NULL => Young(n) \/ age[n] = Old
  /\ \A n \in Others : ping_task[n] # NULL /\ status[n] = "ALIVE" => Young(n)
  /\ \A t \in Task : pc[t] \in {"send", "wait"} /\ ack_status[pinged[t]] => Young(pinged[t])
  /\ \A t \in Task : pc[t] = "alive" => Young(pinged[t])

(* A node whose age was Old when it was read is as old still, or was heard *)
(* since; the latter if it is suspected in the middle of a run of pings.   *)
HeardSince(n) == age[n] = 0 /\ ~ seen[n]

Walk ==
  /\ stale => visited # NULL /\ (age[visited] = Old \/ HeardSince(visited))
  /\ line \in {"suspect", "reach"} => stale
  /\ line \in {"suspect", "reach"} /\ visited # Self /\ ping_task[visited] # NULL
       => HeardSince(visited)
  /\ line = "reach" /\ visited # Self /\ status[visited] = "ALIVE" => HeardSince(visited)
  /\ line = "judge" /\ ~ stale /\ visited # Self /\ ping_task[visited] # NULL
       => Young(visited)

(* What settles an UNKNOWN node: a run of pings, the status task at work   *)
(* on it, or the next walk, which comes before it grows older.             *)
Settling ==
  \A n \in Others \cap g_node_table :
    status[n] = "UNKNOWN" =>
      \/ Undecided(n)
      \/ visited = n /\ (line = "reach" \/ (line = "judge" /\ ~ stale))
      \/ age[n] < Old /\ ~ seen[n]

IInv == TypeOK /\ Owned /\ HandleIsLive /\ Tried /\ Ages /\ Walk /\ Settling

----------------------------------------------------------------------------

USE NodeStatusAssumption
    DEF Others, Pinging, Old, Young, At, GoTo, nodeVars, timeVars, walkVars, taskVars

LEMMA InitIInv == Init => IInv
<1> SUFFICES ASSUME Init
             PROVE  IInv
  OBVIOUS
<1>1. TypeOK
  <2>1. visited = NULL <=> line = "walk"
    BY DEF Init
  <2>2. stale \in BOOLEAN
    BY DEF Init
  <2> QED
    BY <2>1, <2>2 DEF Init, TypeOK, Statuses, Lines
<1>2. Owned /\ HandleIsLive /\ Tried /\ Ages
  BY DEF Init, Owned, HandleIsLive, Tried, Ages
<1>3. Walk
  BY DEF Init, Walk
<1>4. Settling
  BY DEF Init, Settling
<1> QED
  BY <1>1, <1>2, <1>3, <1>4 DEF IInv

(* Every step keeps the invariant.                                         *)
LEMMA NextIInv == IInv /\ [Next]_vars => IInv'
<1> SUFFICES ASSUME IInv, [Next]_vars
             PROVE  IInv'
  OBVIOUS
<1>1. ASSUME NEW o \in Node, NEW s \in Node, Hear(o, s)
      PROVE  IInv'
  <2>1. TypeOK'
    BY <1>1 DEF IInv, TypeOK, Owned, Tried, Statuses, Lines, Hear, nodes_update
  <2>2. Owned'
    BY <1>1 DEF IInv, TypeOK, Owned, Hear, nodes_update
  <2>3. HandleIsLive'
    BY <1>1 DEF IInv, TypeOK, Owned, HandleIsLive, Hear, nodes_update
  <2>4. Tried'
    BY <1>1 DEF IInv, TypeOK, Owned, Tried, Hear, nodes_update
  <2>5. Ages'
    BY <1>1 DEF IInv, TypeOK, Owned, HandleIsLive, Ages, Walk, HeardSince, Hear, nodes_update
  <2>6. Walk'
    BY <1>1 DEF IInv, TypeOK, Owned, HandleIsLive, Ages, Walk, HeardSince, Hear, nodes_update
  <2>7. Settling'
    BY <1>1 DEF IInv, TypeOK, Owned, HandleIsLive, Walk, HeardSince, Settling, Undecided, Hear, nodes_update
  <2> QED BY <2>1, <2>2, <2>3, <2>4, <2>5, <2>6, <2>7 DEF IInv
<1>2. ASSUME NEW o \in Node, NEW s \in Node, HearReply(o, s)
      PROVE  IInv'
  <2>1. TypeOK'
    BY <1>2 DEF IInv, TypeOK, Owned, Tried, Statuses, Lines, HearReply, nodes_update
  <2>2. Owned'
    BY <1>2 DEF IInv, TypeOK, Owned, HearReply, nodes_update
  <2>3. HandleIsLive'
    BY <1>2 DEF IInv, TypeOK, Owned, HandleIsLive, HearReply, nodes_update
  <2>4. Tried'
    BY <1>2 DEF IInv, TypeOK, Owned, Tried, HearReply, nodes_update
  <2>5. Ages'
    BY <1>2 DEF IInv, TypeOK, Owned, HandleIsLive, Ages, Walk, HeardSince, HearReply, nodes_update
  <2>6. Walk'
    BY <1>2 DEF IInv, TypeOK, Owned, HandleIsLive, Ages, Walk, HeardSince, HearReply, nodes_update
  <2>7. Settling'
    BY <1>2 DEF IInv, TypeOK, Owned, HandleIsLive, Walk, HeardSince, Settling, Undecided, HearReply, nodes_update
  <2> QED BY <2>1, <2>2, <2>3, <2>4, <2>5, <2>6, <2>7 DEF IInv
<1>3. ASSUME MarkAck
      PROVE  IInv'
  <2>1. TypeOK'
    BY <1>3 DEF IInv, TypeOK, Owned, Tried, Statuses, Lines, MarkAck
  <2>2. Owned'
    BY <1>3 DEF IInv, TypeOK, Owned, MarkAck
  <2>3. HandleIsLive'
    BY <1>3 DEF IInv, TypeOK, Owned, HandleIsLive, MarkAck
  <2>4. Tried'
    BY <1>3 DEF IInv, TypeOK, Owned, Tried, MarkAck
  <2>5. Ages'
    BY <1>3 DEF IInv, TypeOK, Owned, HandleIsLive, Ages, Walk, HeardSince, MarkAck
  <2>6. Walk'
    BY <1>3 DEF IInv, TypeOK, Owned, HandleIsLive, Ages, Walk, HeardSince, MarkAck
  <2>7. Settling'
    BY <1>3 DEF IInv, TypeOK, Owned, HandleIsLive, Walk, HeardSince, Settling, Undecided, MarkAck
  <2> QED BY <2>1, <2>2, <2>3, <2>4, <2>5, <2>6, <2>7 DEF IInv
<1>4. ASSUME BeginWalk
      PROVE  IInv'
  <2>1. TypeOK'
    BY <1>4 DEF IInv, TypeOK, Owned, Tried, Statuses, Lines, BeginWalk
  <2>2. Owned'
    BY <1>4 DEF IInv, TypeOK, Owned, BeginWalk
  <2>3. HandleIsLive'
    BY <1>4 DEF IInv, TypeOK, Owned, HandleIsLive, BeginWalk
  <2>4. Tried'
    BY <1>4 DEF IInv, TypeOK, Owned, Tried, BeginWalk
  <2>5. Ages'
    BY <1>4 DEF IInv, TypeOK, Owned, HandleIsLive, Ages, Walk, HeardSince, BeginWalk
  <2>6. Walk'
    BY <1>4 DEF IInv, TypeOK, Owned, HandleIsLive, Ages, Walk, HeardSince, BeginWalk
  <2>7. Settling'
    BY <1>4 DEF IInv, TypeOK, Owned, HandleIsLive, Walk, HeardSince, Settling, Undecided, BeginWalk
  <2> QED BY <2>1, <2>2, <2>3, <2>4, <2>5, <2>6, <2>7 DEF IInv
<1>5. ASSUME NEW n \in Node, ReadAge(n)
      PROVE  IInv'
  <2>1. TypeOK'
    BY <1>5 DEF IInv, TypeOK, Owned, Tried, Statuses, Lines, ReadAge
  <2>2. Owned'
    BY <1>5 DEF IInv, TypeOK, Owned, ReadAge
  <2>3. HandleIsLive'
    BY <1>5 DEF IInv, TypeOK, Owned, HandleIsLive, ReadAge
  <2>4. Tried'
    BY <1>5 DEF IInv, TypeOK, Owned, Tried, ReadAge
  <2>5. Ages'
    BY <1>5 DEF IInv, TypeOK, Owned, HandleIsLive, Ages, Walk, HeardSince, ReadAge
  <2>6. Walk'
    BY <1>5 DEF IInv, TypeOK, Owned, HandleIsLive, Ages, Walk, HeardSince, ReadAge
  <2>7. Settling'
    BY <1>5 DEF IInv, TypeOK, Owned, HandleIsLive, Walk, HeardSince, Settling, Undecided, ReadAge
  <2> QED BY <2>1, <2>2, <2>3, <2>4, <2>5, <2>6, <2>7 DEF IInv
<1>6. ASSUME Judge
      PROVE  IInv'
  <2>1. TypeOK'
    BY <1>6 DEF IInv, TypeOK, Owned, Tried, Statuses, Lines, Judge, Judged, Leave
  <2>2. Owned'
    BY <1>6 DEF IInv, TypeOK, Owned, Judge, Judged, Leave
  <2>3. HandleIsLive'
    BY <1>6 DEF IInv, TypeOK, Owned, HandleIsLive, Judge, Judged, Leave
  <2>4. Tried'
    BY <1>6 DEF IInv, TypeOK, Owned, Tried, Judge, Judged, Leave
  <2>5. Ages'
    BY <1>6 DEF IInv, TypeOK, Owned, HandleIsLive, Ages, Walk, HeardSince, Judge, Judged, Leave
  <2>6. Walk'
    BY <1>6 DEF IInv, TypeOK, Owned, HandleIsLive, Ages, Walk, HeardSince, Judge, Judged, Leave
  <2>7. Settling'
    BY <1>6 DEF IInv, TypeOK, Owned, HandleIsLive, Walk, HeardSince, Settling, Undecided, Judge, Judged, Leave
  <2> QED BY <2>1, <2>2, <2>3, <2>4, <2>5, <2>6, <2>7 DEF IInv
<1>7. ASSUME attempt_to_reach_node
      PROVE  IInv'
  <2>1. TypeOK'
    BY <1>7 DEF IInv, TypeOK, Owned, Tried, Statuses, Lines, attempt_to_reach_node
  <2>2. Owned'
    BY <1>7 DEF IInv, TypeOK, Owned, attempt_to_reach_node
  <2>3. HandleIsLive'
    BY <1>7 DEF IInv, TypeOK, Owned, HandleIsLive, attempt_to_reach_node
  <2>4. Tried'
    BY <1>7 DEF IInv, TypeOK, Owned, Tried, attempt_to_reach_node
  <2>5. Ages'
    BY <1>7 DEF IInv, TypeOK, Owned, HandleIsLive, Ages, Walk, HeardSince, attempt_to_reach_node
  <2>6. Walk'
    BY <1>7 DEF IInv, TypeOK, Owned, HandleIsLive, Ages, Walk, HeardSince, attempt_to_reach_node
  <2>7. Settling'
    BY <1>7 DEF IInv, TypeOK, Owned, HandleIsLive, Walk, HeardSince, Settling, Undecided, attempt_to_reach_node
  <2> QED BY <2>1, <2>2, <2>3, <2>4, <2>5, <2>6, <2>7 DEF IInv
<1>8. ASSUME ReachOut
      PROVE  IInv'
  <2>1. TypeOK'
    <3>1. (visited = NULL <=> line = "walk")' /\ (stale \in BOOLEAN)'
      BY <1>8 DEF ReachOut, Leave
    <3> QED
      BY <1>8, <3>1 DEF IInv, TypeOK, Owned, Tried, Statuses, Lines, ReachOut, StartsTask, Leave
  <2>2. Owned'
    BY <1>8 DEF IInv, TypeOK, Owned, ReachOut, StartsTask, Leave
  <2>3. HandleIsLive'
    BY <1>8 DEF IInv, TypeOK, Owned, HandleIsLive, ReachOut, StartsTask, Leave
  <2>4. Tried'
    BY <1>8 DEF IInv, TypeOK, Owned, Tried, ReachOut, StartsTask, Leave
  <2>5. Ages'
    BY <1>8 DEF IInv, TypeOK, Owned, HandleIsLive, Ages, Walk, HeardSince, ReachOut, StartsTask, Leave
  <2>6. Walk'
    BY <1>8 DEF IInv, TypeOK, Owned, HandleIsLive, Ages, Walk, HeardSince, ReachOut, StartsTask, Leave
  <2>7. Settling'
    BY <1>8 DEF IInv, TypeOK, Owned, HandleIsLive, Walk, HeardSince, Settling, Undecided, ReachOut, StartsTask, Leave
  <2> QED BY <2>1, <2>2, <2>3, <2>4, <2>5, <2>6, <2>7 DEF IInv
<1>9. ASSUME NEW t \in Task, PingStart(t)
      PROVE  IInv'
  <2>1. TypeOK'
    BY <1>9 DEF IInv, TypeOK, Owned, Tried, Statuses, Lines, PingStart, Forgotten
  <2>2. Owned'
    BY <1>9 DEF IInv, TypeOK, Owned, PingStart, Forgotten
  <2>3. HandleIsLive'
    BY <1>9 DEF IInv, TypeOK, Owned, HandleIsLive, PingStart, Forgotten
  <2>4. Tried'
    BY <1>9 DEF IInv, TypeOK, Owned, Tried, PingStart, Forgotten
  <2>5. Ages'
    BY <1>9 DEF IInv, TypeOK, Owned, HandleIsLive, Ages, Walk, HeardSince, PingStart, Forgotten
  <2>6. Walk'
    BY <1>9 DEF IInv, TypeOK, Owned, HandleIsLive, Ages, Walk, HeardSince, PingStart, Forgotten
  <2>7. Settling'
    BY <1>9 DEF IInv, TypeOK, Owned, HandleIsLive, Walk, HeardSince, Settling, Undecided, PingStart, Forgotten
  <2> QED BY <2>1, <2>2, <2>3, <2>4, <2>5, <2>6, <2>7 DEF IInv
<1>10. ASSUME NEW t \in Task, PingSelf(t)
      PROVE  IInv'
  <2>1. TypeOK'
    BY <1>10 DEF IInv, TypeOK, Owned, Tried, Statuses, Lines, PingSelf
  <2>2. Owned'
    BY <1>10 DEF IInv, TypeOK, Owned, PingSelf
  <2>3. HandleIsLive'
    BY <1>10 DEF IInv, TypeOK, Owned, HandleIsLive, PingSelf
  <2>4. Tried'
    BY <1>10 DEF IInv, TypeOK, Owned, Tried, PingSelf
  <2>5. Ages'
    BY <1>10 DEF IInv, TypeOK, Owned, HandleIsLive, Ages, Walk, HeardSince, PingSelf
  <2>6. Walk'
    BY <1>10 DEF IInv, TypeOK, Owned, HandleIsLive, Ages, Walk, HeardSince, PingSelf
  <2>7. Settling'
    BY <1>10 DEF IInv, TypeOK, Owned, HandleIsLive, Walk, HeardSince, Settling, Undecided, PingSelf
  <2> QED BY <2>1, <2>2, <2>3, <2>4, <2>5, <2>6, <2>7 DEF IInv
<1>11. ASSUME NEW t \in Task, PingSend(t)
      PROVE  IInv'
  <2>1. TypeOK'
    BY <1>11 DEF IInv, TypeOK, Owned, Tried, Statuses, Lines, PingSend
  <2>2. Owned'
    BY <1>11 DEF IInv, TypeOK, Owned, PingSend
  <2>3. HandleIsLive'
    BY <1>11 DEF IInv, TypeOK, Owned, HandleIsLive, PingSend
  <2>4. Tried'
    BY <1>11 DEF IInv, TypeOK, Owned, Tried, PingSend
  <2>5. Ages'
    BY <1>11 DEF IInv, TypeOK, Owned, HandleIsLive, Ages, Walk, HeardSince, PingSend
  <2>6. Walk'
    BY <1>11 DEF IInv, TypeOK, Owned, HandleIsLive, Ages, Walk, HeardSince, PingSend
  <2>7. Settling'
    BY <1>11 DEF IInv, TypeOK, Owned, HandleIsLive, Walk, HeardSince, Settling, Undecided, PingSend
  <2> QED BY <2>1, <2>2, <2>3, <2>4, <2>5, <2>6, <2>7 DEF IInv
<1>12. ASSUME NEW t \in Task, PingLook(t)
      PROVE  IInv'
  <2>1. TypeOK'
    BY <1>12 DEF IInv, TypeOK, Owned, Tried, Statuses, Lines, PingLook, MoreTries
  <2>2. Owned'
    BY <1>12 DEF IInv, TypeOK, Owned, PingLook, MoreTries
  <2>3. HandleIsLive'
    BY <1>12 DEF IInv, TypeOK, Owned, HandleIsLive, PingLook, MoreTries
  <2>4. Tried'
    BY <1>12 DEF IInv, TypeOK, Owned, Tried, PingLook, MoreTries
  <2>5. Ages'
    BY <1>12 DEF IInv, TypeOK, Owned, HandleIsLive, Ages, Walk, HeardSince, PingLook, MoreTries
  <2>6. Walk'
    BY <1>12 DEF IInv, TypeOK, Owned, HandleIsLive, Ages, Walk, HeardSince, PingLook, MoreTries
  <2>7. Settling'
    BY <1>12 DEF IInv, TypeOK, Owned, HandleIsLive, Walk, HeardSince, Settling, Undecided, PingLook, MoreTries
  <2> QED BY <2>1, <2>2, <2>3, <2>4, <2>5, <2>6, <2>7 DEF IInv
<1>13. ASSUME NEW t \in Task, PingVerdict(t)
      PROVE  IInv'
  <2>1. TypeOK'
    BY <1>13 DEF IInv, TypeOK, Owned, Tried, Statuses, Lines, PingVerdict, Verdict
  <2>2. Owned'
    BY <1>13 DEF IInv, TypeOK, Owned, PingVerdict, Verdict
  <2>3. HandleIsLive'
    BY <1>13 DEF IInv, TypeOK, Owned, HandleIsLive, PingVerdict, Verdict
  <2>4. Tried'
    BY <1>13 DEF IInv, TypeOK, Owned, Tried, PingVerdict, Verdict
  <2>5. Ages'
    BY <1>13 DEF IInv, TypeOK, Owned, HandleIsLive, Ages, Walk, HeardSince, PingVerdict, Verdict
  <2>6. Walk'
    BY <1>13 DEF IInv, TypeOK, Owned, HandleIsLive, Ages, Walk, HeardSince, PingVerdict, Verdict
  <2>7. Settling'
    BY <1>13 DEF IInv, TypeOK, Owned, HandleIsLive, Walk, HeardSince, Settling, Undecided, PingVerdict, Verdict
  <2> QED BY <2>1, <2>2, <2>3, <2>4, <2>5, <2>6, <2>7 DEF IInv
<1>14. ASSUME NEW t \in Task, PingClear(t)
      PROVE  IInv'
  <2>1. TypeOK'
    BY <1>14 DEF IInv, TypeOK, Owned, Tried, Statuses, Lines, PingClear, Cleared
  <2>2. Owned'
    BY <1>14 DEF IInv, TypeOK, Owned, PingClear, Cleared
  <2>3. HandleIsLive'
    BY <1>14 DEF IInv, TypeOK, Owned, HandleIsLive, PingClear, Cleared
  <2>4. Tried'
    BY <1>14 DEF IInv, TypeOK, Owned, Tried, PingClear, Cleared
  <2>5. Ages'
    BY <1>14 DEF IInv, TypeOK, Owned, HandleIsLive, Ages, Walk, HeardSince, PingClear, Cleared
  <2>6. Walk'
    BY <1>14 DEF IInv, TypeOK, Owned, HandleIsLive, Ages, Walk, HeardSince, PingClear, Cleared
  <2>7. Settling'
    BY <1>14 DEF IInv, TypeOK, Owned, HandleIsLive, Walk, HeardSince, Settling, Undecided, PingClear, Cleared
  <2> QED BY <2>1, <2>2, <2>3, <2>4, <2>5, <2>6, <2>7 DEF IInv
<1>15. ASSUME NEW n \in Node, GrowOlder(n)
      PROVE  IInv'
  <2>1. TypeOK'
    BY <1>15 DEF IInv, TypeOK, Owned, Tried, Statuses, Lines, GrowOlder
  <2>2. Owned'
    BY <1>15 DEF IInv, TypeOK, Owned, GrowOlder
  <2>3. HandleIsLive'
    BY <1>15 DEF IInv, TypeOK, Owned, HandleIsLive, GrowOlder
  <2>4. Tried'
    BY <1>15 DEF IInv, TypeOK, Owned, Tried, GrowOlder
  <2>5. Ages'
    <3>0. /\ \A m \in Node : m # n => age'[m] = age[m] /\ aged'[m] = aged[m]
          /\ age[n] \in {0, 1} /\ age'[n] = age[n] + 1
          /\ n # Self /\ ping_task[n] # NULL => ~ aged[n] /\ aged'[n]
      <4>1. age \in [Node -> 0 .. Old] /\ aged \in [Node -> BOOLEAN]
        BY DEF IInv, TypeOK
      <4>2. /\ age[n] < Old /\ (ping_task[n] = NULL \/ n = Self \/ ~ aged[n])
            /\ age' = [age EXCEPT ![n] = @ + 1]
            /\ aged' = [aged EXCEPT ![n] = ping_task[n] # NULL /\ n # Self]
        BY <1>15 DEF GrowOlder
      <4>3. \A m \in Node : m # n => age'[m] = age[m] /\ aged'[m] = aged[m]
        BY <4>1, <4>2
      <4>4. age[n] \in {0, 1} /\ age'[n] = age[n] + 1
        BY <4>1, <4>2
      <4>5. n # Self /\ ping_task[n] # NULL => ~ aged[n] /\ aged'[n]
        BY <4>1, <4>2, Zenon
      <4> QED BY <4>3, <4>4, <4>5
    <3>1. UNCHANGED <<nodeVars, walkVars, taskVars, marking>>
      BY <1>15 DEF GrowOlder
    <3>2. marking # n
      BY <1>15 DEF GrowOlder
    <3>3. n # Self /\ ping_task[n] # NULL => age[n] = 0 /\ Young(n)'
      BY <3>0, <3>1 DEF IInv, Ages
    <3>4. (marking # NULL => age[marking] = 0)'
      BY <3>0, <3>1, <3>2 DEF IInv, TypeOK, Ages
    <3>5. \A m \in Others : ping_task[m] # NULL => (Young(m) => Young(m)')
      BY <3>0, <3>1, <3>3
    <3>6. (\A m \in Others : ping_task[m] # NULL => Young(m) \/ age[m] = Old)'
      BY <3>0, <3>1, <3>3, <3>5 DEF IInv, Ages
    <3>7. (\A m \in Others : ping_task[m] # NULL /\ status[m] = "ALIVE" => Young(m))'
      BY <3>1, <3>5 DEF IInv, Ages
    <3>8. (\A t \in Task :
             pc[t] \in {"send", "wait"} /\ ack_status[pinged[t]] => Young(pinged[t]))'
      <4> SUFFICES ASSUME NEW t \in Task, pc[t] \in {"send", "wait"}, ack_status[pinged[t]]
                   PROVE  Young(pinged[t])'
        BY <3>1
      <4>1. pinged[t] \in Others /\ ping_task[pinged[t]] # NULL
        BY DEF IInv, TypeOK, Owned
      <4>2. Young(pinged[t])
        BY DEF IInv, Ages
      <4> QED BY <4>1, <4>2, <3>1, <3>5
    <3>9. (\A t \in Task : pc[t] = "alive" => Young(pinged[t]))'
      <4> SUFFICES ASSUME NEW t \in Task, pc[t] = "alive"
                   PROVE  Young(pinged[t])'
        BY <3>1
      <4>1. pinged[t] \in Others /\ ping_task[pinged[t]] # NULL
        BY DEF IInv, TypeOK, Owned
      <4>2. Young(pinged[t])
        BY DEF IInv, Ages
      <4> QED BY <4>1, <4>2, <3>1, <3>5
    <3> QED BY <3>4, <3>6, <3>7, <3>8, <3>9 DEF Ages
  <2>6. Walk'
    BY <1>15 DEF IInv, TypeOK, Owned, HandleIsLive, Ages, Walk, HeardSince, GrowOlder
  <2>7. Settling'
    BY <1>15 DEF IInv, TypeOK, Owned, HandleIsLive, Walk, HeardSince, Settling, Undecided, GrowOlder
  <2> QED BY <2>1, <2>2, <2>3, <2>4, <2>5, <2>6, <2>7 DEF IInv
<1>16. CASE UNCHANGED vars
  BY <1>16 DEF IInv, vars, TypeOK, Owned, HandleIsLive, Tried, Ages, Walk, HeardSince, Settling, Undecided
<1>17. CASE \E o, s \in Node : Hear(o, s) \/ HearReply(o, s)
  BY <1>1, <1>2, <1>17
<1>18. CASE node_status_task
  BY <1>4, <1>5, <1>6, <1>7, <1>8, <1>18 DEF node_status_task
<1>19. CASE \E t \in Task : ping_suspect_node(t)
  <2> PICK t \in Task : ping_suspect_node(t)
    BY <1>19
  <2> QED
    BY <1>9, <1>10, <1>11, <1>12, <1>13, <1>14 DEF ping_suspect_node
<1> QED
  BY <1>3, <1>15, <1>16, <1>17, <1>18, <1>19 DEF Next

----------------------------------------------------------------------------
(* The theorems.                                                           *)

LEMMA SpecIInv == Spec => []IInv
<1>1. Init => IInv
  BY InitIInv
<1>2. IInv /\ [Next]_vars => IInv'
  BY NextIInv
<1> QED
  BY <1>1, <1>2, PTL DEF Spec

(* Every variable keeps its type: in particular the status task and the    *)
(* handler only ever point to nodes that have an entry.                    *)
THEOREM TypeCorrect == Spec => []TypeOK
<1>1. IInv => TypeOK
  BY DEF IInv
<1> QED
  BY <1>1, SpecIInv, PTL

(* A node is pinged by one task at a time: a second one would share its    *)
(* ping message.                                                           *)
THEOREM OneTaskPerNode == Spec => []OnePingTask
<1>1. IInv => OnePingTask
  BY DEF IInv, Owned, OnePingTask
<1> QED
  BY <1>1, SpecIInv, PTL

(* No entry of another node keeps the handle of a task that has ended.     *)
THEOREM HandlesAreLive == Spec => []HandleIsLive
<1>1. IInv => HandleIsLive
  BY DEF IInv
<1> QED
  BY <1>1, SpecIInv, PTL

(* A node is never left UNKNOWN and silent with no run of pings to settle  *)
(* it, though the status task may suspect it in the middle of a run and    *)
(* then starts none.                                                       *)
THEOREM NoneForgotten == Spec => []NotForgotten
<1>1. IInv => NotForgotten
  BY DEF IInv, Settling, NotForgotten
<1> QED
  BY <1>1, SpecIInv, PTL
=============================================================================
