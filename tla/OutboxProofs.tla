---------------------------- MODULE OutboxProofs ----------------------------
(***************************************************************************)
(* Safety of Outbox for any tasks, messages and lengths of the queues.     *)
(***************************************************************************)
EXTENDS Outbox, TLAPS, SequenceTheorems

----------------------------------------------------------------------------
(* Sequences as sets.                                                      *)

LEMMA AppendSet ==
  ASSUME NEW S, NEW s \in Seq(S), NEW e \in S
  PROVE  /\ Append(s, e) \in Seq(S) /\ Len(Append(s, e)) = Len(s) + 1
         /\ ToSet(Append(s, e)) = ToSet(s) \cup {e}
<1>1. \A i \in 1 .. Len(s) : Append(s, e)[i] = s[i]
  BY AppendProperties
<1>2. Append(s, e)[Len(s) + 1] = e /\ Len(Append(s, e)) = Len(s) + 1 /\ Append(s, e) \in Seq(S)
  BY AppendProperties
<1>3. DOMAIN s = 1 .. Len(s) /\ DOMAIN Append(s, e) = 1 .. Len(s) + 1 /\ Len(s) \in Nat
  BY <1>2, LenProperties
<1>4. 1 .. Len(s) + 1 = (1 .. Len(s)) \cup {Len(s) + 1}
  BY <1>3
<1> QED
  BY <1>1, <1>2, <1>3, <1>4 DEF ToSet

LEMMA ConcatSet ==
  ASSUME NEW S, NEW s \in Seq(S), NEW t \in Seq(S)
  PROVE  s \o t \in Seq(S) /\ ToSet(s \o t) = ToSet(s) \cup ToSet(t)
<1>1. s \o t \in Seq(S) /\ Len(s \o t) = Len(s) + Len(t)
  BY ConcatProperties
<1>2. \A i \in 1 .. Len(s) + Len(t) :
        (s \o t)[i] = IF i <= Len(s) THEN s[i] ELSE t[i - Len(s)]
  BY ConcatProperties
<1>3. /\ DOMAIN s = 1 .. Len(s) /\ DOMAIN t = 1 .. Len(t)
      /\ DOMAIN (s \o t) = 1 .. Len(s) + Len(t)
      /\ Len(s) \in Nat /\ Len(t) \in Nat
  BY <1>1, LenProperties
<1>4. ToSet(s \o t) \subseteq ToSet(s) \cup ToSet(t)
  <2> SUFFICES ASSUME NEW i \in 1 .. Len(s) + Len(t)
               PROVE  (s \o t)[i] \in ToSet(s) \cup ToSet(t)
    BY <1>3 DEF ToSet
  <2>1. CASE i <= Len(s)
    <3>1. i \in 1 .. Len(s) /\ (s \o t)[i] = s[i]
      BY <1>2, <1>3, <2>1
    <3> QED BY <1>3, <3>1 DEF ToSet
  <2>2. CASE ~ (i <= Len(s))
    <3>1. i - Len(s) \in 1 .. Len(t) /\ (s \o t)[i] = t[i - Len(s)]
      BY <1>2, <1>3, <2>2
    <3> QED BY <1>3, <3>1 DEF ToSet
  <2> QED BY <2>1, <2>2
<1>5. ToSet(s) \subseteq ToSet(s \o t)
  <2> SUFFICES ASSUME NEW i \in 1 .. Len(s)
               PROVE  s[i] \in ToSet(s \o t)
    BY <1>3 DEF ToSet
  <2>1. i \in 1 .. Len(s) + Len(t) /\ (s \o t)[i] = s[i]
    BY <1>2, <1>3
  <2> QED BY <1>3, <2>1 DEF ToSet
<1>6. ToSet(t) \subseteq ToSet(s \o t)
  <2> SUFFICES ASSUME NEW i \in 1 .. Len(t)
               PROVE  t[i] \in ToSet(s \o t)
    BY <1>3 DEF ToSet
  <2>1. i + Len(s) \in 1 .. Len(s) + Len(t) /\ (s \o t)[i + Len(s)] = t[i]
    BY <1>2, <1>3
  <2> QED BY <1>3, <2>1 DEF ToSet
<1> QED BY <1>1, <1>4, <1>5, <1>6

LEMMA TakeSet ==
  ASSUME NEW S, NEW s \in Seq(S), s # << >>
  PROVE  /\ Head(s) \in S /\ Tail(s) \in Seq(S) /\ Len(Tail(s)) = Len(s) - 1
         /\ ToSet(s) = {Head(s)} \cup ToSet(Tail(s))
<1>1. /\ Head(s) \in S /\ Tail(s) \in Seq(S) /\ Len(Tail(s)) = Len(s) - 1
      /\ \A i \in 1 .. Len(Tail(s)) : Tail(s)[i] = s[i + 1]
  BY HeadTailProperties
<1>2. /\ DOMAIN s = 1 .. Len(s) /\ DOMAIN Tail(s) = 1 .. Len(s) - 1
      /\ Len(s) \in Nat \ {0} /\ Head(s) = s[1]
  BY <1>1, LenProperties, EmptySeq
<1>3. ToSet(s) \subseteq {Head(s)} \cup ToSet(Tail(s))
  <2> SUFFICES ASSUME NEW i \in 1 .. Len(s)
               PROVE  s[i] \in {Head(s)} \cup ToSet(Tail(s))
    BY <1>2 DEF ToSet
  <2>1. CASE i = 1
    BY <1>2, <2>1
  <2>2. CASE i # 1
    <3>1. i - 1 \in 1 .. Len(s) - 1 /\ (i - 1) + 1 = i
      BY <1>2, <2>2
    <3>2. Tail(s)[i - 1] = s[i]
      BY <1>1, <3>1
    <3> QED BY <1>2, <3>1, <3>2 DEF ToSet
  <2> QED BY <2>1, <2>2
<1>4. Head(s) \in ToSet(s)
  BY <1>2 DEF ToSet
<1>5. ToSet(Tail(s)) \subseteq ToSet(s)
  <2> SUFFICES ASSUME NEW i \in 1 .. Len(s) - 1
               PROVE  Tail(s)[i] \in ToSet(s)
    BY <1>2 DEF ToSet
  <2>1. i + 1 \in 1 .. Len(s) /\ Tail(s)[i] = s[i + 1]
    BY <1>1, <1>2
  <2> QED BY <1>2, <2>1 DEF ToSet
<1> QED BY <1>1, <1>3, <1>4, <1>5

LEMMA EmptySet == ToSet(<< >>) = {}
BY DEF ToSet

----------------------------------------------------------------------------
(* The order of app_main.                                                  *)

LEMMA BootOrder ==
  /\ Position("wifi") = 1 /\ Position("router") = 2 /\ Position("uart") = 3
  /\ Position("queue") = 4 /\ Position("baud") = 5 /\ Position("address") = 6
  /\ Position("tasks") = 7 /\ Position("greet") = 8 /\ Position("done") = 9
<1>1. DOMAIN BootSteps = 1 .. 9
  BY DEF BootSteps
<1>2. \A i \in 1 .. 9 : i = 1 \/ i = 2 \/ i = 3 \/ i = 4 \/ i = 5 \/ i = 6 \/ i = 7 \/ i = 8 \/ i = 9
  OBVIOUS
<1>3. /\ BootSteps[1] = "wifi" /\ BootSteps[2] = "router" /\ BootSteps[3] = "uart"
      /\ BootSteps[4] = "queue" /\ BootSteps[5] = "baud" /\ BootSteps[6] = "address"
      /\ BootSteps[7] = "tasks" /\ BootSteps[8] = "greet" /\ BootSteps[9] = "done"
  BY DEF BootSteps
<1>4. \A i, j \in DOMAIN BootSteps : BootSteps[i] = BootSteps[j] => i = j
  BY <1>1, <1>2, <1>3
<1>5. \A i \in DOMAIN BootSteps : Position(BootSteps[i]) = i
  BY <1>4, Zenon DEF Position
<1>6. 1 \in 1 .. 9 /\ 2 \in 1 .. 9 /\ 3 \in 1 .. 9 /\ 4 \in 1 .. 9 /\ 5 \in 1 .. 9
      /\ 6 \in 1 .. 9 /\ 7 \in 1 .. 9 /\ 8 \in 1 .. 9 /\ 9 \in 1 .. 9
  OBVIOUS
<1> QED
  BY <1>1, <1>3, <1>5, <1>6

Steps == {"wifi", "router", "uart", "queue", "baud", "address", "tasks", "greet", "done"}

LEMMA BootStepsAre ==
  /\ ToSet(BootSteps) = Steps
  /\ Last(BootSteps) = "done"
  /\ \A m \in Steps \ {"done"} :
       LET next == BootSteps[Position(m) + 1]
       IN  next \in Steps /\ Position(next) = Position(m) + 1
<1>1. DOMAIN BootSteps = 1 .. 9 /\ Len(BootSteps) = 9
  BY DEF BootSteps
<1>2. /\ BootSteps[1] = "wifi" /\ BootSteps[2] = "router" /\ BootSteps[3] = "uart"
      /\ BootSteps[4] = "queue" /\ BootSteps[5] = "baud" /\ BootSteps[6] = "address"
      /\ BootSteps[7] = "tasks" /\ BootSteps[8] = "greet" /\ BootSteps[9] = "done"
  BY DEF BootSteps
<1>3. \A i \in 1 .. 9 : i = 1 \/ i = 2 \/ i = 3 \/ i = 4 \/ i = 5 \/ i = 6 \/ i = 7 \/ i = 8 \/ i = 9
  OBVIOUS
<1>4. ToSet(BootSteps) = Steps
  <2>1. ToSet(BootSteps) \subseteq Steps
    BY <1>1, <1>2, <1>3 DEF ToSet, Steps
  <2>2. Steps \subseteq ToSet(BootSteps)
    BY <1>1, <1>2 DEF ToSet, Steps
  <2> QED BY <2>1, <2>2
<1>5. Last(BootSteps) = "done"
  BY <1>1, <1>2 DEF Last
<1>6. ASSUME NEW m \in Steps \ {"done"}
      PROVE  LET next == BootSteps[Position(m) + 1]
             IN  next \in Steps /\ Position(next) = Position(m) + 1
  BY <1>2, BootOrder DEF Steps
<1> QED BY <1>4, <1>5, <1>6

----------------------------------------------------------------------------
(* Types.                                                                  *)

LEMMA LinesOfType ==
  ASSUME OutboxAssumption, NEW m \in Msg, NEW answer \in Answers
  PROVE  /\ LinesOf(m, answer) \in Seq(Line)
         /\ \A l \in ToSet(LinesOf(m, answer)) : l.of = m
<1>1. answer \in Seq({"+OK", "+ERR", "other"})
  BY DEF OutboxAssumption
<1>2. DOMAIN answer = 1 .. Len(answer) /\ Len(answer) \in Nat
      /\ \A i \in 1 .. Len(answer) : answer[i] \in {"+OK", "+ERR", "other"}
  BY <1>1, LenProperties, ElementOfSeq
<1>3. LinesOf(m, answer) \in [1 .. Len(answer) -> Line]
  BY <1>2 DEF LinesOf, Line
<1>4. LinesOf(m, answer) \in Seq(Line)
  BY <1>2, <1>3, SeqDef
<1> QED BY <1>2, <1>4 DEF LinesOf, ToSet

(* What a shared queue of lines looks like.                                *)
LEMMA NextStepType ==
  ASSUME main \in ToSet(BootSteps), main # Last(BootSteps)
  PROVE  /\ NextStep \in ToSet(BootSteps)
         /\ Position(NextStep) = Position(main) + 1
BY BootStepsAre DEF NextStep

LEMMA InitTypeOK == ASSUME OutboxAssumption, Init PROVE TypeOK
<1>1. << >> \in Seq(Msg) /\ << >> \in Seq(Line) /\ Len(<< >>) = 0
  BY EmptySeq
<1>2. main \in ToSet(BootSteps)
  BY BootStepsAre DEF Init, Steps
<1>3. /\ transfer_status \in [Msg -> Status] /\ ack_status \in [Msg -> BOOLEAN]
      /\ calling \in [Caller -> Msg \cup {NULL}] /\ sent \in [Msg -> 0 .. MaxSends]
      /\ result \in [Msg -> SUBSET (Msg \cup {NULL, Garbage})]
  BY DEF Init, Status, OutboxAssumption
<1>4. mode \in {"up", "panic"} /\ stray \in 0 .. MaxStray
  BY DEF Init, OutboxAssumption
<1>8. dropped \in BOOLEAN /\ owed = {}
  BY Zenon DEF Init
<1>5. sender = "idle" /\ current = NULL /\ lost = {} /\ written = {}
  BY DEF Init
<1>6. Len(MessageQueue) <= QUEUE_LENGTH /\ Len(q_resp) <= RESP_LENGTH
  BY <1>1 DEF Init, OutboxAssumption
<1>7. /\ MessageQueue \in Seq(Msg) /\ got \in Seq(Line) /\ q_resp \in Seq(Line)
      /\ due \in Seq(Line) /\ said \in Seq(Line)
  BY <1>1 DEF Init
<1> QED BY <1>2, <1>3, <1>4, <1>5, <1>6, <1>7, <1>8 DEF TypeOK

LEMMA MarkTypeOK ==
  ASSUME OutboxAssumption, TypeOK, NEW c \in Caller, NEW m \in Msg, MarkQueued(c, m),
         main' \in ToSet(BootSteps)
  PROVE  TypeOK'
<1> USE DEF OutboxAssumption
<1>1. transfer_status' \in [Msg -> Status] /\ ack_status' \in [Msg -> BOOLEAN]
  BY DEF TypeOK, MarkQueued, Status
<1>2. calling' \in [Caller -> Msg \cup {NULL}]
  BY DEF TypeOK, MarkQueued
<1>3. sent' \in [Msg -> 0 .. MaxSends]
  BY DEF TypeOK, MarkQueued
<1> QED
  BY <1>1, <1>2, <1>3 DEF TypeOK, MarkQueued, queueVars, sendVars, chipVars, heard

LEMMA NextTypeOK ==
  ASSUME OutboxAssumption, TypeOK, [Next]_vars
  PROVE  TypeOK'
<1> USE DEF OutboxAssumption, queueVars, sendVars, chipVars, entryVars, callVars, bootVars, heard
<1>panic. ASSUME Panic PROVE TypeOK'
  BY <1>panic DEF Panic, TypeOK
<1>1. CASE wifi_start_softap \/ Make
  <2>1. main # Last(BootSteps)
    BY <1>1, BootStepsAre DEF wifi_start_softap, Make
  <2>2. Proceed  BY <1>1 DEF wifi_start_softap, Make
  <2> QED BY <2>1, <2>2, NextStepType DEF Proceed, TypeOK
<1>2. CASE Order
  <2>1. main # Last(BootSteps)
    BY <1>2, BootStepsAre DEF Order
  <2>2. BootMessage \in Msg
    BY <1>2 DEF Order, BootMessage
  <2> QED BY <1>2, <2>1, <2>2, NextStepType, MarkTypeOK DEF Order, TypeOK
<1>3. ASSUME NEW c \in Caller, NEW m \in Msg, CallQueueSend(c, m) PROVE TypeOK'
  BY <1>3, MarkTypeOK DEF CallQueueSend, TypeOK
<1>4. ASSUME NEW c \in Caller, NEW m \in Msg, NoRouter(c, m) PROVE TypeOK'
  BY <1>4, <1>panic DEF NoRouter
<1>5. ASSUME NEW c \in Caller, Enqueue(c) PROVE TypeOK'
  <2>1. calling[c] \in Msg
    BY <1>5 DEF Enqueue, TypeOK
  <2>2. MessageQueue' \in Seq(Msg) /\ Len(MessageQueue') <= QUEUE_LENGTH
    BY <1>5, <2>1, AppendSet, LenProperties DEF Enqueue, HasRoom, TypeOK
  <2> QED BY <1>5, <2>1, <2>2 DEF Enqueue, TypeOK
<1>6. ASSUME NEW c \in Caller, GiveUp(c) PROVE TypeOK'
  BY <1>6 DEF GiveUp, TypeOK
<1>7. ASSUME NEW c \in Caller, NoQueue(c) PROVE TypeOK'
  BY <1>7, <1>panic DEF NoQueue
<1>8. CASE Take
  <2>1. /\ current' \in Msg
        /\ MessageQueue' \in Seq(Msg) /\ Len(MessageQueue') <= QUEUE_LENGTH
    BY <1>8, TakeSet, LenProperties DEF Take, TypeOK
  <2> QED BY <1>8, <2>1 DEF Take, TypeOK
<1>9. CASE Flush
  <2>1. q_resp' = << >> /\ q_resp' \in Seq(Line) /\ Len(q_resp') = 0
    BY <1>9, EmptySeq DEF Flush, Flushed
  <2>2. owed' \subseteq Msg
    <3>1. \A l \in ToSet(due) : l \in Line
      BY ElementOfSeq, LenProperties DEF TypeOK, ToSet
    <3> QED BY <1>9, <3>1 DEF Flush, Line
  <2> QED BY <1>9, <2>1, <2>2 DEF Flush, TypeOK
<1>10. CASE Write
  <2>1. current \in Msg
    BY <1>10 DEF Write, TypeOK
  <2>2. PICK answer \in Answers : /\ said' = LinesOf(current, answer)
                                  /\ due' = due \o LinesOf(current, answer)
    BY <1>10 DEF Write
  <2>3. said' \in Seq(Line) /\ due' \in Seq(Line)
    BY <2>1, <2>2, LinesOfType, ConcatSet DEF TypeOK
  <2>4. written' \subseteq {Addr, Greeting}
    BY <1>10 DEF Write, TypeOK
  <2> QED BY <1>10, <2>1, <2>3, <2>4 DEF Write, TypeOK
<1>11. CASE ReceiveLine
  <2>1. /\ got' \in Seq(Line)
        /\ q_resp' \in Seq(Line) /\ Len(q_resp') <= RESP_LENGTH
    BY <1>11, TakeSet, AppendSet, LenProperties DEF ReceiveLine, TypeOK
  <2> QED BY <1>11, <2>1 DEF ReceiveLine, TypeOK
<1>12. CASE Return
  <2>1. current \in Msg
    BY <1>12 DEF Return, TypeOK
  <2>2. transfer_status' \in [Msg -> Status]
    <3>1. Judged(got) \in Status
      BY DEF Judged, Status
    <3> QED BY <1>12, <3>1 DEF Return, Recorded, TypeOK
  <2>3. Response \subseteq Msg \cup {NULL, Garbage}
    <3>1. \A l \in ToSet(got) : l \in Line
      BY ElementOfSeq, LenProperties DEF TypeOK, ToSet
    <3> QED BY <3>1 DEF Response, Line
  <2>4. result' \in [Msg -> SUBSET (Msg \cup {NULL, Garbage})]
    <3>1. result' = result \/ result' = [result EXCEPT ![current] = Response]
      BY <1>12 DEF Return
    <3> DEFINE Owners == SUBSET (Msg \cup {NULL, Garbage})
    <3>2. Response \in Owners /\ result \in [Msg -> Owners]
      BY <2>3 DEF TypeOK
    <3> HIDE DEF Owners
    <3>3. result' \in [Msg -> Owners]
      BY <2>1, <3>1, <3>2
    <3> QED BY <3>3 DEF Owners
  <2>5. ack_status' \in [Msg -> BOOLEAN]
    BY <1>12 DEF Return, TypeOK
  <2>6. << >> \in Seq(Line)
    BY EmptySeq
  <2> QED BY <1>12, <2>2, <2>4, <2>5, <2>6 DEF Return, TypeOK
<1>13. CASE uart_reader_task
  <2>1. due' \in Seq(Line) /\ Head(due) \in Line
    BY <1>13, TakeSet DEF uart_reader_task, TypeOK
  <2>2. q_resp' \in Seq(Line) /\ Len(q_resp') <= RESP_LENGTH
    <3>1. CASE Len(q_resp) < RESP_LENGTH
      <4>1. /\ Append(q_resp, Head(due)) \in Seq(Line)
            /\ Len(Append(q_resp, Head(due))) = Len(q_resp) + 1
        BY <2>1, AppendSet, Zenon DEF TypeOK
      <4>2. Len(q_resp) \in Nat
        BY LenProperties DEF TypeOK
      <4>3. q_resp' = Append(q_resp, Head(due))
        BY <1>13, <3>1, Zenon DEF uart_reader_task
      <4> QED BY <3>1, <4>1, <4>2, <4>3
    <3>2. CASE ~ (Len(q_resp) < RESP_LENGTH)
      BY <1>13, <3>2 DEF uart_reader_task, TypeOK
    <3> QED BY <3>1, <3>2
  <2>3. dropped' \in BOOLEAN
    BY <1>13 DEF uart_reader_task, TypeOK
  <2> QED BY <1>13, <2>1, <2>2, <2>3 DEF uart_reader_task, TypeOK
<1>14. CASE StrayLine
  <2>1. due' \in Seq(Line)
    BY <1>14, AppendSet DEF StrayLine, TypeOK, Line
  <2> QED BY <1>14, <2>1 DEF StrayLine, TypeOK
<1>15. CASE UNCHANGED vars
  BY <1>15 DEF vars, TypeOK
<1> QED
  BY <1>1, <1>2, <1>3, <1>4, <1>5, <1>6, <1>7, <1>8, <1>9, <1>10, <1>11, <1>12,
     <1>13, <1>14, <1>15 DEF Next, app_main, message_sending_task

THEOREM TypeCorrect == ASSUME OutboxAssumption PROVE Spec => []TypeOK
<1>1. Init => TypeOK
  BY InitTypeOK
<1>2. TypeOK /\ [Next]_vars => TypeOK'
  BY NextTypeOK
<1> QED BY <1>1, <1>2, PTL DEF Spec

----------------------------------------------------------------------------
(* Nothing queued is forgotten.                                            *)

LEMMA MarkPending ==
  ASSUME TypeOK, QueuedIsPending, NEW c \in Caller, NEW m \in Msg, MarkQueued(c, m),
         NULL \notin Msg
  PROVE  QueuedIsPending'
<1> SUFFICES ASSUME NEW n \in Msg, transfer_status'[n] = "QUEUED"
             PROVE  \/ n \in ToSet(MessageQueue')
                    \/ \E d \in Caller : calling'[d] = n
                    \/ current' = n
                    \/ n \in lost'
  BY DEF QueuedIsPending
<1>1. calling' = [calling EXCEPT ![c] = m] /\ calling \in [Caller -> Msg \cup {NULL}]
      /\ calling[c] = NULL
  BY DEF MarkQueued, TypeOK
<1>2. MessageQueue' = MessageQueue /\ current' = current /\ lost' = lost
  BY DEF MarkQueued, queueVars, sendVars
<1>3. CASE n = m
  BY <1>1, <1>3
<1>4. CASE n # m
  <2>1. transfer_status[n] = "QUEUED"
    BY <1>4 DEF MarkQueued, TypeOK
  <2>2. \A d \in Caller : calling[d] = n => calling'[d] = n
    BY <1>1
  <2> QED BY <1>2, <2>1, <2>2 DEF QueuedIsPending
<1> QED BY <1>3, <1>4

LEMMA PendingStep ==
  ASSUME OutboxAssumption, TypeOK, QueuedIsPending, [Next]_vars
  PROVE  QueuedIsPending'
<1> USE DEF queueVars, sendVars, entryVars, callVars
<1>0. NULL \notin Msg
  BY DEF OutboxAssumption
<1>same. ASSUME UNCHANGED <<transfer_status, calling, MessageQueue, lost, current>>
         PROVE  QueuedIsPending'
  BY <1>same DEF QueuedIsPending
<1>1. CASE wifi_start_softap \/ Make
  BY <1>1, <1>same DEF wifi_start_softap, Make, Proceed
<1>2. CASE Order
  <2>1. BootMessage \in Msg /\ Main \in Caller
    BY <1>2 DEF Order, BootMessage, OutboxAssumption
  <2> QED BY <1>0, <1>2, <2>1, MarkPending DEF Order
<1>3. ASSUME NEW c \in Caller, NEW m \in Msg, CallQueueSend(c, m) PROVE QueuedIsPending'
  BY <1>0, <1>3, MarkPending DEF CallQueueSend
<1>4. ASSUME NEW c \in Caller, NEW m \in Msg, NoRouter(c, m) PROVE QueuedIsPending'
  BY <1>4, <1>same DEF NoRouter, Panic
<1>5. ASSUME NEW c \in Caller, Enqueue(c) PROVE QueuedIsPending'
  <2>1. calling[c] \in Msg
    BY <1>5 DEF Enqueue, TypeOK
  <2>2. ToSet(MessageQueue') = ToSet(MessageQueue) \cup {calling[c]}
    BY <1>5, <2>1, AppendSet DEF Enqueue, TypeOK
  <2>3. \A d \in Caller : calling'[d] = calling[d] \/ d = c
    BY <1>5 DEF Enqueue, TypeOK
  <2>4. lost \subseteq lost' \cup {calling[c]} /\ current' = current
        /\ transfer_status' = transfer_status
    BY <1>5 DEF Enqueue
  <2> QED BY <2>2, <2>3, <2>4 DEF QueuedIsPending
<1>6. ASSUME NEW c \in Caller, GiveUp(c) PROVE QueuedIsPending'
  <2>1. \A d \in Caller : calling'[d] = calling[d] \/ d = c
    BY <1>6 DEF GiveUp, TypeOK
  <2>2. lost' = lost \cup {calling[c]} /\ MessageQueue' = MessageQueue
        /\ current' = current /\ transfer_status' = transfer_status
    BY <1>6 DEF GiveUp
  <2> QED BY <2>1, <2>2 DEF QueuedIsPending
<1>7. ASSUME NEW c \in Caller, NoQueue(c) PROVE QueuedIsPending'
  BY <1>7, <1>same DEF NoQueue, Panic
<1>8. CASE Take
  <2>1. current = NULL
    BY <1>8 DEF Take, TypeOK
  <2>2. ToSet(MessageQueue) = {current'} \cup ToSet(MessageQueue')
    BY <1>8, TakeSet DEF Take, TypeOK
  <2>3. UNCHANGED <<transfer_status, calling, lost>>
    BY <1>8 DEF Take
  <2> QED BY <1>0, <2>1, <2>2, <2>3 DEF QueuedIsPending
<1>9. CASE Flush
  BY <1>9, <1>same DEF Flush
<1>10. CASE Write
  BY <1>10, <1>same DEF Write
<1>11. CASE ReceiveLine
  BY <1>11, <1>same DEF ReceiveLine
<1>12. CASE Return
  <2>1. current \in Msg
    BY <1>12 DEF Return, TypeOK
  <2>2. transfer_status' = [transfer_status EXCEPT ![current] = Judged(got)]
    BY <1>12 DEF Return, Recorded
  <2>3. Judged(got) # "QUEUED"
    BY DEF Judged
  <2>4. \A m \in Msg : transfer_status'[m] = "QUEUED" =>
          m # current /\ transfer_status[m] = "QUEUED"
    BY <2>1, <2>2, <2>3 DEF TypeOK
  <2>5. UNCHANGED <<calling, MessageQueue, lost>>
    BY <1>12 DEF Return
  <2> QED BY <2>4, <2>5 DEF QueuedIsPending
<1>13. CASE uart_reader_task
  BY <1>13, <1>same DEF uart_reader_task
<1>14. CASE StrayLine
  BY <1>14, <1>same DEF StrayLine
<1>15. CASE UNCHANGED vars
  BY <1>15, <1>same DEF vars
<1> QED
  BY <1>1, <1>2, <1>3, <1>4, <1>5, <1>6, <1>7, <1>8, <1>9, <1>10, <1>11, <1>12,
     <1>13, <1>14, <1>15 DEF Next, app_main, message_sending_task

(* Whatever the tasks do, an entry that says QUEUED is in MessageQueue, on *)
(* its way there or being sent, or a full MessageQueue refused it.         *)
THEOREM NothingForgotten == ASSUME OutboxAssumption PROVE Spec => []QueuedIsPending
<1>1. Init => QueuedIsPending
  BY DEF Init, QueuedIsPending
<1>2. TypeOK /\ QueuedIsPending /\ [Next]_vars => QueuedIsPending'
  BY PendingStep
<1> QED BY <1>1, <1>2, TypeCorrect, PTL DEF Spec

----------------------------------------------------------------------------
(* The lines of one command and of the next.                               *)

OfOnly(lines, S) == \A l \in ToSet(lines) : l.of \in S

Loose == owed \cup {NULL}

(* Nothing is taken between the exchanges; after the flush only the lines  *)
(* the chip then owed and those that answer nothing are on their way, and  *)
(* while the task waits also those of its own command.                     *)
Apart ==
  /\ sender # "wait" => got = << >>
  /\ sender = "write" => OfOnly(q_resp, Loose) /\ OfOnly(due, Loose)
  /\ sender = "wait" =>
       /\ OfOnly(got, Loose \cup {current})
       /\ OfOnly(q_resp, Loose \cup {current})
       /\ OfOnly(due, Loose \cup {current})

LEMMA ApartStep ==
  ASSUME OutboxAssumption, TypeOK, Apart, [Next]_vars
  PROVE  Apart'
<1> USE DEF sendVars, chipVars, heard
<1>0. OfOnly(<< >>, Loose') /\ OfOnly(<< >>, Loose \cup {current'})
  BY EmptySet DEF OfOnly
<1>same. ASSUME UNCHANGED <<sender, current, got, q_resp, due, owed>>
         PROVE  Apart'
  BY <1>same DEF Apart, OfOnly, Loose
<1>1. CASE wifi_start_softap \/ Make
  BY <1>1, <1>same DEF wifi_start_softap, Make, Proceed
<1>2. CASE Order
  BY <1>2, <1>same DEF Order, MarkQueued
<1>3. ASSUME NEW c \in Caller, NEW m \in Msg, CallQueueSend(c, m) PROVE Apart'
  BY <1>3, <1>same DEF CallQueueSend, MarkQueued
<1>4. ASSUME NEW c \in Caller, NEW m \in Msg, NoRouter(c, m) PROVE Apart'
  BY <1>4, <1>same DEF NoRouter, Panic
<1>5. ASSUME NEW c \in Caller, Enqueue(c) PROVE Apart'
  BY <1>5, <1>same DEF Enqueue
<1>6. ASSUME NEW c \in Caller, GiveUp(c) PROVE Apart'
  BY <1>6, <1>same DEF GiveUp
<1>7. ASSUME NEW c \in Caller, NoQueue(c) PROVE Apart'
  BY <1>7, <1>same DEF NoQueue, Panic
<1>8. CASE Take
  BY <1>8 DEF Take, Apart
<1>9. CASE Flush
  <2>1. OfOnly(due', Loose') /\ q_resp' = << >> /\ got' = got
        /\ sender = "flush" /\ sender' = "write"
    BY <1>9 DEF Flush, Flushed, OfOnly, Loose
  <2> QED BY <1>0, <2>1 DEF Apart
<1>10. CASE Write
  <2>1. current \in Msg
    BY <1>10 DEF Write, TypeOK
  <2>2. PICK answer \in Answers : due' = due \o LinesOf(current, answer)
    BY <1>10 DEF Write
  <2>3. /\ ToSet(due') = ToSet(due) \cup ToSet(LinesOf(current, answer))
        /\ \A l \in ToSet(LinesOf(current, answer)) : l.of = current
    BY <2>1, <2>2, LinesOfType, ConcatSet DEF TypeOK
  <2>4. OfOnly(due', Loose \cup {current}) /\ OfOnly(q_resp, Loose \cup {current})
    BY <1>10, <2>3 DEF Write, Apart, OfOnly
  <2> QED BY <1>0, <1>10, <2>4 DEF Write, Apart, Loose
<1>11. CASE ReceiveLine
  <2>1. /\ Head(q_resp) \in Line
        /\ ToSet(q_resp) = {Head(q_resp)} \cup ToSet(q_resp')
    BY <1>11, TakeSet DEF ReceiveLine, TypeOK
  <2>2. ToSet(got') = ToSet(got) \cup {Head(q_resp)}
    BY <1>11, <2>1, AppendSet DEF ReceiveLine, TypeOK
  <2>3. sender = "wait" /\ UNCHANGED <<sender, current, due, owed>>
    BY <1>11 DEF ReceiveLine
  <2> QED BY <2>1, <2>2, <2>3 DEF Apart, OfOnly, Loose
<1>12. CASE Return
  BY <1>12 DEF Return, Apart
<1>13. CASE uart_reader_task
  <2>1. Head(due) \in Line /\ ToSet(due) = {Head(due)} \cup ToSet(due')
    BY <1>13, TakeSet DEF uart_reader_task, TypeOK
  <2>2. ToSet(q_resp') \subseteq ToSet(q_resp) \cup {Head(due)}
    <3>1. q_resp' = q_resp \/ q_resp' = Append(q_resp, Head(due))
      BY <1>13, Zenon DEF uart_reader_task
    <3>2. ToSet(Append(q_resp, Head(due))) = ToSet(q_resp) \cup {Head(due)}
      <4>1. q_resp \in Seq(Line)
        BY DEF TypeOK
      <4> DEFINE line == Head(due)
      <4>2. line \in Line
        BY <2>1
      <4> HIDE DEF line
      <4>3. ToSet(Append(q_resp, line)) = ToSet(q_resp) \cup {line}
        BY <4>1, <4>2, AppendSet, Zenon
      <4> QED BY <4>3 DEF line
    <3> QED BY <3>1, <3>2
  <2>3. UNCHANGED <<sender, current, got, owed>>
    BY <1>13 DEF uart_reader_task
  <2> QED BY <2>1, <2>2, <2>3 DEF Apart, OfOnly, Loose
<1>14. CASE StrayLine
  <2> DEFINE line == [of |-> NULL, says |-> "other"]
  <2>0. line \in Line /\ line.of = NULL /\ due' = Append(due, line)
    BY <1>14 DEF StrayLine, Line
  <2> HIDE DEF line
  <2>1. ToSet(due') = ToSet(due) \cup {line}
    <3>1. due \in Seq(Line)
      BY DEF TypeOK
    <3>2. ToSet(Append(due, line)) = ToSet(due) \cup {line}
      BY <2>0, <3>1, AppendSet, Zenon
    <3> QED BY <2>0, <3>2
  <2>2. UNCHANGED <<sender, current, got, q_resp, owed>>
    BY <1>14 DEF StrayLine
  <2> QED BY <2>0, <2>1, <2>2 DEF Apart, OfOnly, Loose
<1>15. CASE UNCHANGED vars
  BY <1>15, <1>same DEF vars
<1> QED
  BY <1>1, <1>2, <1>3, <1>4, <1>5, <1>6, <1>7, <1>8, <1>9, <1>10, <1>11, <1>12,
     <1>13, <1>14, <1>15 DEF Next, app_main, message_sending_task

(* The response to a command is made of its own lines, of lines that       *)
(* answer nothing and of those the chip still owed an earlier command when *)
(* the stale lines were flushed.                                           *)
THEOREM LinesKeptApart == ASSUME OutboxAssumption PROVE Spec => []NoForeignLine
<1>1. Init => Apart
  BY DEF Init, Apart
<1>2. TypeOK /\ Apart /\ [Next]_vars => Apart'
  BY ApartStep
<1>3. Apart => NoForeignLine
  BY EmptySet DEF Apart, NoForeignLine, OfOnly, Loose
<1> QED BY <1>1, <1>2, <1>3, TypeCorrect, PTL DEF Spec

----------------------------------------------------------------------------
(* The greeting follows the address.                                       *)

LEMMA AfterStep ==
  /\ main = "address" => NextStep = "tasks"
  /\ main = "tasks" => NextStep = "greet"
  /\ main = "greet" => NextStep = "done"
  /\ main = "baud" => NextStep = "address"
  /\ main \in {"wifi", "router", "uart", "queue"} =>
       NextStep \in {"router", "uart", "queue", "baud"}
<1>1. /\ BootSteps[1 + 1] = "router" /\ BootSteps[2 + 1] = "uart"
      /\ BootSteps[3 + 1] = "queue" /\ BootSteps[4 + 1] = "baud"
      /\ BootSteps[5 + 1] = "address" /\ BootSteps[6 + 1] = "tasks"
      /\ BootSteps[7 + 1] = "greet" /\ BootSteps[8 + 1] = "done"
  BY DEF BootSteps
<1> QED BY <1>1, BootOrder DEF NextStep

Later == {"tasks", "greet", "done"}

(* The command that sets the address is with the chip, or about to be, or  *)
(* was refused.                                                            *)
Told == Addr \in written \cup lost
ToldSoon == Told \/ current = Addr

(* Only app_main sends the two, the address first, and MessageQueue keeps  *)
(* their order.                                                            *)
Ordered ==
  /\ \A c \in Caller : calling[c] \in Msg => By[calling[c]] = c
  /\ sender = "wait" /\ current \in {Addr, Greeting} => current \in written
  /\ main # "done" => calling[Main] # Greeting /\ Greeting \notin ToSet(MessageQueue)
                       /\ current # Greeting /\ Greeting \notin written
  /\ main \in Later => calling[Main] = Addr \/ Addr \in ToSet(MessageQueue) \/ ToldSoon
  /\ main = "done" => calling[Main] # Addr
  /\ \A i \in 1 .. Len(MessageQueue) : MessageQueue[i] = Greeting =>
       ToldSoon \/ \E j \in 1 .. i - 1 : MessageQueue[j] = Addr
  /\ current = Greeting => Told
  /\ GreetsWithAddress

LEMMA InitOrdered == ASSUME OutboxAssumption, Init PROVE Ordered
<1>1. Len(MessageQueue) = 0 /\ ToSet(MessageQueue) = {}
  BY EmptySet, EmptySeq DEF Init
<1> QED
  BY <1>1 DEF Init, Ordered, Later, GreetsWithAddress, OutboxAssumption

LEMMA OrderedStep ==
  ASSUME OutboxAssumption, TypeOK, Ordered, [Next]_vars
  PROVE  Ordered'
<1> USE DEF OutboxAssumption, ToldSoon, Told, queueVars, sendVars, bootVars
<1>same. ASSUME UNCHANGED <<main, calling, MessageQueue, lost, sender, current, written>>
         PROVE  Ordered'
  BY <1>same DEF Ordered, GreetsWithAddress
<1>1. CASE wifi_start_softap \/ Make
  <2>1. UNCHANGED <<calling, MessageQueue, lost, sender, current, written>>
    BY <1>1 DEF wifi_start_softap, Make, Proceed, callVars
  <2>2. main' # "done" /\ (main' \in Later => main \in Later) /\ main # "done"
    BY <1>1, AfterStep, BootStepsAre DEF wifi_start_softap, Make, Proceed, TypeOK, Later, Steps
  <2> QED BY <2>1, <2>2 DEF Ordered, GreetsWithAddress
<1>2. CASE Order
  <2>1. /\ calling[Main] = NULL /\ calling' = [calling EXCEPT ![Main] = BootMessage]
        /\ By[BootMessage] = Main
        /\ UNCHANGED <<MessageQueue, lost, sender, current, written>>
    BY <1>2 DEF Order, MarkQueued
  <2>2. \A c \in Caller : calling'[c] \in Msg => By[calling'[c]] = c
    BY <2>1 DEF Ordered, TypeOK
  <2>3. calling'[Main] = BootMessage
    BY <2>1 DEF TypeOK
  <2>4. CASE main = "baud"
    BY <2>1, <2>2, <2>3, <2>4, AfterStep, <1>2
       DEF Order, BootMessage, Ordered, Later, GreetsWithAddress
  <2>5. CASE main = "address"
    BY <2>1, <2>2, <2>3, <2>5, AfterStep, <1>2
       DEF Order, BootMessage, Ordered, Later, GreetsWithAddress
  <2>6. CASE main = "greet"
    BY <2>1, <2>2, <2>3, <2>6, AfterStep, <1>2
       DEF Order, BootMessage, Ordered, Later, GreetsWithAddress
  <2> QED BY <1>2, <2>4, <2>5, <2>6 DEF Order
<1>3. ASSUME NEW c \in Caller, NEW m \in Msg, CallQueueSend(c, m) PROVE Ordered'
  <2>1. /\ c # Main /\ By[m] = c /\ calling' = [calling EXCEPT ![c] = m]
        /\ UNCHANGED <<main, MessageQueue, lost, sender, current, written>>
    BY <1>3 DEF CallQueueSend, MarkQueued
  <2>2. /\ calling'[Main] = calling[Main]
        /\ \A d \in Caller : calling'[d] \in Msg => By[calling'[d]] = d
    BY <2>1 DEF Ordered, TypeOK
  <2> QED BY <2>1, <2>2 DEF Ordered, GreetsWithAddress
<1>4. ASSUME NEW c \in Caller, NEW m \in Msg, NoRouter(c, m) PROVE Ordered'
  BY <1>4, <1>same DEF NoRouter, Panic, callVars
<1>5. ASSUME NEW c \in Caller, Enqueue(c) PROVE Ordered'
  <2> DEFINE m == calling[c]
  <2>1. m \in Msg /\ By[m] = c
    BY <1>5 DEF Enqueue, TypeOK, Ordered
  <2>2. /\ calling' = [calling EXCEPT ![c] = NULL] /\ lost' = lost \ {m}
        /\ MessageQueue' = Append(MessageQueue, m)
        /\ UNCHANGED <<main, sender, current, written>>
    BY <1>5 DEF Enqueue
  <2>3. /\ \A d \in Caller : calling'[d] = IF d = c THEN NULL ELSE calling[d]
        /\ \A d \in Caller : calling'[d] \in Msg => By[calling'[d]] = d
    BY <2>2 DEF TypeOK, Ordered
  <2>4. MessageQueue \in Seq(Msg) /\ Len(MessageQueue) \in Nat
    BY LenProperties DEF TypeOK
  <2>5. m \in {Addr, Greeting} => c = Main
    BY <2>1
  <2> HIDE DEF m
  <2>6. /\ ToSet(MessageQueue') = ToSet(MessageQueue) \cup {m}
        /\ Len(MessageQueue') = Len(MessageQueue) + 1
        /\ \A i \in 1 .. Len(MessageQueue) : MessageQueue'[i] = MessageQueue[i]
        /\ MessageQueue'[Len(MessageQueue) + 1] = m
    <3>1. /\ ToSet(Append(MessageQueue, m)) = ToSet(MessageQueue) \cup {m}
          /\ Len(Append(MessageQueue, m)) = Len(MessageQueue) + 1
      BY <2>1, <2>4, AppendSet
    <3>2. /\ \A i \in 1 .. Len(MessageQueue) : Append(MessageQueue, m)[i] = MessageQueue[i]
          /\ Append(MessageQueue, m)[Len(MessageQueue) + 1] = m
      BY <2>1, <2>4, AppendProperties
    <3> QED BY <2>2, <3>1, <3>2
  <2>7. calling[Main] = Addr /\ c = Main => m = Addr
    BY DEF m
  <2>8. calling[Main] = m \/ c # Main
    BY DEF m
  <2>9. ASSUME NEW i \in 1 .. Len(MessageQueue'), MessageQueue'[i] = Greeting
        PROVE  ToldSoon' \/ \E j \in 1 .. i - 1 : MessageQueue'[j] = Addr
    <3>0. main = "done"
      BY <2>4, <2>5, <2>6, <2>8, <2>9 DEF Ordered, ToSet
    <3>1. m # Addr
      BY <2>5, <2>8, <3>0 DEF Ordered
    <3>2. ToldSoon => ToldSoon'
      BY <2>2, <3>1
    <3>3. CASE i \in 1 .. Len(MessageQueue)
      <4>1. ToldSoon \/ \E j \in 1 .. i - 1 : MessageQueue[j] = Addr
        BY <2>6, <2>9, <3>3 DEF Ordered
      <4>2. \A j \in 1 .. i - 1 : j \in 1 .. Len(MessageQueue)
        BY <2>4, <3>3
      <4> QED BY <2>6, <3>2, <4>1, <4>2
    <3>4. CASE i = Len(MessageQueue) + 1
      <4>1. m = Greeting /\ c = Main
        BY <2>5, <2>6, <2>9, <3>4
      <4>2. Addr \in ToSet(MessageQueue) \/ ToldSoon
        BY <3>0, <3>1, <2>8, <4>1 DEF Ordered, Later
      <4>3. Addr \in ToSet(MessageQueue) =>
              \E j \in 1 .. Len(MessageQueue) : MessageQueue[j] = Addr
        BY <2>4, LenProperties DEF ToSet
      <4>4. i - 1 = Len(MessageQueue)
        BY <2>4, <3>4
      <4> QED BY <2>6, <3>2, <4>2, <4>3, <4>4
    <3> QED BY <2>4, <2>6, <3>3, <3>4
  <2>10. current' = Greeting \/ Greeting \in written' => Told'
    <3>1. current = Greeting \/ Greeting \in written => Told /\ main = "done"
      BY DEF Ordered, GreetsWithAddress
    <3>2. main = "done" => m # Addr
      BY <2>5, <2>8 DEF Ordered
    <3> QED BY <2>2, <3>1, <3>2
  <2>11. main' \in Later =>
           calling'[Main] = Addr \/ Addr \in ToSet(MessageQueue') \/ ToldSoon'
    <3>1. CASE m = Addr
      BY <2>6, <3>1
    <3>2. CASE m # Addr
      BY <2>2, <2>3, <2>6, <2>8, <3>2 DEF Ordered
    <3> QED BY <3>1, <3>2
  <2>12. main' # "done" => calling'[Main] # Greeting /\ Greeting \notin ToSet(MessageQueue')
                           /\ current' # Greeting /\ Greeting \notin written'
    BY <2>2, <2>3, <2>5, <2>6, <2>8 DEF Ordered
  <2>13. main' = "done" => calling'[Main] # Addr
    BY <2>2, <2>3 DEF Ordered
  <2> QED BY <2>2, <2>3, <2>9, <2>10, <2>11, <2>12, <2>13 DEF Ordered, GreetsWithAddress
<1>6. ASSUME NEW c \in Caller, GiveUp(c) PROVE Ordered'
  <2>1. /\ calling' = [calling EXCEPT ![c] = NULL] /\ lost' = lost \cup {calling[c]}
        /\ UNCHANGED <<main, MessageQueue, sender, current, written>>
    BY <1>6 DEF GiveUp
  <2>2. /\ \A d \in Caller : calling'[d] = IF d = c THEN NULL ELSE calling[d]
        /\ \A d \in Caller : calling'[d] \in Msg => By[calling'[d]] = d
    BY <2>1 DEF TypeOK, Ordered
  <2>3. Addr # NULL /\ Greeting # NULL
    OBVIOUS
  <2> QED BY <2>1, <2>2, <2>3 DEF Ordered, GreetsWithAddress
<1>7. ASSUME NEW c \in Caller, NoQueue(c) PROVE Ordered'
  BY <1>7, <1>same DEF NoQueue, Panic, callVars
<1>8. CASE Take
  <2>1. /\ MessageQueue \in Seq(Msg) /\ MessageQueue # << >> /\ current = NULL
        /\ current' = Head(MessageQueue) /\ MessageQueue' = Tail(MessageQueue)
        /\ sender' = "flush"
        /\ UNCHANGED <<main, calling, lost, written>>
    BY <1>8 DEF Take, TypeOK, callVars
  <2>2. /\ ToSet(MessageQueue) = {current'} \cup ToSet(MessageQueue')
        /\ Len(MessageQueue') = Len(MessageQueue) - 1
        /\ \A i \in 1 .. Len(MessageQueue') : MessageQueue'[i] = MessageQueue[i + 1]
        /\ Len(MessageQueue) \in Nat \ {0} /\ current' = MessageQueue[1]
    BY <2>1, TakeSet, HeadTailProperties, LenProperties, EmptySeq
  <2>3. current' = Greeting => Told'
    <3>1. 1 \in 1 .. Len(MessageQueue) /\ ~ \E j \in 1 .. 1 - 1 : TRUE
      BY <2>2
    <3>2. current' = Greeting => ToldSoon
      BY <2>2, <3>1 DEF Ordered
    <3> QED BY <2>1, <3>2
  <2>4. ASSUME NEW i \in 1 .. Len(MessageQueue'), MessageQueue'[i] = Greeting
        PROVE  ToldSoon' \/ \E j \in 1 .. i - 1 : MessageQueue'[j] = Addr
    <3>1. i + 1 \in 1 .. Len(MessageQueue) /\ MessageQueue[i + 1] = Greeting
      BY <2>2, <2>4
    <3>2. ToldSoon \/ \E j \in 1 .. i + 1 - 1 : MessageQueue[j] = Addr
      BY <3>1 DEF Ordered
    <3>3. CASE ToldSoon
      BY <2>1, <3>3
    <3>4. ASSUME NEW j \in 1 .. i + 1 - 1, MessageQueue[j] = Addr
          PROVE  ToldSoon' \/ \E k \in 1 .. i - 1 : MessageQueue'[k] = Addr
      <4>1. CASE j = 1
        BY <2>2, <3>4, <4>1
      <4>2. CASE j # 1
        <5>1. j - 1 \in 1 .. i - 1 /\ j - 1 \in 1 .. Len(MessageQueue')
              /\ (j - 1) + 1 = j
          BY <2>2, <4>2
        <5>2. MessageQueue'[j - 1] = MessageQueue[j]
          BY <2>2, <5>1
        <5> QED BY <3>4, <5>1, <5>2
      <4> QED BY <4>1, <4>2
    <3> QED BY <3>2, <3>3, <3>4
  <2>5. main' # "done" => calling'[Main] # Greeting /\ Greeting \notin ToSet(MessageQueue')
                          /\ current' # Greeting /\ Greeting \notin written'
    BY <2>1, <2>2 DEF Ordered
  <2>6. main' \in Later =>
          calling'[Main] = Addr \/ Addr \in ToSet(MessageQueue') \/ ToldSoon'
    BY <2>1, <2>2 DEF Ordered
  <2> QED BY <2>1, <2>3, <2>4, <2>5, <2>6 DEF Ordered, GreetsWithAddress
<1>9. CASE Flush
  BY <1>9 DEF Flush, callVars, Ordered, GreetsWithAddress
<1>10. CASE Write
  <2>1. /\ written' = written \cup ({current} \cap {Addr, Greeting})
        /\ UNCHANGED <<main, calling, MessageQueue, lost, current>>
    BY <1>10 DEF Write, callVars
  <2> QED BY <2>1 DEF Ordered, GreetsWithAddress
<1>11. CASE ReceiveLine
  BY <1>11, <1>same DEF ReceiveLine, callVars
<1>12. CASE Return
  <2>1. /\ sender = "wait" /\ sender' = "idle" /\ current' = NULL
        /\ UNCHANGED <<main, calling, MessageQueue, lost, written>>
    BY <1>12 DEF Return, callVars
  <2>2. ToldSoon => ToldSoon'
    BY <2>1 DEF Ordered
  <2> QED BY <2>1, <2>2 DEF Ordered, GreetsWithAddress
<1>13. CASE uart_reader_task
  BY <1>13, <1>same DEF uart_reader_task, callVars
<1>14. CASE StrayLine
  BY <1>14, <1>same DEF StrayLine, callVars
<1>15. CASE UNCHANGED vars
  BY <1>15, <1>same DEF vars, callVars
<1> QED
  BY <1>1, <1>2, <1>3, <1>4, <1>5, <1>6, <1>7, <1>8, <1>9, <1>10, <1>11, <1>12,
     <1>13, <1>14, <1>15 DEF Next, app_main, message_sending_task

(* The board's greeting is not handed to the chip before the command that  *)
(* sets the board's address, unless a full MessageQueue refused that one.  *)
THEOREM AddressFirst == ASSUME OutboxAssumption PROVE Spec => []GreetsWithAddress
<1>1. Init => Ordered
  BY InitOrdered
<1>2. TypeOK /\ Ordered /\ [Next]_vars => Ordered'
  BY OrderedStep
<1>3. Ordered => GreetsWithAddress
  BY DEF Ordered
<1> QED BY <1>1, <1>2, <1>3, TypeCorrect, PTL DEF Spec

----------------------------------------------------------------------------
(* The status of a command is what the chip said to it.                    *)

LEMMA HeadAndTail ==
  ASSUME NEW S, NEW s \in Seq(S), s # << >>
  PROVE  /\ Head(s) \in S /\ Tail(s) \in Seq(S)
         /\ <<Head(s)>> \in Seq(S) /\ s = <<Head(s)>> \o Tail(s)
<1>. DEFINE rest == Tail(s)
<1>1. /\ Head(s) \in S /\ rest \in Seq(S) /\ Len(rest) = Len(s) - 1
      /\ \A i \in 1 .. Len(rest) : rest[i] = s[i + 1]
  BY HeadTailProperties
<1>2. Len(s) \in Nat \ {0} /\ Head(s) = s[1]  BY EmptySeq
<1>. HIDE DEF rest
<1>3. PICK one \in Seq(S) : one = <<Head(s)>> /\ Len(one) = 1 /\ one[1] = s[1]
  <2>1. PICK h \in S : h = Head(s)  BY <1>1
  <2>2. <<h>> \in Seq(S) /\ Len(<<h>>) = 1 /\ <<h>>[1] = h  OBVIOUS
  <2>. QED  BY <1>2, <2>1, <2>2
<1>4. /\ one \o rest \in Seq(S) /\ Len(one \o rest) = Len(s)
      /\ \A i \in 1 .. Len(s) : (one \o rest)[i] = IF i <= 1 THEN one[i] ELSE rest[i - 1]
  <2>1. /\ one \o rest \in Seq(S) /\ Len(one \o rest) = Len(one) + Len(rest)
        /\ \A i \in 1 .. Len(one) + Len(rest) :
             (one \o rest)[i] = IF i <= Len(one) THEN one[i] ELSE rest[i - Len(one)]
    BY <1>1, <1>3, ConcatProperties
  <2>. QED  BY <1>1, <1>2, <1>3, <2>1
<1>5. ASSUME NEW i \in 1 .. Len(s) PROVE (one \o rest)[i] = s[i]
  <2>1. CASE i = 1  BY <1>3, <1>4, <2>1
  <2>2. CASE i # 1
    <3>1. i - 1 \in 1 .. Len(rest) /\ (i - 1) + 1 = i /\ ~ (i <= 1)  BY <1>1, <1>2, <2>2
    <3>. QED  BY <1>1, <1>4, <3>1
  <2>. QED  BY <2>1, <2>2
<1>6. one \o rest = s  BY <1>4, <1>5, SeqEqual
<1>. QED  BY <1>1, <1>3, <1>6 DEF rest

(* A line that moves from one queue to the next keeps its place in the     *)
(* stream of all.                                                          *)
LEMMA LineMoves ==
  ASSUME NEW S, NEW s \in Seq(S), NEW t \in Seq(S), t # << >>
  PROVE  Append(s, Head(t)) \o Tail(t) = s \o t
<1>. DEFINE h == Head(t)
            rest == Tail(t)
<1>1. h \in S /\ rest \in Seq(S) /\ <<h>> \in Seq(S) /\ t = <<h>> \o rest  BY HeadAndTail
<1>. HIDE DEF h, rest
<1>2. Append(s, h) = s \o <<h>>  BY <1>1, AppendIsConcat
<1>3. (s \o <<h>>) \o rest = s \o (<<h>> \o rest)  BY <1>1, ConcatAssociative
<1>4. Append(s, h) \o rest = s \o t  BY <1>1, <1>2, <1>3
<1>. QED  BY <1>4 DEF h, rest

(* All lines since the command was written, as far as they are not lost:   *)
(* taken, in the response queue, or to come.                               *)
Stream == got \o (q_resp \o due)

LEMMA Regrouped == \A s, t, u \in Seq(Line) : s \o (t \o u) = (s \o t) \o u
BY ConcatAssociative

LEMMA StreamType ==
  ASSUME TypeOK
  PROVE  /\ got \in Seq(Line) /\ q_resp \in Seq(Line) /\ due \in Seq(Line)
         /\ q_resp \o due \in Seq(Line) /\ Stream \in Seq(Line)
<1>1. got \in Seq(Line) /\ q_resp \in Seq(Line) /\ due \in Seq(Line)  BY DEF TypeOK
<1>2. q_resp \o due \in Seq(Line)  BY <1>1, ConcatProperties
<1>3. got \o (q_resp \o due) \in Seq(Line)  BY <1>1, <1>2, ConcatProperties
<1>. QED  BY <1>1, <1>2, <1>3 DEF Stream

(* The lines of m in s are those of answer, in their order.                *)
Holds(s, answer, m) ==
  \E f \in [DOMAIN answer -> DOMAIN s] :
    /\ \A j, k \in DOMAIN answer : j < k => f[j] < f[k]
    /\ \A k \in DOMAIN answer : s[f[k]] = answer[k]
    /\ \A i \in DOMAIN s : s[i].of = m => \E k \in DOMAIN answer : f[k] = i

(* What answers nothing tells nothing, and what the chip said to a prompt  *)
(* command is in the stream while no line was refused.                     *)
Tells ==
  /\ \A l \in ToSet(got) \cup ToSet(q_resp) \cup ToSet(due) : l.of = NULL => l.says = "other"
  /\ sender = "wait" => \A l \in ToSet(said) : l.of = current
  /\ sender = "wait" /\ owed = {} /\ ~ dropped => Holds(Stream, said, current)

(* Other lines before, and none of m among them.                           *)
LEMMA HoldsAfter ==
  ASSUME NEW S, NEW s \in Seq(S), NEW answer \in Seq(S), NEW m,
         \A l \in ToSet(s) : l.of # m
  PROVE  Holds(s \o answer, answer, m)
<1>. DEFINE t == s \o answer
            n == Len(s)
            f == [k \in DOMAIN answer |-> n + k]
<1>1. n \in Nat /\ DOMAIN s = 1 .. n /\ Len(answer) \in Nat /\ DOMAIN answer = 1 .. Len(answer)
  BY LenProperties
<1>2. /\ t \in Seq(S) /\ Len(t) = n + Len(answer)
      /\ \A i \in 1 .. n + Len(answer) : t[i] = IF i <= n THEN s[i] ELSE answer[i - n]
  BY ConcatProperties
<1>3. DOMAIN t = 1 .. n + Len(answer)  BY <1>2, LenProperties
<1>. HIDE DEF t, n
<1>4. f \in [DOMAIN answer -> DOMAIN t]  BY <1>1, <1>3
<1>5. \A j, k \in DOMAIN answer : j < k => f[j] < f[k]  BY <1>1
<1>6. ASSUME NEW k \in DOMAIN answer PROVE t[f[k]] = answer[k]
  <2>1. f[k] = n + k /\ n + k \in 1 .. n + Len(answer) /\ ~ (n + k <= n) /\ (n + k) - n = k
    BY <1>1
  <2>. QED  BY <1>2, <2>1
<1>7. ASSUME NEW i \in DOMAIN t, t[i].of = m PROVE \E k \in DOMAIN answer : f[k] = i
  <2>1. CASE i <= n
    <3>1. i \in DOMAIN s /\ t[i] = s[i]  BY <1>1, <1>2, <1>3, <2>1
    <3>. QED  BY <1>7, <3>1 DEF ToSet
  <2>2. CASE ~ (i <= n)
    <3>1. i - n \in DOMAIN answer /\ f[i - n] = i  BY <1>1, <1>3, <2>2
    <3>. QED  BY <3>1
  <2>. QED  BY <2>1, <2>2
<1>8. Holds(t, answer, m)
  <2>. HIDE DEF f
  <2>. QED  BY <1>4, <1>5, <1>6, <1>7 DEF Holds
<1>. QED  BY <1>8 DEF t

(* One more line of another.                                               *)
LEMMA HoldsBefore ==
  ASSUME NEW S, NEW s \in Seq(S), NEW e \in S, NEW answer, NEW m, e.of # m,
         Holds(s, answer, m)
  PROVE  Holds(Append(s, e), answer, m)
<1>. DEFINE t == Append(s, e)
<1>1. /\ Len(s) \in Nat /\ DOMAIN s = 1 .. Len(s)
      /\ DOMAIN t = 1 .. Len(s) + 1 /\ t[Len(s) + 1] = e
      /\ \A i \in 1 .. Len(s) : t[i] = s[i]
  BY AppendProperties, LenProperties
<1>2. PICK f \in [DOMAIN answer -> DOMAIN s] :
        /\ \A j, k \in DOMAIN answer : j < k => f[j] < f[k]
        /\ \A k \in DOMAIN answer : s[f[k]] = answer[k]
        /\ \A i \in DOMAIN s : s[i].of = m => \E k \in DOMAIN answer : f[k] = i
  BY DEF Holds
<1>. HIDE DEF t
<1>3. DOMAIN s \subseteq DOMAIN t  BY <1>1
<1>4. f \in [DOMAIN answer -> DOMAIN t]  BY <1>2, <1>3
<1>5. \A k \in DOMAIN answer : t[f[k]] = answer[k]  BY <1>1, <1>2
<1>6. ASSUME NEW i \in DOMAIN t, t[i].of = m PROVE \E k \in DOMAIN answer : f[k] = i
  <2>1. i # Len(s) + 1  BY <1>1, <1>6
  <2>2. i \in DOMAIN s /\ t[i] = s[i]  BY <1>1, <2>1
  <2>. QED  BY <1>2, <1>6, <2>2
<1>7. Holds(t, answer, m)  BY <1>2, <1>4, <1>5, <1>6 DEF Holds
<1>. QED  BY <1>7 DEF t

(* Once no line of m is beyond taken, taken ends in an error just when the *)
(* answer does.                                                            *)
LEMMA SameVerdict ==
  ASSUME OutboxAssumption, NEW m \in Msg,
         NEW taken \in Seq(Line), NEW rest \in Seq(Line), NEW answer \in Seq(Line),
         Holds(taken \o rest, answer, m),
         \A l \in ToSet(rest) : l.of # m,
         \A l \in ToSet(answer) : l.of = m,
         \A l \in ToSet(taken) : l.of \in {m, NULL},
         \A l \in ToSet(taken) : l.of = NULL => l.says = "other"
  PROVE  /\ EndsInError(taken) <=> EndsInError(answer)
         /\ answer # << >> => \E l \in ToSet(taken) : l.of = m
<1>. DEFINE s == taken \o rest
            n == Len(taken)
<1>1. /\ n \in Nat /\ DOMAIN taken = 1 .. n
      /\ Len(rest) \in Nat /\ DOMAIN rest = 1 .. Len(rest)
      /\ Len(answer) \in Nat /\ DOMAIN answer = 1 .. Len(answer)
  BY LenProperties
<1>2. /\ s \in Seq(Line) /\ Len(s) = n + Len(rest)
      /\ \A i \in 1 .. n + Len(rest) : s[i] = IF i <= n THEN taken[i] ELSE rest[i - n]
  BY ConcatProperties
<1>3. DOMAIN s = 1 .. n + Len(rest)  BY <1>2, LenProperties
<1>4. PICK f \in [DOMAIN answer -> DOMAIN s] :
        /\ \A j, k \in DOMAIN answer : j < k => f[j] < f[k]
        /\ \A k \in DOMAIN answer : s[f[k]] = answer[k]
        /\ \A i \in DOMAIN s : s[i].of = m => \E k \in DOMAIN answer : f[k] = i
  BY DEF Holds
<1>. HIDE DEF s, n
<1>5. ASSUME NEW k \in DOMAIN answer
      PROVE  f[k] \in DOMAIN taken /\ taken[f[k]] = answer[k] /\ answer[k].of = m
  <2>1. answer[k].of = m  BY <1>1 DEF ToSet
  <2>2. f[k] \in 1 .. n + Len(rest) /\ s[f[k]].of = m  BY <1>3, <1>4, <2>1
  <2>3. f[k] <= n
    <3>. SUFFICES ASSUME ~ (f[k] <= n) PROVE FALSE  OBVIOUS
    <3>1. f[k] - n \in 1 .. Len(rest) /\ s[f[k]] = rest[f[k] - n]  BY <1>1, <1>2, <2>2
    <3>. QED  BY <1>1, <2>2, <3>1 DEF ToSet
  <2>4. f[k] \in DOMAIN taken /\ s[f[k]] = taken[f[k]]  BY <1>1, <1>2, <2>2, <2>3
  <2>. QED  BY <1>4, <2>1, <2>4
<1>6. ASSUME NEW i \in DOMAIN taken, taken[i].says # "other"
      PROVE  \E k \in DOMAIN answer : f[k] = i
  <2>1. taken[i].of = m  BY <1>6 DEF ToSet
  <2>2. i \in DOMAIN s /\ s[i] = taken[i]  BY <1>1, <1>2, <1>3
  <2>. QED  BY <1>4, <2>1, <2>2
<1>7. \A k \in DOMAIN answer : f[k] \in Nat  BY <1>1, <1>5
<1>8. \A j, k \in DOMAIN answer : f[j] < f[k] => j < k
  <2>. SUFFICES ASSUME NEW j \in DOMAIN answer, NEW k \in DOMAIN answer, f[j] < f[k], ~ (j < k)
                PROVE  FALSE
    OBVIOUS
  <2>1. k < j \/ k = j  BY <1>1
  <2>. QED  BY <1>4, <1>7, <2>1
<1>9. ASSUME EndsInError(taken) PROVE EndsInError(answer)
  <2>1. PICK i \in DOMAIN taken :
          taken[i].says = "+ERR" /\ \A j \in DOMAIN taken : j > i => taken[j].says # "+OK"
    BY <1>9 DEF EndsInError
  <2>2. PICK k \in DOMAIN answer : f[k] = i  BY <1>6, <2>1
  <2>3. answer[k].says = "+ERR"  BY <1>5, <2>1, <2>2
  <2>4. ASSUME NEW j \in DOMAIN answer, j > k PROVE answer[j].says # "+OK"
    <3>1. f[j] > i  BY <1>1, <1>4, <1>7, <2>2, <2>4
    <3>. QED  BY <1>5, <2>1, <3>1
  <2>. QED  BY <2>3, <2>4 DEF EndsInError
<1>10. ASSUME EndsInError(answer) PROVE EndsInError(taken)
  <2>1. PICK k \in DOMAIN answer :
          answer[k].says = "+ERR" /\ \A j \in DOMAIN answer : j > k => answer[j].says # "+OK"
    BY <1>10 DEF EndsInError
  <2>2. f[k] \in DOMAIN taken /\ taken[f[k]].says = "+ERR"  BY <1>5, <2>1
  <2>3. ASSUME NEW i \in DOMAIN taken, i > f[k], taken[i].says = "+OK" PROVE FALSE
    <3>1. PICK j \in DOMAIN answer : f[j] = i  BY <1>6, <2>3
    <3>2. j > k  BY <1>1, <1>7, <1>8, <2>3, <3>1
    <3>. QED  BY <1>5, <2>1, <2>3, <3>1, <3>2
  <2>. QED  BY <2>2, <2>3 DEF EndsInError
<1>11. ASSUME answer # << >> PROVE \E l \in ToSet(taken) : l.of = m
  <2>1. 1 \in DOMAIN answer  BY <1>1, <1>11, EmptySeq
  <2>. QED  BY <1>5, <2>1 DEF ToSet
<1>. QED  BY <1>9, <1>10, <1>11

LEMMA TellsStep ==
  ASSUME OutboxAssumption, TypeOK, Apart, Tells, [Next]_vars
  PROVE  Tells'
<1> USE DEF sendVars, chipVars, heard
<1>0. TypeOK'  BY NextTypeOK
<1>same. ASSUME UNCHANGED <<sender, current, got, q_resp, due, said, heard>>
         PROVE  Tells'
  BY <1>same DEF Tells, Stream, Holds
<1>1. CASE wifi_start_softap \/ Make
  BY <1>1, <1>same DEF wifi_start_softap, Make, Proceed
<1>2. CASE Order
  BY <1>2, <1>same DEF Order, MarkQueued
<1>3. ASSUME NEW c \in Caller, NEW m \in Msg, CallQueueSend(c, m) PROVE Tells'
  BY <1>3, <1>same DEF CallQueueSend, MarkQueued
<1>4. ASSUME NEW c \in Caller, NEW m \in Msg, NoRouter(c, m) PROVE Tells'
  BY <1>4, <1>same DEF NoRouter, Panic
<1>5. ASSUME NEW c \in Caller, Enqueue(c) PROVE Tells'
  BY <1>5, <1>same DEF Enqueue
<1>6. ASSUME NEW c \in Caller, GiveUp(c) PROVE Tells'
  BY <1>6, <1>same DEF GiveUp
<1>7. ASSUME NEW c \in Caller, NoQueue(c) PROVE Tells'
  BY <1>7, <1>same DEF NoQueue, Panic
<1>8. CASE Take
  BY <1>8 DEF Take, Tells
<1>9. CASE Flush
  <2>1. ToSet(q_resp') = {} /\ UNCHANGED <<got, due>> /\ sender' = "write"
    BY <1>9, EmptySet DEF Flush, Flushed
  <2>. QED  BY <2>1 DEF Tells
<1>10. CASE Write
  <2>1. current \in Msg /\ sender = "write" /\ sender' = "wait"
        /\ UNCHANGED <<current, got, q_resp, owed>>
    BY <1>10 DEF Write, TypeOK
  <2>2. PICK answer \in Answers : /\ said' = LinesOf(current, answer)
                                  /\ due' = due \o LinesOf(current, answer)
    BY <1>10 DEF Write
  <2>. DEFINE lines == LinesOf(current, answer)
  <2>3. lines \in Seq(Line) /\ \A l \in ToSet(lines) : l.of = current  BY <2>1, LinesOfType
  <2>. HIDE DEF lines
  <2>4. said' = lines /\ due' = due \o lines  BY <2>2 DEF lines
  <2>5. ToSet(due') = ToSet(due) \cup ToSet(lines)  BY <2>3, <2>4, ConcatSet DEF TypeOK
  <2>6. NULL \notin Msg  BY DEF OutboxAssumption
  <2>7. ASSUME owed = {} PROVE Holds(Stream', said', current')
    <3>1. got = << >> /\ OfOnly(q_resp, Loose) /\ OfOnly(due, Loose)  BY <2>1 DEF Apart
    <3>2. current \notin Loose  BY <2>1, <2>6, <2>7 DEF Loose
    <3>3. q_resp \in Seq(Line) /\ due \in Seq(Line) /\ q_resp \o due \in Seq(Line)
      BY StreamType
    <3>4. \A l \in ToSet(q_resp \o due) : l.of # current
      BY <3>1, <3>2, <3>3, ConcatSet DEF OfOnly
    <3>5. Holds((q_resp \o due) \o lines, lines, current)  BY <2>3, <3>3, <3>4, HoldsAfter
    <3>6. (q_resp \o due) \o lines = q_resp \o (due \o lines)
      BY <2>3, <3>3, ConcatAssociative
    <3>7. q_resp \o (due \o lines) \in Seq(Line)  BY <2>3, <3>3, ConcatProperties
    <3>8. Stream' = q_resp \o (due \o lines)
      BY <2>1, <2>4, <3>1, <3>7, ConcatEmptySeq DEF Stream
    <3>. QED  BY <2>1, <2>4, <3>5, <3>6, <3>8
  <2>. QED  BY <2>1, <2>3, <2>4, <2>5, <2>6, <2>7 DEF Tells
<1>11. CASE ReceiveLine
  <2>1. /\ q_resp # << >> /\ got' = Append(got, Head(q_resp)) /\ q_resp' = Tail(q_resp)
        /\ UNCHANGED <<sender, current, due, said, heard>>
    BY <1>11 DEF ReceiveLine
  <2>2. /\ got \in Seq(Line) /\ q_resp \in Seq(Line) /\ due \in Seq(Line)
        /\ got' \in Seq(Line) /\ q_resp' \in Seq(Line)
    BY <1>0 DEF TypeOK
  <2>3. Stream' = Stream
    <3>1. got' \o q_resp' = got \o q_resp  BY <2>1, <2>2, LineMoves
    <3>2. got' \o (q_resp' \o due) = (got' \o q_resp') \o due  BY <2>2, Regrouped
    <3>3. got \o (q_resp \o due) = (got \o q_resp) \o due  BY <2>2, Regrouped
    <3>. QED  BY <2>1, <3>1, <3>2, <3>3 DEF Stream
  <2>4. ToSet(got') \cup ToSet(q_resp') = ToSet(got) \cup ToSet(q_resp)
    <3>1. Head(q_resp) \in Line /\ ToSet(q_resp) = {Head(q_resp)} \cup ToSet(q_resp')
      BY <2>1, <2>2, TakeSet
    <3>2. ToSet(got') = ToSet(got) \cup {Head(q_resp)}  BY <2>1, <2>2, <3>1, AppendSet
    <3>. QED  BY <3>1, <3>2
  <2>. QED  BY <2>1, <2>3, <2>4 DEF Tells
<1>12. CASE Return
  <2>1. sender' = "idle" /\ ToSet(got') = {} /\ UNCHANGED <<q_resp, due>>
    BY <1>12, EmptySet DEF Return
  <2>. QED  BY <2>1 DEF Tells
<1>13. CASE uart_reader_task
  <2>1. /\ due # << >> /\ due' = Tail(due)
        /\ UNCHANGED <<sender, current, got, said, owed>>
    BY <1>13 DEF uart_reader_task
  <2>2. /\ got \in Seq(Line) /\ q_resp \in Seq(Line) /\ due \in Seq(Line)
        /\ q_resp' \in Seq(Line) /\ due' \in Seq(Line)
    BY <1>0 DEF TypeOK
  <2>3. Head(due) \in Line /\ ToSet(due) = {Head(due)} \cup ToSet(due')
    BY <2>1, <2>2, TakeSet
  <2>4. CASE Len(q_resp) < RESP_LENGTH
    <3>1. q_resp' = Append(q_resp, Head(due)) /\ dropped' = dropped
      BY <1>13, <2>4, Zenon DEF uart_reader_task
    <3>2. Stream' = Stream
      <4>1. q_resp' \o due' = q_resp \o due  BY <2>1, <2>2, <3>1, LineMoves
      <4>. QED  BY <2>1, <4>1 DEF Stream
    <3>3. ToSet(q_resp') = ToSet(q_resp) \cup {Head(due)}  BY <2>2, <2>3, <3>1, AppendSet
    <3>. QED  BY <2>1, <2>3, <3>1, <3>2, <3>3 DEF Tells
  <2>5. CASE ~ (Len(q_resp) < RESP_LENGTH)
    <3>1. q_resp' = q_resp /\ (sender = "wait" => dropped')
      BY <1>13, <2>5 DEF uart_reader_task
    <3>. QED  BY <2>1, <2>3, <3>1 DEF Tells
  <2>. QED  BY <2>4, <2>5
<1>14. CASE StrayLine
  <2>. DEFINE line == [of |-> NULL, says |-> "other"]
  <2>1. line \in Line /\ line.of = NULL /\ line.says = "other"  BY DEF Line
  <2>2. due' = Append(due, line) /\ UNCHANGED <<sender, current, got, q_resp, said, heard>>
    BY <1>14 DEF StrayLine
  <2>. HIDE DEF line
  <2>3. /\ got \in Seq(Line) /\ q_resp \in Seq(Line) /\ due \in Seq(Line)
        /\ q_resp \o due \in Seq(Line) /\ Stream \in Seq(Line)
    BY StreamType
  <2>4. ToSet(due') = ToSet(due) \cup {line}  BY <2>1, <2>2, <2>3, AppendSet
  <2>5. Stream' = Append(Stream, line)
    <3>1. <<line>> \in Seq(Line)  BY <2>1
    <3>2. PICK one \in Seq(Line) : one = <<line>>  BY <3>1
    <3>3. Append(due, line) = due \o one /\ Append(Stream, line) = Stream \o one
      BY <2>1, <2>3, <3>2, AppendIsConcat
    <3>4. (q_resp \o due) \o one = q_resp \o (due \o one)
      BY <2>3, <3>2, Regrouped
    <3>5. (got \o (q_resp \o due)) \o one = got \o ((q_resp \o due) \o one)
      BY <2>3, <3>2, Regrouped
    <3>. QED  BY <2>2, <3>3, <3>4, <3>5 DEF Stream
  <2>6. sender = "wait" /\ owed = {} /\ ~ dropped => Holds(Stream', said', current')
    <3>. SUFFICES ASSUME sender = "wait", owed = {}, ~ dropped
                  PROVE  Holds(Stream', said', current')
      OBVIOUS
    <3>1. Holds(Stream, said, current)  BY DEF Tells
    <3>2. line.of # current  BY <2>1 DEF TypeOK, OutboxAssumption
    <3>3. Holds(Append(Stream, line), said, current)
      BY <2>1, <2>3, <3>1, <3>2, HoldsBefore
    <3>. QED  BY <2>2, <2>5, <3>3
  <2>. QED  BY <2>1, <2>2, <2>4, <2>6 DEF Tells
<1>15. CASE UNCHANGED vars
  BY <1>15, <1>same DEF vars
<1> QED
  BY <1>1, <1>2, <1>3, <1>4, <1>5, <1>6, <1>7, <1>8, <1>9, <1>10, <1>11, <1>12,
     <1>13, <1>14, <1>15 DEF Next, app_main, message_sending_task

(* The exchange that ends here gave its command the status of its own      *)
(* answer.                                                                 *)
LEMMA OwnVerdict ==
  ASSUME OutboxAssumption, TypeOK, Apart, Tells, Return, NEW m \in Prompt,
         current = m, said # << >>, ~ dropped, owed = {}, m \in Quick \/ Hears(m)
  PROVE  /\ transfer_status'[m] = IF EndsInError(said) THEN "ERR" ELSE "OK"
         /\ m \in Command => m \in result'[m] /\ result'[m] \subseteq {m, NULL}
<1>1. /\ got \in Seq(Line) /\ q_resp \in Seq(Line) /\ due \in Seq(Line)
      /\ q_resp \o due \in Seq(Line) /\ Stream \in Seq(Line) /\ said \in Seq(Line)
  BY StreamType DEF TypeOK
<1>2. m \in Msg /\ sender = "wait" /\ Answered(m)
  BY DEF Return, WaitEnds, AllSaid, OutboxAssumption
<1>3. \A l \in ToSet(got) : l.of \in {m, NULL}
  BY <1>2 DEF Apart, OfOnly, Loose
<1>. DEFINE rest == q_resp \o due
<1>4. rest \in Seq(Line) /\ \A l \in ToSet(rest) : l.of # m
  BY <1>1, <1>2, ConcatSet DEF Answered
<1>5. Holds(got \o rest, said, m) /\ \A l \in ToSet(said) : l.of = m
  BY <1>2 DEF Tells, Stream
<1>. HIDE DEF rest
<1>6. \A l \in ToSet(got) : l.of = NULL => l.says = "other"  BY DEF Tells
<1>7. /\ EndsInError(got) <=> EndsInError(said)
      /\ \E l \in ToSet(got) : l.of = m
  <2>1. m \in Msg /\ got \in Seq(Line) /\ said \in Seq(Line)  BY <1>1, <1>2
  <2>. QED  BY <2>1, <1>3, <1>4, <1>5, <1>6, SameVerdict
<1>8. got # << >>  BY <1>7, EmptySet
<1>9. transfer_status'[m] = Judged(got)  BY <1>2 DEF Return, Recorded, TypeOK
<1>10. ASSUME m \in Command PROVE m \in result'[m] /\ result'[m] \subseteq {m, NULL}
  <2>1. result'[m] = Response  BY <1>2, <1>10 DEF Return, TypeOK
  <2>2. Response = {l.of : l \in ToSet(got)}  BY <1>8 DEF Response
  <2>. QED  BY <1>3, <1>7, <2>1, <2>2
<1>. QED  BY <1>7, <1>8, <1>9, <1>10 DEF Judged

(* A command that an idle chip answered, and whose own answer was heard or *)
(* comes before any wait can end, gets the status the chip gave it, and    *)
(* the ack made for it holds what the chip said to it and to nobody else.  *)
THEOREM StatusIsOwn == ASSUME OutboxAssumption PROVE Spec => OwnStatus
<1>1. Init => Apart /\ Tells
  BY EmptySet DEF Init, Apart, Tells
<1>2. TypeOK /\ Apart /\ Tells /\ [Next]_vars => Apart' /\ Tells'
  BY ApartStep, TellsStep
<1>3. TypeOK /\ Apart /\ Tells /\ [Next]_vars =>
        [\A m \in Prompt :
           (current = m /\ current' = NULL /\ said # << >> /\ ~ dropped /\ owed = {}
              /\ (m \in Quick \/ Hears(m)))
           => /\ transfer_status'[m] = IF EndsInError(said) THEN "ERR" ELSE "OK"
              /\ m \in Command => m \in result'[m] /\ result'[m] \subseteq {m, NULL}]_vars
  <2>. SUFFICES ASSUME TypeOK, Apart, Tells, [Next]_vars, NEW m \in Prompt,
                       current = m, current' = NULL, said # << >>, ~ dropped, owed = {},
                       m \in Quick \/ Hears(m)
                PROVE  /\ transfer_status'[m] = IF EndsInError(said) THEN "ERR" ELSE "OK"
                       /\ m \in Command => m \in result'[m] /\ result'[m] \subseteq {m, NULL}
    OBVIOUS
  <2>1. Return
    <3>1. current' # current  BY DEF OutboxAssumption
    <3>. QED
      BY <3>1 DEF Next, app_main, wifi_start_softap, Make, Proceed, Order, MarkQueued,
         CallQueueSend, NoRouter, Enqueue, GiveUp, NoQueue, Panic, message_sending_task, Take,
         Flush, Write, ReceiveLine, uart_reader_task, StrayLine, sendVars, vars, TypeOK
  <2>. QED  BY <2>1, OwnVerdict
<1>. QED  BY <1>1, <1>2, <1>3, TypeCorrect, PTL DEF Spec, OwnStatus
=============================================================================
