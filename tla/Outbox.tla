------------------------------- MODULE Outbox -------------------------------
(***************************************************************************)
(* How messages leave a board: app_main making the queues and starting the *)
(* tasks (src/main.c), the tasks that call queue_send, the sending task    *)
(* and its exchange of lines with the radio chip, and the task that reads  *)
(* what the chip says (src/lora_uart.c).                                   *)
(*                                                                         *)
(* A line of the chip is what it says ("+OK", "+ERR" or something else)    *)
(* and, as history, the message whose command it answers (NULL when none:  *)
(* the tail of an overlong line).  Lines that start with +RCV= go to the   *)
(* other queue and are left to Mesh.  Where a message goes is in Mesh, its *)
(* text in TextPath.                                                       *)
(***************************************************************************)
EXTENDS Naturals, Sequences, SequencesExt

CONSTANTS
  Caller,          \* tasks that call queue_send, app_main among them
  Main,            \* app_main
  Msg,             \* ids of messages
  By,              \* By[m]: the task that sends m
  Command,         \* messages of type COMMAND
  Baud, Addr, Greeting,   \* the messages of app_main
  After,           \* After[c]: the step of app_main that starts task c
  Answers,         \* what the chip may say to a command
  Prompt,          \* commands an idle chip answers within 2 s, line upon line
  Quick,           \* those of them it answers within 100 ms
  NULL,            \* no message
  Garbage,         \* contents that no line ever had
  QUEUE_LENGTH,    \* of MessageQueue (16)
  RESP_LENGTH,     \* of q_resp (16)
  MaxSends,        \* bound: calls of queue_send for one message
  MaxStray         \* bound: lines that answer nothing

ASSUME OutboxAssumption ==
  /\ Main \in Caller
  /\ By \in [Msg -> Caller]
  /\ {Baud, Addr, Greeting} \subseteq Msg /\ Greeting \notin {Baud, Addr}
  /\ By[Baud] = Main /\ By[Addr] = Main /\ By[Greeting] = Main
  /\ Command \subseteq Msg /\ Quick \subseteq Prompt /\ Prompt \subseteq Msg
  /\ Answers \subseteq Seq({"+OK", "+ERR", "other"})
  /\ NULL \notin Msg /\ Garbage \notin Msg \cup {NULL}
  /\ QUEUE_LENGTH \in Nat \ {0} /\ RESP_LENGTH \in Nat \ {0}
  /\ MaxSends \in Nat /\ MaxStray \in Nat

VARIABLES
  main,              \* what app_main does next
  mode,              \* "up" or "panic"
  transfer_status,   \* of an entry of the message table
  ack_status,        \* of an entry of the message table
  calling,           \* of a task: the message it has marked but not yet put in MessageQueue
  sent,              \* how often queue_send was called for a message
  MessageQueue,
  lost,              \* history: messages whose id a full MessageQueue refused last
  sender,            \* message_sending_task: where it is
  current,           \* message_sending_task: the message it sends
  got,               \* uart_send_and_block: the lines taken so far
  result,            \* of a command: whose lines the ack made for it holds
  q_resp,            \* lines of the chip that are not frames
  due,               \* the chip: lines to come
  said,              \* history: what the chip answers to the command of this exchange
  dropped,           \* history: a full q_resp refused a line in this exchange
  owed,              \* history: what the chip had still to answer at the last flush
  stray,             \* lines so far that answered nothing
  written            \* history: Addr and Greeting, once handed to the chip

bootVars  == <<main, mode>>
entryVars == <<transfer_status, ack_status>>
callVars  == <<calling, sent>>
queueVars == <<MessageQueue, lost>>
sendVars  == <<sender, current, got>>
chipVars  == <<due, said, stray>>
heard     == <<dropped, owed>>
vars == <<bootVars, entryVars, callVars, queueVars, sendVars, result, q_resp,
          chipVars, heard, written>>

(* What app_main does, in order.  wifi_start_softap starts the web server, *)
(* uart_init the reader and the handler before MessageQueue.               *)
BootSteps ==
  <<"wifi", "router", "uart", "queue", "baud", "address", "tasks", "greet", "done">>

Position(step) == CHOOSE i \in DOMAIN BootSteps : BootSteps[i] = step
Past(step) == Position(step) < Position(main)

Status == {"NO_STATUS", "QUEUED", "OK", "ERR"}
Line == [of : Msg \cup {NULL}, says : {"+OK", "+ERR", "other"}]

TypeOK ==
  /\ main \in ToSet(BootSteps) /\ mode \in {"up", "panic"}
  /\ transfer_status \in [Msg -> Status] /\ ack_status \in [Msg -> BOOLEAN]
  /\ calling \in [Caller -> Msg \cup {NULL}]
  /\ sent \in [Msg -> 0 .. MaxSends]
  /\ MessageQueue \in Seq(Msg) /\ Len(MessageQueue) <= QUEUE_LENGTH
  /\ lost \subseteq Msg
  /\ sender \in {"idle", "flush", "write", "wait"}
  /\ current \in Msg \cup {NULL}
  /\ (sender = "idle") = (current = NULL)
  /\ got \in Seq(Line)
  /\ q_resp \in Seq(Line) /\ Len(q_resp) <= RESP_LENGTH
  /\ due \in Seq(Line) /\ said \in Seq(Line)
  /\ result \in [Msg -> SUBSET (Msg \cup {NULL, Garbage})]
  /\ dropped \in BOOLEAN /\ owed \subseteq Msg
  /\ stray \in 0 .. MaxStray
  /\ written \subseteq {Addr, Greeting}

Init ==
  /\ main = "wifi" /\ mode = "up"
  /\ transfer_status = [m \in Msg |-> "NO_STATUS"]
  /\ ack_status = [m \in Msg |-> FALSE]
  /\ calling = [c \in Caller |-> NULL]
  /\ sent = [m \in Msg |-> 0]
  /\ MessageQueue = << >> /\ lost = {}
  /\ sender = "idle" /\ current = NULL /\ got = << >>
  /\ result = [m \in Msg |-> {}]
  /\ q_resp = << >> /\ due = << >>
  /\ said = << >>
  /\ dropped = FALSE /\ owed = {} /\ stray = 0 /\ written = {}

----------------------------------------------------------------------------
(* queue_send: first the router and the entry, then MessageQueue.          *)

use_router(m) == m \notin Command \cup {Greeting}

Panic ==
  /\ mode' = "panic"
  /\ UNCHANGED <<main, entryVars, callVars, queueVars, sendVars, result, q_resp,
                 chipVars, heard, written>>

MarkQueued(c, m) ==
  /\ mode = "up" /\ calling[c] = NULL
  /\ By[m] = c /\ sent[m] < MaxSends
  /\ transfer_status' = [transfer_status EXCEPT ![m] = "QUEUED"]
  /\ calling' = [calling EXCEPT ![c] = m]
  /\ sent' = [sent EXCEPT ![m] = @ + 1]
  /\ UNCHANGED <<mode, ack_status, queueVars, sendVars, result, q_resp, chipVars,
                 heard, written>>

CallQueueSend(c, m) ==
  /\ c # Main /\ Past(After[c])
  /\ use_router(m) => Past("router")
  /\ MarkQueued(c, m)
  /\ UNCHANGED main

(* The web server runs while g_router is still NULL.                       *)
NoRouter(c, m) ==
  /\ c # Main /\ Past(After[c])
  /\ mode = "up" /\ calling[c] = NULL
  /\ By[m] = c /\ sent[m] < MaxSends
  /\ use_router(m) /\ ~ Past("router")
  /\ Panic

HasRoom == Len(MessageQueue) < QUEUE_LENGTH

(* xQueueSend.                                                             *)
Enqueue(c) ==
  /\ mode = "up" /\ calling[c] # NULL /\ Past("queue")
  /\ HasRoom
  /\ MessageQueue' = Append(MessageQueue, calling[c])
  /\ lost' = lost \ {calling[c]}
  /\ calling' = [calling EXCEPT ![c] = NULL]
  /\ UNCHANGED <<bootVars, entryVars, sent, sendVars, result, q_resp, chipVars, heard, written>>

(* No room for 50 ms: the id is dropped, the entry says QUEUED.      *)
GiveUp(c) ==
  /\ mode = "up" /\ calling[c] # NULL /\ Past("queue")
  /\ ~ HasRoom
  /\ lost' = lost \cup {calling[c]}
  /\ calling' = [calling EXCEPT ![c] = NULL]
  /\ UNCHANGED <<bootVars, entryVars, sent, MessageQueue, sendVars, result, q_resp, chipVars,
                 heard, written>>

(* MessageQueue does not exist yet: FreeRTOS asserts.                      *)
NoQueue(c) ==
  /\ mode = "up" /\ calling[c] # NULL /\ ~ Past("queue")
  /\ Panic

----------------------------------------------------------------------------
(* app_main.                                                               *)

NextStep == BootSteps[Position(main) + 1]

Proceed ==
  /\ mode = "up" /\ calling[Main] = NULL
  /\ main' = NextStep
  /\ UNCHANGED <<mode, entryVars, callVars, queueVars, sendVars, result, q_resp, chipVars,
                 heard, written>>

(* The access point, and last of all the web server: its handlers run from *)
(* here on.                                                                *)
wifi_start_softap == main = "wifi" /\ Proceed

(* create_router, uart_init's tasks and queue, xTaskCreate.                *)
Make ==
  /\ main \notin {"wifi", "baud", "address", "greet"} /\ main # Last(BootSteps)
  /\ Proceed

BootMessage_swapped ==                         (* mutant: greets before it has its address *)
  CASE main = "baud" -> Baud [] main = "address" -> Greeting [] main = "greet" -> Addr

BootMessage ==
  CASE main = "baud" -> Baud [] main = "address" -> Addr [] main = "greet" -> Greeting

Order ==
  /\ main \in {"baud", "address", "greet"}
  /\ MarkQueued(Main, BootMessage)
  /\ main' = NextStep

app_main == wifi_start_softap \/ Make \/ Order

----------------------------------------------------------------------------
(* message_sending_task: send_message_blocking and uart_send_and_block.    *)

Take ==
  /\ mode = "up" /\ Past("tasks")
  /\ sender = "idle" /\ MessageQueue # << >>
  /\ current' = Head(MessageQueue)
  /\ MessageQueue' = Tail(MessageQueue)
  /\ sender' = "flush"
  /\ UNCHANGED <<bootVars, entryVars, callVars, lost, got, result, q_resp, chipVars,
                 heard, written>>

Flushed_not == q_resp                          (* mutant: stale lines stay *)

Flushed == << >>

(* What has not come by now is not flushed: the chip may be at work on an  *)
(* earlier command whose wait is over.                                     *)
Flush ==
  /\ mode = "up" /\ sender = "flush"
  /\ q_resp' = Flushed
  /\ owed' = {l.of : l \in ToSet(due)} \ {NULL}
  /\ sender' = "write"
  /\ UNCHANGED <<bootVars, entryVars, callVars, queueVars, current, got, result, chipVars,
                 dropped, written>>

LinesOf(m, answer) == [i \in DOMAIN answer |-> [of |-> m, says |-> answer[i]]]

(* uart_write_bytes; the chip will answer, or not.                         *)
Write ==
  /\ mode = "up" /\ sender = "write"
  /\ \E answer \in Answers :
       /\ said' = LinesOf(current, answer)
       /\ due' = due \o LinesOf(current, answer)
  /\ sender' = "wait"
  /\ written' = written \cup ({current} \cap {Addr, Greeting})
  /\ UNCHANGED <<bootVars, entryVars, callVars, queueVars, current, got, result, q_resp, stray,
                 heard>>

ReceiveLine ==
  /\ mode = "up" /\ sender = "wait" /\ q_resp # << >>
  /\ got' = Append(got, Head(q_resp))
  /\ q_resp' = Tail(q_resp)
  /\ UNCHANGED <<bootVars, entryVars, callVars, queueVars, sender, current, result, chipVars,
                 heard, written>>

Judged_first(lines) ==                         (* mutant: later lines not looked at *)
  IF lines = << >> THEN "NO_STATUS"
  ELSE IF lines[1].says = "+ERR" THEN "ERR" ELSE "OK"

(* The last line that tells decides; a line that does not tell counts as OK. *)
EndsInError(lines) ==
  \E i \in DOMAIN lines :
    /\ lines[i].says = "+ERR"
    /\ \A j \in DOMAIN lines : j > i => lines[j].says # "+OK"

Judged(lines) ==
  IF lines = << >> THEN "NO_STATUS" ELSE IF EndsInError(lines) THEN "ERR" ELSE "OK"

Recorded_ifAny(m) ==                           (* mutant: a time-out is not recorded *)
  IF got = << >> THEN transfer_status ELSE [transfer_status EXCEPT ![m] = Judged(got)]

Recorded(m) == [transfer_status EXCEPT ![m] = Judged(got)]

(* response_buffer has not been written when no line came: it holds        *)
(* whatever the stack held.  Lines are taken to fit in it.                 *)
Response == IF got = << >> THEN {Garbage} ELSE {l.of : l \in ToSet(got)}

(* The wait ends 100 ms after a line, any line, or after 2 s.  By then the *)
(* chip has said all it says to a command if it was idle and the command   *)
(* is quick, or is prompt and its own answer is what was heard, if         *)
(* anything: a line of another kind may end the wait for it too early.     *)
Answered(m) ==
  \A l \in ToSet(due) \cup ToSet(q_resp) : l.of # m

Hears(m) == \E l \in ToSet(got) : l.of = m

AllSaid(m) ==
  /\ owed = {}
  /\ m \in Quick \/ (m \in Prompt /\ (got = << >> \/ Hears(m)))

WaitEnds_onLine ==                             (* mutant: no overall time-out *)
  got # << >> /\ (AllSaid(current) => Answered(current))

WaitEnds == AllSaid(current) => Answered(current)

Return ==
  /\ mode = "up" /\ sender = "wait"
  /\ WaitEnds
  /\ transfer_status' = Recorded(current)
  /\ IF current \in Command
     THEN /\ result' = [result EXCEPT ![current] = Response]
          /\ ack_status' = [ack_status EXCEPT ![current] = TRUE]
     ELSE UNCHANGED <<result, ack_status>>
  /\ sender' = "idle" /\ current' = NULL /\ got' = << >>
  /\ said' = << >> /\ dropped' = FALSE /\ owed' = {}
  /\ UNCHANGED <<bootVars, callVars, queueVars, q_resp, due, stray, written>>

message_sending_task == Take \/ Flush \/ Write \/ ReceiveLine \/ Return

----------------------------------------------------------------------------
(* uart_reader_task, and lines that answer nothing.                        *)

uart_reader_task ==
  /\ mode = "up" /\ due # << >>
  /\ due' = Tail(due)
  /\ IF Len(q_resp) < RESP_LENGTH
     THEN q_resp' = Append(q_resp, Head(due)) /\ UNCHANGED dropped
     ELSE dropped' = (sender = "wait") /\ UNCHANGED q_resp
  /\ UNCHANGED <<bootVars, entryVars, callVars, queueVars, sendVars, result, said, stray, owed,
                 written>>

StrayLine ==
  /\ mode = "up" /\ Past("uart") /\ stray < MaxStray
  /\ due' = Append(due, [of |-> NULL, says |-> "other"])
  /\ stray' = stray + 1
  /\ UNCHANGED <<bootVars, entryVars, callVars, queueVars, sendVars, result, q_resp, said,
                 heard, written>>

Next ==
  \/ app_main
  \/ \E c \in Caller, m \in Msg : CallQueueSend(c, m) \/ NoRouter(c, m)
  \/ \E c \in Caller : Enqueue(c) \/ GiveUp(c) \/ NoQueue(c)
  \/ message_sending_task
  \/ uart_reader_task
  \/ StrayLine

Spec == Init /\ [][Next]_vars

(* The sending task is an endless loop whose waits all end, and app_main   *)
(* runs to its end.  Nothing is assumed of the chip.                       *)
FairSpec ==
  /\ Spec
  /\ WF_vars(app_main)
  /\ WF_vars(uart_reader_task)
  /\ WF_vars(message_sending_task)
  /\ \A c \in Caller : WF_vars(Enqueue(c) \/ GiveUp(c))

----------------------------------------------------------------------------
(* Properties.                                                             *)

(* An entry that says QUEUED will be sent: its id is in MessageQueue, on   *)
(* its way there, or being sent; or a full MessageQueue refused it.        *)
QueuedIsPending ==
  \A m \in Msg : transfer_status[m] = "QUEUED" =>
    \/ m \in ToSet(MessageQueue)
    \/ \E c \in Caller : calling[c] = m
    \/ current = m
    \/ m \in lost

(* The lines taken as the response to a command are its own, or answer     *)
(* nothing, or are those of an earlier command that the chip had still to  *)
(* answer when the stale lines were flushed: none that was there before is *)
(* ever taken for an answer.                                               *)
NoForeignLine == \A l \in ToSet(got) : l.of \in {current, NULL} \cup owed

(* The status of a command that was answered is ERR just when the chip's   *)
(* last telling line was an error, whatever lines that answer nothing came *)
(* between, and the ack made for it holds what the chip said to it and     *)
(* nothing of another command.  This asks that the chip was idle when the  *)
(* command was written, that no line was refused by a full q_resp, and of  *)
(* a command that is not quick that its answer was heard at all: a line    *)
(* that answers nothing makes the sender give up 100 ms later, and its     *)
(* status is then OK whatever the chip says.                               *)
OwnStatus ==
  [][\A m \in Prompt :
       (current = m /\ current' = NULL /\ said # << >> /\ ~ dropped /\ owed = {}
          /\ (m \in Quick \/ Hears(m)))
       => /\ transfer_status'[m] = IF EndsInError(said) THEN "ERR" ELSE "OK"
          /\ m \in Command => m \in result'[m] /\ result'[m] \subseteq {m, NULL}]_vars

(* The board greets nobody before the chip was told the board's address,   *)
(* or its neighbours would learn an address nobody has; unless a full      *)
(* MessageQueue refused that command.                                      *)
GreetsWithAddress == Greeting \in written => Addr \in written \cup lost

(* What is queued and not refused is sent, if the board stays up.          *)
Settles == \A m \in Msg :
  transfer_status[m] = "QUEUED" ~>
    transfer_status[m] # "QUEUED" \/ m \in lost \/ mode = "panic"
=============================================================================
