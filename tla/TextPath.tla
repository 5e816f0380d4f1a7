------------------------------ MODULE TextPath ------------------------------
(***************************************************************************)
(* The way of a text: from the page's form through POST /send              *)
(* (src/web_server.c), into the command for the radio chip, over the air,  *)
(* through the byte reader and the parser of another board                 *)
(* (src/lora_uart.c), to its page.  What is typed is a chat message, a     *)
(* command for the chip (it starts with "AT") or a name for the board      *)
(* (SYS+NAME=, src/maintenance.c), which travels as the answer to a ping.  *)
(*                                                                         *)
(* Text is a sequence of units <<form, character>>: "raw" is the character *)
(* as such, "pct", "hi" and "lo" the three characters of a %HH; "a" stands *)
(* for any letter and "0" for any digit.  Nobody types a % (the page would *)
(* decode one in a name once more).  Heads and fields that no property     *)
(* tells apart count as a unit or two; the buffers' sizes are constants    *)
(* and shrink with them.                                                   *)
(***************************************************************************)
EXTENDS Naturals, Sequences, SequencesExt, FiniteSetsExt

CONSTANTS
  Char,            \* that can be typed; "NL" is the end of a line
  Texts,           \* that are typed: sequences of characters
  NULL,
  MESSAGE,         \* size of send_post_handler's message (250)
  PAYLOAD,         \* size of format_message_command's payload (256)
  COMMAND,         \* size of send_message_blocking's command_buffer (256)
  LINE,            \* size of uart_reader_task's line (256)
  NAME             \* size of a name (32)

ASSUME TextPathAssumption ==
  /\ {MESSAGE, PAYLOAD, COMMAND, LINE, NAME} \subseteq Nat \ {0, 1}
  /\ Texts \subseteq Seq(Char) \ {<< >>}   \* the form's field is required
  /\ NULL \notin Texts
  /\ {"CR", "LF"} \cap Char = {}           \* a typed line end is "NL"
  /\ MESSAGE + 2 <= COMMAND      \* a chip command fits
  /\ PAYLOAD < MESSAGE + 2       \* what fills message leaves no room for the fields (12 at least)

VARIABLES
  stage,           \* of the text under way
  typed,           \* the text
  content,         \* of the entry made for it
  command,         \* what of it is handed to the chip
  pending,         \* in the chip: bytes of a command whose end has not come
  line, saw_cr,    \* uart_reader_task of the other board
  received,        \* the lines it made of the frame
  shown            \* what the other board's page shows of it, or NULL
vars == <<stage, typed, content, command, pending, line, saw_cr, received, shown>>

Raw(c) == <<"raw", c>>
CR == Raw("CR")
LF == Raw("LF")
CRLF == <<CR, LF>>
NoName == <<<<"None", "">>>>
Fields == <<Raw(","), <<"origin..ack_for", "">>>>
SendHead == 1                                  \* AT+SEND=<to>,<len>,
RcvHead == <<<<"+RCV=", "">>, <<"from", "">>, <<"len", "">>>>
RcvTail == <<<<"rssi", "">>, <<"snr", "">>>>

Cut(s, size) == SubSeq(s, 1, Min({Len(s), size - 1}))
Before(s, Stop(_)) == SubSeq(s, 1, Min({i - 1 : i \in {j \in DOMAIN s : Stop(s[j])}} \cup {Len(s)}))
AsRaw(text) == FlattenSeq([i \in DOMAIN text |->
                 IF text[i] = "NL" THEN CRLF ELSE <<Raw(text[i])>>])

(* What the browser makes of a character of the form's text.               *)
Encoded(u) ==
  CASE u[2] \in {"a", "0", "AT", "SYS"} -> <<u>>
    [] u[2] = " "                  -> <<Raw("+")>>
    [] OTHER -> <<<<"pct", u[2]>>, <<"hi", u[2]>>, <<"lo", u[2]>>>>

FormBody(text) ==
  LET t == AsRaw(text) IN FlattenSeq([i \in DOMAIN t |-> Encoded(t[i])])

(* The loop that makes every + a space.                                    *)
Spaced(s) == [i \in DOMAIN s |-> IF s[i] = Raw("+") THEN Raw(" ") ELSE s[i]]

(* %HH counts only when it is whole.                                       *)
url_decode(s) ==
  LET from[i \in Nat] ==
        IF i > Len(s) THEN << >>
        ELSE IF s[i][1] = "pct" /\ i + 2 <= Len(s) THEN <<Raw(s[i][2])>> \o from[i + 3]
        ELSE <<s[i]>> \o from[i + 1]
  IN  from[1]

esc_plusLast(s) == Spaced(url_decode(s))       (* mutant: + replaced after %HH *)

(* The page, when it shows a text.                                         *)
esc(s) == url_decode(Spaced(s))

Kind == IF typed[1] \in {"AT", "SYS"} THEN typed[1] ELSE "chat"

TypeOK ==
  /\ stage \in {"idle", "typed", "stored", "sent", "heard", "done"}
  /\ typed \in Texts \cup {NULL}
  /\ (stage = "idle") = (typed = NULL)
  /\ Len(content) < MESSAGE
  /\ pending \in BOOLEAN
  /\ Len(line) < LINE /\ saw_cr \in BOOLEAN
  /\ \A l \in ToSet(received) : Len(l) < LINE

Init ==
  /\ stage = "idle" /\ typed = NULL /\ content = << >>
  /\ command = NULL /\ pending = FALSE
  /\ line = << >> /\ saw_cr = FALSE /\ received = << >>
  /\ shown = NULL

----------------------------------------------------------------------------
(* The page's form and POST /send.                                         *)

Type ==
  /\ stage = "idle"
  /\ stage' = "typed"
  /\ typed' \in Texts
  /\ UNCHANGED <<content, command, pending, line, saw_cr, received, shown>>

(* A chat message stays as the form encodes it.                            *)
ChatContent(s) == Spaced(s)

CommandContent_early(s) == Spaced(url_decode(s))  (* mutant: in the other order *)

CommandContent(s) == url_decode(Spaced(s))

(* SYS+NAME=%31[^\r\n].  Without a character that is no line end sscanf    *)
(* returns 0 and the name stays; at the end of the text it returns EOF,    *)
(* which is not 0, and the name is what the stack held.                    *)
Names(s) ==
  IF Len(s) = 1 THEN {NoName, <<Raw("a")>>}
  ELSE IF s[2] \in {CR, LF} THEN {NoName}
  ELSE {Cut(Before(Tail(s), LAMBDA u : u \in {CR, LF}), NAME)}

send_post_handler ==
  LET message == Cut(FormBody(typed), MESSAGE)
  IN  /\ stage = "typed"
      /\ stage' = "stored"
      /\ CASE Kind = "chat" -> content' = ChatContent(message)
           [] Kind = "AT"   -> content' = CommandContent(message)
           [] Kind = "SYS"  -> content' \in Names(CommandContent(message))
      /\ UNCHANGED <<typed, command, pending, line, saw_cr, received, shown>>

----------------------------------------------------------------------------
(* send_message_blocking and format_message_command: the content and its   *)
(* fields are cut at the end of payload, the command at the end of         *)
(* command_buffer, but the lengths are those of the whole.  What is        *)
(* written past the buffer is whatever lies there.                         *)

payload == content \o Fields

format_message_command ==
  LET data == Cut(payload, PAYLOAD)
      fits == SendHead + Len(data) + 2 < COMMAND
  IN  [data |-> Cut(data, COMMAND - SendHead), told |-> Len(payload), ended |-> fits,
       alone |-> ~ pending]

send_message_blocking ==
  /\ stage = "stored"
  /\ stage' = "sent"
  /\ command' = IF Kind = "AT"
                THEN [data |-> content, told |-> Len(content), ended |-> TRUE, alone |-> ~ pending]
                ELSE format_message_command
  /\ UNCHANGED <<typed, content, pending, line, saw_cr, received, shown>>

(* The chip takes a command that starts where the one before ended, comes  *)
(* to its end, and is as long as it says.                                  *)
Taken == command.alone /\ command.ended /\ command.told = Len(command.data)

(* Its frame as the other board's chip puts it out, perhaps after a line   *)
(* end too many.                                                           *)
Bytes == {extra \o RcvHead \o command.data \o RcvTail \o CRLF :
            extra \in {<< >>, <<LF>>, CRLF}}

----------------------------------------------------------------------------
(* uart_reader_task, a byte at a time.                                     *)

HasRoom_off(l) == Len(l) < LINE                (* mutant: no room for the end *)

HasRoom(l) == Len(l) < LINE - 1

ReadByte(state, byte) ==
  CASE state.line = << >> /\ byte \in {CR, LF} -> state
    [] state.line # << >> /\ byte = CR -> [state EXCEPT !.saw_cr = TRUE]
    [] state.line # << >> /\ byte = LF /\ state.saw_cr ->
         [line |-> << >>, saw_cr |-> FALSE, out |-> Append(state.out, state.line)]
    [] OTHER ->
         [state EXCEPT !.saw_cr = FALSE,
                       !.line = IF HasRoom(@) THEN Append(@, byte) ELSE << >>]

Air ==
  /\ stage = "sent" /\ Kind # "AT" /\ Taken
  /\ stage' = "heard"
  /\ \E bytes \in Bytes :
       LET read == FoldLeft(ReadByte, [line |-> line, saw_cr |-> saw_cr, out |-> << >>], bytes)
       IN  line' = read.line /\ saw_cr' = read.saw_cr /\ received' = read.out
  /\ UNCHANGED <<typed, content, command, pending, shown>>

(* A command for the chip, or one that it refuses.  What has no end stays  *)
(* with the chip and spoils the next.                                      *)
Refuse ==
  /\ stage = "sent" /\ (Kind = "AT" \/ ~ Taken)
  /\ stage' = "done"
  /\ pending' = ~ command.ended
  /\ UNCHANGED <<typed, content, command, line, saw_cr, received, shown>>

----------------------------------------------------------------------------
(* parse_rcv_line and the page.                                            *)

IsFrame(l) == IsPrefix(RcvHead, l)
Body(l) == SubSeq(l, Len(RcvHead) + 1, Len(l))

Commas(s) == {i \in DOMAIN s : s[i] = Raw(",")}
UpToComma(s) == Before(s, LAMBDA u : u = Raw(","))
FieldAfter(s, i) == UpToComma(SubSeq(s, i + 1, Len(s)))

(* What %[^,] reads, and the content that was sent.                        *)
data(l) == UpToComma(Body(l))
Sent(l) == SubSeq(Body(l), 1, Len(Body(l)) - Len(Fields) - Len(RcvTail))

(* %hd and %d: blanks, a sign, digits.                                     *)
Number(field) ==
  \E first \in DOMAIN field :
    /\ \A i \in DOMAIN field : i >= first => field[i] = Raw("0")
    /\ \A i \in DOMAIN field : i < first =>
         field[i] = Raw(" ") \/ (i = first - 1 /\ field[i] = Raw("+"))

StartsWithNumber(field) == \E n \in DOMAIN field : Number(SubSeq(field, 1, n))

Scanned_any(l) == data(l) # << >>              (* mutant: the fields are not counted *)

(* Eleven items are read: %250[^,] wants a character, and eight numbers    *)
(* follow.  A comma in the content ends data there and shifts the fields:  *)
(* what follows it is read as the first of the eight, of which the last    *)
(* need only start with a number, and what is left of the frame's own      *)
(* fields nobody looks at.                                                 *)
Scanned(l) ==
  /\ data(l) # << >>
  /\ \A i \in Commas(Sent(l)) :
       LET nth == Cardinality({j \in Commas(Sent(l)) : j <= i})
       IN  /\ nth < 8 => Number(FieldAfter(Sent(l), i))
           /\ nth = 8 => StartsWithNumber(FieldAfter(Sent(l), i))

(* Of the lines; what is cut off a frame that is too long is none.         *)
Frames == {l \in ToSet(received) : IsFrame(l) /\ Scanned(l)}

(* The content is put between quotes in the JSON as it is.                 *)
Valid(s) == ToSet(s) \cap {Raw("QUOTE"), CR, LF} = {}

(* Shifted fields make a message of another type and other ids, which may  *)
(* be shown or not.                                                        *)
ShownOf(l) ==
  {IF Valid(data(l)) THEN esc(data(l)) ELSE NULL}
    \cup {x \in {NULL} : Commas(Sent(l)) # {}}

Show ==
  /\ stage = "heard"
  /\ stage' = "done"
  /\ shown' \in IF Frames = {} THEN {NULL} ELSE UNION {ShownOf(l) : l \in Frames}
  /\ UNCHANGED <<typed, content, command, pending, line, saw_cr, received>>

Done ==
  /\ stage = "done"
  /\ stage' = "idle"
  /\ typed' = NULL /\ content' = << >> /\ command' = NULL /\ received' = << >> /\ shown' = NULL
  /\ UNCHANGED <<pending, line, saw_cr>>

Next == Type \/ send_post_handler \/ send_message_blocking \/ Air \/ Refuse \/ Show \/ Done

Spec == Init /\ [][Next]_vars

----------------------------------------------------------------------------
(* Properties.                                                             *)

(* A chat message is shown as it was typed or not at all: the three        *)
(* buffers that cut it cut its end off the command too.                    *)
WholeOrNothing ==
  stage = "done" /\ Kind = "chat" /\ shown # NULL => shown = AsRaw(typed)

Short(text) ==
  LET n == Len(FormBody(text)) + Len(Fields)
  IN  /\ n < PAYLOAD /\ SendHead + n + 2 < COMMAND
      /\ Len(RcvHead) + n + Len(RcvTail) < LINE

(* What fits all buffers arrives: a chat message is shown, whatever line   *)
(* ends and tails of overlong lines came before it, unless the one before  *)
(* it was too long for the chip to see its end; and the chip gets the      *)
(* command that was typed.                                                 *)
ShortArrives ==
  /\ stage = "done" /\ Kind = "chat" /\ Short(typed) /\ command.alone => shown = AsRaw(typed)
  /\ stage = "sent" /\ Kind = "AT" /\ Len(FormBody(typed)) < MESSAGE =>
       command.data = AsRaw(typed)

(* A name is shown as it was typed, up to its size and with each + as the  *)
(* blank the page makes of it, or not at all.  A comma ends it: what       *)
(* follows is lost when it is a number, which is taken for the first of    *)
(* the frame's fields, and hides the name when it is anything else.        *)
NameOrNothing ==
  stage = "done" /\ Kind = "SYS" /\ shown \notin {NULL, NoName}
    /\ Len(typed) > 1 /\ Len(FormBody(typed)) < MESSAGE =>
      LET name == Cut(Before(Tail(AsRaw(typed)), LAMBDA u : u = CR), NAME)
      IN  /\ shown = Spaced(UpToComma(name))
          /\ \A i \in Commas(name) :
               (\A j \in Commas(name) : i <= j) => Number(FieldAfter(name, i))
=============================================================================
