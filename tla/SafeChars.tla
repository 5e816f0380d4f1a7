----------------------------- MODULE SafeChars ------------------------------
(***************************************************************************)
(* The encryption API (src/encryption_api.c): a text is sealed into a blob *)
(* whose first byte is its length, the blob is written without NUL, CR and *)
(* LF, read back and opened.  The program does not call it yet; its own    *)
(* main does what this module does, once.                                  *)
(*                                                                         *)
(* The cryptography is external: header and cipher text may be any bytes,  *)
(* and a blob that comes back as it was sealed opens to what was sealed.   *)
(* Bytes are numbers below MODULUS (256); a text is its length.            *)
(***************************************************************************)
EXTENDS Naturals, Sequences, SequencesExt

CONSTANTS
  MODULUS,         \* of a uint8_t (256)
  HEADER,          \* length byte, key, nonce and mac (73)
  MAX_SIZE,        \* of the buffers (256)
  Lengths,         \* of the texts
  Tails(_),        \* what may follow the length byte of a blob of that length
  NUL, NEW_L, CAR_RET, ESCAPE,   \* these and the next are bytes
  EMIT_N, EMIT_R, EMIT_E, EMIT_NULL,
  NONE

Byte == 0 .. MODULUS - 1

ASSUME SafeCharsAssumption ==
  /\ MODULUS \in Nat \ {0} /\ HEADER \in Nat \ {0} /\ MAX_SIZE \in Nat
  /\ Lengths \subseteq Nat
  /\ \A n \in HEADER - 1 .. MAX_SIZE - 1 : Tails(n) \subseteq [1 .. n -> Byte]
  /\ {NUL, NEW_L, CAR_RET, ESCAPE, EMIT_N, EMIT_R, EMIT_E, EMIT_NULL} \subseteq Byte
  /\ ESCAPE \notin {NUL, NEW_L, CAR_RET}
  /\ NEW_L \notin {CAR_RET, NUL} /\ CAR_RET # NUL
  /\ EMIT_N \notin {EMIT_R, EMIT_E, EMIT_NULL}
  /\ EMIT_R \notin {EMIT_E, EMIT_NULL} /\ EMIT_E # EMIT_NULL
  /\ {EMIT_N, EMIT_R, EMIT_E, EMIT_NULL} \cap {NUL, NEW_L, CAR_RET} = {}

VARIABLES step, length, blob, safe, back, outcome
safeVars == <<step, length, blob, safe, back, outcome>>

SafeInit ==
  /\ step = "start" /\ length = NONE
  /\ blob = << >> /\ safe = << >> /\ back = << >> /\ outcome = NONE

Stop(how) == step' = "stop" /\ outcome' = how

(* length is a uint8_t: it is a remainder, and so is its sum with header_length. *)
encrypt_to_peer ==
  /\ step = "start"
  /\ \E n \in Lengths :
       LET short == n % MODULUS
           total == (short + HEADER) % MODULUS
       IN  /\ length' = n
           /\ IF short + HEADER > MAX_SIZE
              THEN Stop("BAD") /\ UNCHANGED blob
              ELSE /\ \E tail \in Tails(short + HEADER - 1) : blob' = <<total>> \o tail
                   /\ step' = "sealed" /\ UNCHANGED outcome
  /\ UNCHANGED <<safe, back>>

Escaped_keepsEscape(b) ==                      (* mutant: ESCAPE itself is not escaped *)
  CASE b = NEW_L -> <<ESCAPE, EMIT_N>> [] b = CAR_RET -> <<ESCAPE, EMIT_R>>
    [] b = NUL -> <<ESCAPE, EMIT_NULL>> [] OTHER -> <<b>>

Escaped(b) ==
  CASE b = NEW_L   -> <<ESCAPE, EMIT_N>>
    [] b = CAR_RET -> <<ESCAPE, EMIT_R>>
    [] b = ESCAPE  -> <<ESCAPE, EMIT_E>>
    [] b = NUL     -> <<ESCAPE, EMIT_NULL>>
    [] OTHER       -> <<b>>

SafeText(b) == FlattenSeq([i \in 1 .. Head(b) |-> Escaped(b[i])])

(* The loop goes as far as the blob's first byte says and looks at the     *)
(* size of its buffer only afterwards.                                     *)
encode_to_safe_chars ==
  /\ step = "sealed"
  /\ LET text == SafeText(blob)
     IN  CASE Len(text) > MAX_SIZE -> Stop("overrun") /\ UNCHANGED safe
           [] Len(text) = MAX_SIZE -> Stop("BAD") /\ UNCHANGED safe
           [] Len(text) < MAX_SIZE ->
                safe' = text /\ step' = "encoded" /\ UNCHANGED outcome
  /\ UNCHANGED <<length, blob, back>>

Unescaped(b) ==
  CASE b = EMIT_N    -> NEW_L
    [] b = EMIT_R    -> CAR_RET
    [] b = EMIT_NULL -> NUL
    [] OTHER         -> ESCAPE

(* A NUL in the text would end it.                                         *)
Decoded(text) ==
  LET from[i \in Nat] ==
        IF i > Len(text) \/ text[i] = NUL THEN << >>
        ELSE IF text[i] = ESCAPE
             THEN <<Unescaped(IF i < Len(text) THEN text[i + 1] ELSE NUL)>> \o from[i + 2]
             ELSE <<text[i]>> \o from[i + 1]
  IN  from[1]

decrypt_message ==
  /\ step = "encoded"
  /\ back' = Decoded(safe)
  /\ step' = "decoded"
  /\ UNCHANGED <<length, blob, safe, outcome>>

(* crypto_aead_unlock's answer is not looked at; a length byte below the   *)
(* header's length makes the text's length wrap around.  Compared are the  *)
(* text's own bytes: pt_out is never ended with a NUL, as sealing left it  *)
(* out, so that what main prints goes on with whatever lay behind.         *)
decrypt_from_peer ==
  /\ step = "decoded"
  /\ CASE back = << >> \/ Head(back) < HEADER -> Stop("overrun")
       [] back # << >> /\ Head(back) >= HEADER ->
            IF back = blob /\ Head(back) - HEADER = length THEN Stop("same") ELSE Stop("other")
  /\ UNCHANGED <<length, blob, safe, back>>

SafeNext == encrypt_to_peer \/ encode_to_safe_chars \/ decrypt_message \/ decrypt_from_peer

SafeSpec == SafeInit /\ [][SafeNext]_safeVars

----------------------------------------------------------------------------
(* Properties.                                                             *)

(* A text is not opened to another one, and if its blob cannot outgrow the *)
(* buffer by escaping it is opened to itself, as long as its length and    *)
(* the header's fit the length byte together: with a longer text the byte  *)
(* wraps, and of such a text nothing is said.  What is written has no byte *)
(* that would end it or the line it is in.                                 *)
RoundTrip ==
  /\ step = "stop" /\ length + HEADER < MODULUS =>
       /\ outcome # "other"
       /\ 2 * (length + HEADER) < MAX_SIZE => outcome = "same"
  /\ ToSet(safe) \cap {NUL, NEW_L, CAR_RET} = {}
=============================================================================
