------------------------------- MODULE MCText -------------------------------
(* Every text of up to three characters, longer ones of a letter, with     *)
(* perhaps a comma at the end, and names of up to five of the characters   *)
(* that a number is made of, on their way between two pages; then blobs of *)
(* the encryption API: bytes of any two values up to a header and two, of  *)
(* one value above.  The two share nothing and take turns.                 *)
EXTENDS TextPath, SafeChars

MCTexts ==
  (SeqOf(Char, 3) \ {<< >>})
    \cup {[i \in 1 .. n |-> IF i = n THEN c ELSE "a"] : n \in 4 .. 16, c \in {"a", ","}}
    \cup {<<"SYS">> \o name : name \in SeqOf({"a", "0", ","}, 5)}
    \cup {<<"SYS">> \o name : name \in SeqOf({"a", "0", " ", "+", ","}, 4)}

Special == {NUL, 1, NEW_L, CAR_RET, ESCAPE, EMIT_N, EMIT_R}
MCTails(n) ==
  IF n <= HEADER + 1 THEN UNION {[1 .. n -> {b, c}] : b, c \in Special}
  ELSE {[i \in 1 .. n |-> b] : b \in Special}
MCLengths == 0 .. MODULUS + 8

BothInit == Init /\ SafeInit
BothNext ==
  \/ step = "start" /\ Next /\ UNCHANGED safeVars
  \/ stage = "idle" /\ SafeNext /\ UNCHANGED vars
BothSpec == BothInit /\ [][BothNext]_<<vars, safeVars>>
=============================================================================
