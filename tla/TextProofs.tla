----------------------------- MODULE TextProofs ------------------------------
(***************************************************************************)
(* Theorems about TextPath and SafeChars, for texts of any length over any *)
(* characters, buffers of any sizes and any bytes of a blob.               *)
(*                                                                         *)
(* Both modules code a sequence block by block and decode it one unit at a *)
(* time.  So the first part is about sequences of sequences in one and     *)
(* about decoders: one that reads each block as its unit reads all of them *)
(* as they were.  Then come the form's coding, the byte reader as a fold,  *)
(* the buffers' cuts and the frame; the inductive invariant TextInv with   *)
(* what follows from it; and the encryption API's SafeInv.                 *)
(***************************************************************************)
EXTENDS TextPath, SafeChars, TLAPS, SequenceTheorems, FiniteSetTheorems, WellFoundedInduction

(* The buffers' sizes, one by one.                                         *)
LEMMA Sizes ==
  /\ MESSAGE \in Nat \ {0, 1} /\ PAYLOAD \in Nat \ {0, 1} /\ COMMAND \in Nat \ {0, 1}
  /\ LINE \in Nat \ {0, 1} /\ NAME \in Nat \ {0, 1}
  /\ MESSAGE + 2 <= COMMAND /\ PAYLOAD < MESSAGE + 2
BY TextPathAssumption

(* A non-empty set of numbers has a least one.                             *)
LEMMA Least ==
  ASSUME NEW S \in SUBSET Nat, S # {}
  PROVE  \E i \in S : \A j \in S : i <= j
<1>1. PICK i \in S : \A j \in S : ~ (<<j, i>> \in OpToRel(<, Nat))
  BY NatLessThanWellFounded, WFMin, Zenon
<1>2. ASSUME NEW j \in S PROVE i <= j
  <2>1. CASE j < i
    <3>1. <<j, i>> \in {ss \in Nat \X Nat : ss[1] < ss[2]}  BY <2>1, SMT
    <3>. QED  BY <3>1, <1>1, Zenon DEF OpToRel
  <2>2. CASE ~ (j < i)  BY <2>2, SMT
  <2>. QED  BY <2>1, <2>2
<1>. QED  BY <1>2

----------------------------------------------------------------------------
(* Sequences of sequences in one.                                          *)

(* flat[i] is the first i sequences of q in one.                           *)
Flattening(flat, q, last) ==
  flat = [i \in 1 .. last |-> IF i = 1 THEN q[i] ELSE flat[i - 1] \o q[i]]

(* What FlattenSeq chooses is there to be chosen.                          *)
LEMMA FlatteningExists ==
  ASSUME NEW q, NEW last \in Nat
  PROVE  \E flat : Flattening(flat, q, last)
<1>. DEFINE Bad == {k \in Nat : ~ \E flat : Flattening(flat, q, k)}
<1>. SUFFICES ASSUME Bad # {} PROVE FALSE  OBVIOUS
<1>1. PICK k \in Bad : \A j \in Bad : k <= j
  <2>1. Bad \in SUBSET Nat  OBVIOUS
  <2>. HIDE DEF Bad
  <2>. QED  BY <2>1, Least
<1>2. k # 0
  <2>1. Flattening([i \in 1 .. 0 |-> q[i]], q, 0)  BY DEF Flattening
  <2>. QED  BY <2>1
<1>3. PICK g : Flattening(g, q, k - 1)
  <2>1. k - 1 \in Nat /\ ~ (k <= k - 1)  BY <1>2
  <2>. QED  BY <1>1, <2>1
<1>. DEFINE h == [i \in 1 .. k |-> IF i < k THEN g[i]
                                   ELSE IF k = 1 THEN q[k] ELSE g[k - 1] \o q[k]]
<1>4. Flattening(h, q, k)
  <2>1. \A i \in 1 .. k - 1 : g[i] = IF i = 1 THEN q[i] ELSE g[i - 1] \o q[i]
    BY <1>3 DEF Flattening
  <2>2. ASSUME NEW i \in 1 .. k
        PROVE  h[i] = IF i = 1 THEN q[i] ELSE h[i - 1] \o q[i]
    <3>1. CASE i < k
      <4>1. i \in 1 .. k - 1 /\ (i # 1 => i - 1 \in 1 .. k /\ i - 1 < k)  BY <3>1
      <4>. QED  BY <2>1, <3>1, <4>1
    <3>2. CASE i = k
      <4>1. i # 1 => i - 1 \in 1 .. k /\ i - 1 < k  OBVIOUS
      <4>. QED  BY <3>2, <4>1
    <3>. QED  BY <3>1, <3>2
  <2>. QED  BY <2>2 DEF Flattening
<1>. QED  BY <1>4

(* FlattenSeq is the last of these.                                        *)
LEMMA FlattenIsFlattening ==
  ASSUME NEW q, NEW n \in Nat \ {0}, n = Len(q)
  PROVE  \E flat : Flattening(flat, q, n) /\ FlattenSeq(q) = flat[n]
<1>. DEFINE flat == CHOOSE g : Flattening(g, q, n)
<1>1. Flattening(flat, q, n)  BY FlatteningExists
<1>2. FlattenSeq(q) = flat[n]  BY DEF FlattenSeq, Flattening
<1>. QED  BY <1>1, <1>2

(* The first i sequences begin with the first h.                           *)
Grown(flat, q, U, i) ==
  /\ flat[i] \in Seq(U)
  /\ i > 1 => /\ Len(flat[i]) = Len(flat[i - 1]) + Len(q[i])
              /\ \A j \in 1 .. Len(q[i]) : flat[i][Len(flat[i - 1]) + j] = q[i][j]
  /\ \A h \in 1 .. i : /\ flat[h] \in Seq(U)
                       /\ Len(flat[h]) <= Len(flat[i])
                       /\ \A j \in 1 .. Len(flat[h]) : flat[i][j] = flat[h][j]

(* One sequence more.                                                      *)
LEMMA GrownStep ==
  ASSUME NEW U, NEW q, NEW flat, NEW i \in Nat, i > 1, Grown(flat, q, U, i - 1),
         q[i] \in Seq(U), flat[i] = flat[i - 1] \o q[i]
  PROVE  Grown(flat, q, U, i)
<1>. DEFINE a == flat[i - 1]
            b == q[i]
            c == flat[i]
<1>1. a \in Seq(U) /\ b \in Seq(U) /\ c = a \o b  BY DEF Grown
<1>2. \A h \in 1 .. i - 1 : /\ flat[h] \in Seq(U)
                            /\ Len(flat[h]) <= Len(a)
                            /\ \A j \in 1 .. Len(flat[h]) : a[j] = flat[h][j]
  BY DEF Grown
<1>. HIDE DEF a, b, c
<1>3. /\ c \in Seq(U)
      /\ Len(c) = Len(a) + Len(b)
      /\ \A j \in 1 .. Len(a) + Len(b) : c[j] = IF j <= Len(a) THEN a[j] ELSE b[j - Len(a)]
  BY <1>1, ConcatProperties
<1>4. Len(a) \in Nat /\ Len(b) \in Nat /\ Len(c) \in Nat  BY <1>1, <1>3, LenProperties
<1>5. \A j \in 1 .. Len(b) : c[Len(a) + j] = b[j]
  <2>1. ASSUME NEW j \in 1 .. Len(b) PROVE c[Len(a) + j] = b[j]
    <3>1. Len(a) + j \in 1 .. Len(a) + Len(b) /\ ~ (Len(a) + j <= Len(a))
          /\ Len(a) + j - Len(a) = j
      BY <1>4
    <3>. QED  BY <1>3, <3>1
  <2>. QED  BY <2>1
<1>6. ASSUME NEW h \in 1 .. i
      PROVE  /\ flat[h] \in Seq(U)
             /\ Len(flat[h]) <= Len(c)
             /\ \A j \in 1 .. Len(flat[h]) : c[j] = flat[h][j]
  <2>1. CASE h = i
    <3>1. flat[h] = c  BY <2>1 DEF c
    <3>. QED  BY <1>3, <1>4, <3>1
  <2>2. CASE h # i
    <3>1. h \in 1 .. i - 1  BY <2>2
    <3>2. flat[h] \in Seq(U) /\ Len(flat[h]) \in Nat /\ Len(flat[h]) <= Len(a)
      BY <1>2, <3>1, LenProperties
    <3>3. ASSUME NEW j \in 1 .. Len(flat[h]) PROVE c[j] = flat[h][j]
      <4>1. j \in 1 .. Len(a) + Len(b) /\ j <= Len(a)  BY <1>4, <3>2
      <4>. QED  BY <1>2, <1>3, <3>1, <4>1
    <3>4. Len(flat[h]) <= Len(c)  BY <1>3, <1>4, <3>2
    <3>. QED  BY <3>2, <3>3, <3>4
  <2>. QED  BY <2>1, <2>2
<1>. QED  BY <1>3, <1>5, <1>6 DEF Grown, a, b, c

(* Every one of them, by the least that would not be.                      *)
LEMMA AllGrown ==
  ASSUME NEW U, NEW q, NEW n \in Nat \ {0}, NEW flat, Flattening(flat, q, n),
         \A i \in 1 .. n : q[i] \in Seq(U)
  PROVE  \A i \in 1 .. n : Grown(flat, q, U, i)
<1>. DEFINE Bad == {i \in 1 .. n : ~ Grown(flat, q, U, i)}
<1>1. \A i \in 1 .. n : flat[i] = IF i = 1 THEN q[i] ELSE flat[i - 1] \o q[i]
  BY DEF Flattening
<1>2. Grown(flat, q, U, 1)
  <2>1. flat[1] = q[1] /\ flat[1] \in Seq(U)  BY <1>1
  <2>2. Len(flat[1]) \in Nat  BY <2>1, LenProperties
  <2>3. \A h \in 1 .. 1 : h = 1  OBVIOUS
  <2>. QED  BY <2>1, <2>2, <2>3 DEF Grown
<1>3. ASSUME Bad # {} PROVE FALSE
  <2>1. PICK i \in Bad : \A j \in Bad : i <= j
    <3>1. Bad \in SUBSET Nat  OBVIOUS
    <3>. HIDE DEF Bad
    <3>. QED  BY <1>3, <3>1, Least
  <2>2. i \in 1 .. n /\ i # 1  BY <1>2, <2>1
  <2>3. i - 1 \in 1 .. n /\ ~ (i <= i - 1) /\ i > 1 /\ i \in Nat  BY <2>2
  <2>4. Grown(flat, q, U, i - 1)  BY <2>1, <2>3
  <2>5. Grown(flat, q, U, i)  BY <1>1, <2>2, <2>3, <2>4, GrownStep
  <2>. QED  BY <2>1, <2>5
<1>. QED  BY <1>3

(* Where each sequence of q is in FlattenSeq(q): after the at[i - 1] units *)
(* of those before it.                                                     *)
Laid(at, q) ==
  /\ at \in [0 .. Len(q) -> Nat]
  /\ at[0] = 0
  /\ \A i \in 1 .. Len(q) : at[i] = at[i - 1] + Len(q[i])
  /\ \A i \in 0 .. Len(q) : at[i] <= at[Len(q)]
  /\ Len(FlattenSeq(q)) = at[Len(q)]
  /\ \A i \in 1 .. Len(q) : \A j \in 1 .. Len(q[i]) : FlattenSeq(q)[at[i - 1] + j] = q[i][j]

(* FlattenSeq puts its sequences one after the other.                      *)
LEMMA FlattenLays ==
  ASSUME NEW U, NEW q \in Seq(Seq(U))
  PROVE  /\ FlattenSeq(q) \in Seq(U)
         /\ \E at : Laid(at, q)
<1>1. CASE q = << >>
  <2>1. FlattenSeq(q) = << >> /\ Len(q) = 0  BY <1>1 DEF FlattenSeq
  <2>2. Laid([i \in 0 .. 0 |-> 0], q)  BY <2>1 DEF Laid
  <2>. QED  BY <2>1, <2>2
<1>2. CASE q # << >>
  <2>1. Len(q) \in Nat \ {0} /\ \A i \in 1 .. Len(q) : q[i] \in Seq(U)
    BY <1>2, EmptySeq, ElementOfSeq
  <2>2. PICK n : n = Len(q)  OBVIOUS
  <2>3. PICK flat : Flattening(flat, q, n) /\ FlattenSeq(q) = flat[n]
    BY <2>1, <2>2, FlattenIsFlattening
  <2>4. \A i \in 1 .. n : Grown(flat, q, U, i)  BY <2>1, <2>2, <2>3, AllGrown
  <2>5. \A i \in 1 .. n : flat[i] \in Seq(U) /\ Len(flat[i]) \in Nat
    BY <2>4, LenProperties DEF Grown
  <2>6. flat[1] = q[1]  BY <2>1, <2>2, <2>3 DEF Flattening
  <2>. DEFINE at == [i \in 0 .. n |-> IF i = 0 THEN 0 ELSE Len(flat[i])]
  <2>7. /\ at \in [0 .. n -> Nat]
        /\ at[0] = 0
        /\ \A i \in 1 .. n : at[i] = Len(flat[i])
    BY <2>1, <2>2, <2>5
  <2>. HIDE DEF at
  <2>8. ASSUME NEW i \in 1 .. n
        PROVE  /\ at[i] = at[i - 1] + Len(q[i])
               /\ \A j \in 1 .. Len(q[i]) : flat[i][at[i - 1] + j] = q[i][j]
    <3>1. q[i] \in Seq(U) /\ Len(q[i]) \in Nat  BY <2>1, <2>2, LenProperties
    <3>2. CASE i = 1
      <4>1. \A j \in 1 .. Len(q[i]) : 0 + j = j  BY <3>1
      <4>. QED  BY <2>6, <2>7, <3>1, <3>2, <4>1
    <3>3. CASE i # 1
      <4>1. i - 1 \in 1 .. n /\ i > 1  BY <2>1, <2>2, <3>3
      <4>. QED  BY <2>4, <2>7, <4>1 DEF Grown
    <3>. QED  BY <3>2, <3>3
  <2>9. n \in 1 .. n  BY <2>1, <2>2
  <2>10. \A i \in 1 .. n : /\ Len(flat[i]) <= Len(flat[n])
                           /\ \A j \in 1 .. Len(flat[i]) : flat[n][j] = flat[i][j]
    BY <2>4, <2>9 DEF Grown
  <2>11. \A i \in 0 .. n : at[i] <= at[n]
    <3>1. \A i \in 0 .. n : i = 0 \/ i \in 1 .. n  BY <2>1, <2>2
    <3>. QED  BY <2>5, <2>7, <2>9, <2>10, <3>1
  <2>12. ASSUME NEW i \in 1 .. n, NEW j \in 1 .. Len(q[i])
         PROVE  flat[n][at[i - 1] + j] = q[i][j]
    <3>1. Len(q[i]) \in Nat /\ at[i - 1] \in Nat /\ at[i] \in Nat
      <4>1. i - 1 \in 0 .. n /\ i \in 0 .. n  BY <2>1, <2>2
      <4>. QED  BY <2>1, <2>2, <2>7, <4>1, LenProperties
    <3>2. at[i - 1] + j \in 1 .. Len(flat[i])  BY <2>7, <2>8, <3>1
    <3>. QED  BY <2>8, <2>10, <3>2
  <2>13. Laid(at, q)
    <3>1. Len(FlattenSeq(q)) = at[n]  BY <2>3, <2>7, <2>9
    <3>2. \A i \in 1 .. n : at[i] = at[i - 1] + Len(q[i])  BY <2>8
    <3>3. \A i \in 1 .. n : \A j \in 1 .. Len(q[i]) : FlattenSeq(q)[at[i - 1] + j] = q[i][j]
      BY <2>3, <2>12
    <3>. QED  BY <2>2, <2>7, <2>11, <3>1, <3>2, <3>3, Zenon DEF Laid
  <2>. QED  BY <2>3, <2>5, <2>9, <2>13
<1>. QED  BY <1>1, <1>2

----------------------------------------------------------------------------
(* What a decoder makes of a text of n units: at i it yields one unit and  *)
(* goes w[i] units on, or stops.                                           *)

Decoding(f, n, halt, y, w) ==
  f = [i \in Nat |-> IF i > n \/ i \in halt THEN << >> ELSE <<y[i]>> \o f[i + w[i]]]

(* What such a decoder chooses is there to be chosen, from the end of the  *)
(* text up.                                                                *)
LEMMA DecodingExists ==
  ASSUME NEW n \in Nat, NEW halt, NEW y, NEW w, \A i \in 0 .. n : w[i] \in Nat \ {0}
  PROVE  \E f : Decoding(f, n, halt, y, w)
<1>. DEFINE At(f, i) == IF i > n \/ i \in halt THEN << >> ELSE <<y[i]>> \o f[i + w[i]]
            Down(f, k) == DOMAIN f = Nat /\ f = [i \in Nat |-> f[i]]
                          /\ \A i \in Nat : i + k > n => f[i] = At(f, i)
            Bad == {k \in 0 .. n + 1 : ~ \E f : Down(f, k)}
<1>1. ASSUME Bad # {} PROVE FALSE
  <2>1. PICK k \in Bad : \A j \in Bad : k <= j
    <3>1. Bad \in SUBSET Nat  OBVIOUS
    <3>. HIDE DEF Bad
    <3>. QED  BY <1>1, <3>1, Least
  <2>2. k # 0
    <3>1. Down([i \in Nat |-> << >>], 0)  OBVIOUS
    <3>. QED  BY <2>1, <3>1
  <2>3. PICK f : Down(f, k - 1)
    <3>1. k - 1 \in 0 .. n + 1 /\ ~ (k <= k - 1)  BY <2>1, <2>2
    <3>. QED  BY <2>1, <3>1
  <2>. DEFINE p == n + 1 - k
              h == [i \in Nat |-> IF i = p THEN At(f, p) ELSE f[i]]
  <2>4. p \in 0 .. n  BY <2>1, <2>2
  <2>5. ASSUME NEW i \in Nat, i + k > n
        PROVE  h[i] = At(h, i)
    <3>1. i >= p  BY <2>1, <2>5
    <3>2. CASE i > n
      <4>1. i # p /\ i + (k - 1) > n  BY <2>1, <2>2, <2>4, <3>2
      <4>. HIDE DEF p
      <4>2. h[i] = f[i]  BY <4>1
      <4>. QED  BY <2>3, <3>2, <4>1, <4>2
    <3>3. CASE i <= n
      <4>1. w[i] \in Nat \ {0} /\ i + w[i] \in Nat /\ i + w[i] # p  BY <2>4, <3>1, <3>3
      <4>. HIDE DEF p
      <4>2. h[i + w[i]] = f[i + w[i]]  BY <4>1
      <4>3. At(h, i) = At(f, i)  BY <4>2
      <4>4. CASE i = p
        <5>1. h[i] = At(f, p)  BY <4>4
        <5>2. At(f, p) = At(f, i)  BY <4>4
        <5>. HIDE DEF At, h
        <5>. QED  BY <4>3, <5>1, <5>2
      <4>5. CASE i # p
        <5>1. i + (k - 1) > n  BY <2>1, <2>4, <3>1, <4>5 DEF p
        <5>. QED  BY <2>3, <4>3, <4>5, <5>1
      <4>. QED  BY <4>4, <4>5
    <3>. QED  BY <3>2, <3>3
  <2>6. Down(h, k)
    <3>1. DOMAIN h = Nat /\ h = [i \in Nat |-> h[i]]  OBVIOUS
    <3>. HIDE DEF h, At
    <3>. QED  BY <2>5, <3>1
  <2>. QED  BY <2>1, <2>6
<1>2. PICK f : Down(f, n + 1)
  <2>1. n + 1 \in 0 .. n + 1  OBVIOUS
  <2>. QED  BY <1>1, <2>1
<1>3. \A i \in Nat : i + (n + 1) > n  OBVIOUS
<1>4. f = [i \in Nat |-> At(f, i)]  BY <1>2, <1>3
<1>. QED  BY <1>4 DEF Decoding

(* A text made of blocks is decoded to u if each block is to its unit.     *)
LEMMA BlocksDecode ==
  ASSUME NEW V, NEW u \in Seq(V), NEW at \in [0 .. Len(u) -> Nat], NEW f,
         f[at[Len(u)] + 1] = << >>,
         \A i \in 1 .. Len(u) : f[at[i - 1] + 1] = <<u[i]>> \o f[at[i] + 1]
  PROVE  f[at[0] + 1] = u
<1>. DEFINE n == Len(u)
            Bad == {k \in 0 .. n : f[at[n - k] + 1] # SubSeq(u, n - k + 1, n)}
<1>1. n \in Nat  BY LenProperties
<1>2. ASSUME Bad # {} PROVE FALSE
  <2>1. PICK k \in Bad : \A j \in Bad : k <= j
    <3>1. Bad \in SUBSET Nat  BY <1>1
    <3>. HIDE DEF Bad
    <3>. QED  BY <1>2, <3>1, Least
  <2>2. k # 0
    <3>1. SubSeq(u, n + 1, n) = << >>  BY <1>1, SubSeqEmpty
    <3>2. n - 0 = n  BY <1>1
    <3>. QED  BY <2>1, <3>1, <3>2
  <2>. DEFINE i == n - k + 1
  <2>3. i \in 1 .. n /\ k - 1 \in 0 .. n /\ ~ (k <= k - 1) /\ n - (k - 1) = i /\ n - k = i - 1
    BY <1>1, <2>1, <2>2
  <2>4. f[at[i] + 1] = SubSeq(u, i + 1, n)  BY <2>1, <2>3
  <2>5. SubSeq(u, i, n) = <<u[i]>> \o SubSeq(u, i + 1, n)
    <3>1. i \in 1 .. Len(u) /\ Len(u) \in i .. Len(u)  BY <1>1, <2>3
    <3>. HIDE DEF i
    <3>2. SubSeq(u, i, Len(u)) = <<u[i]>> \o SubSeq(u, i + 1, Len(u))
      BY <3>1, SubSeqRecursiveFirst
    <3>. QED  BY <3>2
  <2>6. f[at[i - 1] + 1] = SubSeq(u, i, n)  BY <2>3, <2>4, <2>5
  <2>. QED  BY <2>1, <2>3, <2>6
<1>3. f[at[n - n] + 1] = SubSeq(u, n - n + 1, n)
  <2>1. n \in 0 .. n  BY <1>1
  <2>. QED  BY <1>2, <2>1
<1>4. n - n = 0 /\ n - n + 1 = 1  BY <1>1
<1>. QED  BY <1>3, <1>4, SubSeqFull

----------------------------------------------------------------------------
(* The codings of the form and of the page.                                *)

Typeable == Char \cup {"CR", "LF"}

RawUnit == {Raw(c) : c \in Typeable}

Plus  == Raw("+")
Space == Raw(" ")
Pct(u) == <<"pct", u[2]>>
Hi(u)  == <<"hi", u[2]>>
Lo(u)  == <<"lo", u[2]>>

(* What the form is made of, and what is left when + has become a space.   *)
Plain  == {"a", "0", "AT", "SYS"}
Escape == {"pct", "hi", "lo"} \X Typeable
FormUnit == {Raw(c) : c \in Plain \cup {"+"}} \cup Escape
SentUnit == {Raw(c) : c \in Plain \cup {" "}} \cup Escape

(* Some place of a flattened sequence is in some block.                    *)
InBlock(p, at, q) == \E i \in 1 .. Len(q) : \E j \in 1 .. Len(q[i]) : p = at[i - 1] + j

(* No place of the flattened sequence is outside the blocks.               *)
LEMMA LaidPlace ==
  ASSUME NEW q, NEW at, Laid(at, q), Len(q) \in Nat, \A i \in 1 .. Len(q) : Len(q[i]) \in Nat,
         NEW p \in 1 .. Len(FlattenSeq(q))
  PROVE  InBlock(p, at, q)
<1>. DEFINE n == Len(q)
            S == {i \in 0 .. n : p <= at[i]}
<1>1. n \in Nat /\ p \in Nat \ {0} /\ p <= at[n]
  <2>1. n \in Nat  OBVIOUS
  <2>2. at[n] \in Nat /\ Len(FlattenSeq(q)) = at[n]  BY <2>1 DEF Laid
  <2>. QED  BY <2>1, <2>2
<1>2. PICK i \in S : \A h \in S : i <= h
  <2>1. S \in SUBSET Nat /\ n \in S  BY <1>1
  <2>. HIDE DEF S
  <2>. QED  BY <2>1, Least
<1>3. i # 0  BY <1>1, <1>2 DEF Laid
<1>4. i \in 1 .. n /\ i - 1 \in 0 .. n /\ ~ (i <= i - 1)  BY <1>1, <1>2, <1>3
<1>5. p <= at[i] /\ ~ (p <= at[i - 1])  BY <1>2, <1>4
<1>6. at[i] \in Nat /\ at[i - 1] \in Nat /\ at[i] = at[i - 1] + Len(q[i])
  BY <1>1, <1>4 DEF Laid
<1>7. Len(q[i]) \in Nat  BY <1>4
<1>8. p - at[i - 1] \in 1 .. Len(q[i]) /\ p = at[i - 1] + (p - at[i - 1])
  BY <1>1, <1>5, <1>6, <1>7
<1>. QED  BY <1>4, <1>8 DEF InBlock

RawBlocks(text) == [i \in DOMAIN text |-> IF text[i] = "NL" THEN CRLF ELSE <<Raw(text[i])>>]

(* A text's characters, one block each.                                    *)
LEMMA RawBlocksType ==
  ASSUME NEW text \in Seq(Char)
  PROVE  /\ RawBlocks(text) \in Seq(Seq(RawUnit))
         /\ Len(RawBlocks(text)) = Len(text)
         /\ \A i \in 1 .. Len(text) :
              RawBlocks(text)[i] = IF text[i] = "NL" THEN CRLF ELSE <<Raw(text[i])>>
         /\ AsRaw(text) = FlattenSeq(RawBlocks(text))
<1>1. /\ Len(text) \in Nat /\ DOMAIN text = 1 .. Len(text)
      /\ \A i \in 1 .. Len(text) : text[i] \in Char
  BY LenProperties, ElementOfSeq
<1>2. CRLF \in Seq(RawUnit)
  <2>1. CR \in RawUnit /\ LF \in RawUnit  BY DEF CR, LF, RawUnit, Typeable
  <2>. QED  BY <2>1 DEF CRLF
<1>3. \A i \in 1 .. Len(text) : <<Raw(text[i])>> \in Seq(RawUnit)
  <2>1. \A i \in 1 .. Len(text) : Raw(text[i]) \in RawUnit  BY <1>1 DEF RawUnit, Typeable
  <2>. QED  BY <2>1
<1>4. \A i \in 1 .. Len(text) : RawBlocks(text)[i] \in Seq(RawUnit)
  BY <1>1, <1>2, <1>3 DEF RawBlocks
<1>5. RawBlocks(text) \in [1 .. Len(text) -> Seq(RawUnit)]  BY <1>1, <1>4 DEF RawBlocks
<1>6. RawBlocks(text) \in Seq(Seq(RawUnit)) /\ Len(RawBlocks(text)) = Len(text)
  BY <1>1, <1>5
<1>. QED  BY <1>1, <1>6 DEF RawBlocks, AsRaw

(* A text's raw form is of raw characters; each LF in it follows a CR.     *)
LEMMA AsRawType ==
  ASSUME NEW text \in Seq(Char)
  PROVE  /\ AsRaw(text) \in Seq(RawUnit)
         /\ Len(AsRaw(text)) >= Len(text)
         /\ \A p \in 1 .. Len(AsRaw(text)) :
              AsRaw(text)[p] = LF => p > 1 /\ AsRaw(text)[p - 1] = CR
<1>. DEFINE q == RawBlocks(text)
            n == Len(text)
            s == AsRaw(text)
<1>1. /\ q \in Seq(Seq(RawUnit)) /\ Len(q) = n /\ s = FlattenSeq(q)
      /\ \A i \in 1 .. n : q[i] = IF text[i] = "NL" THEN CRLF ELSE <<Raw(text[i])>>
  BY RawBlocksType
<1>2. n \in Nat /\ \A i \in 1 .. n : text[i] \in Char  BY LenProperties, ElementOfSeq
<1>. HIDE DEF q, s, n
<1>3. s \in Seq(RawUnit)  BY <1>1, FlattenLays
<1>4. PICK at : Laid(at, q)  BY <1>1, FlattenLays
<1>5. \A i \in 1 .. n : Len(q[i]) >= 1 /\ Len(q[i]) \in Nat
  <2>1. Len(CRLF) = 2  BY DEF CRLF
  <2>2. \A c : Len(<<Raw(c)>>) = 1  OBVIOUS
  <2>3. ASSUME NEW i \in 1 .. n PROVE Len(q[i]) = 1 \/ Len(q[i]) = 2
    <3>1. q[i] = CRLF \/ q[i] = <<Raw(text[i])>>  BY <1>1
    <3>. QED  BY <2>1, <2>2, <3>1
  <2>. QED  BY <2>3
<1>6. Len(s) >= n
  <2>. DEFINE Bad == {i \in 0 .. n : ~ (at[i] >= i)}
  <2>1. ASSUME Bad # {} PROVE FALSE
    <3>1. PICK i \in Bad : \A j \in Bad : i <= j
      <4>1. Bad \in SUBSET Nat  BY <1>2
      <4>. HIDE DEF Bad
      <4>. QED  BY <2>1, <4>1, Least
    <3>2. i # 0  BY <1>4, <3>1 DEF Laid
    <3>3. i \in 1 .. n /\ i - 1 \in 0 .. n /\ ~ (i <= i - 1)  BY <1>2, <3>1, <3>2
    <3>4. at[i - 1] >= i - 1 /\ at[i - 1] \in Nat /\ at[i] = at[i - 1] + Len(q[i])
      BY <1>1, <1>4, <3>1, <3>3 DEF Laid
    <3>. QED  BY <1>5, <3>1, <3>3, <3>4
  <2>2. n \in 0 .. n  BY <1>2
  <2>. QED  BY <1>1, <1>4, <2>1, <2>2 DEF Laid
<1>7. ASSUME NEW p \in 1 .. Len(s), s[p] = LF
      PROVE  p > 1 /\ s[p - 1] = CR
  <2>1. PICK i \in 1 .. n : \E j \in 1 .. Len(q[i]) : p = at[i - 1] + j
    <3>0. Len(q) \in Nat /\ \A h \in 1 .. Len(q) : Len(q[h]) \in Nat  BY <1>1, <1>2, <1>5
    <3>1. p \in 1 .. Len(FlattenSeq(q))  BY <1>1
    <3>2. InBlock(p, at, q)  BY <1>4, <3>0, <3>1, LaidPlace
    <3>. QED  BY <1>1, <3>2 DEF InBlock
  <2>2. PICK j \in 1 .. Len(q[i]) : p = at[i - 1] + j  BY <2>1
  <2>3. s[p] = q[i][j]  BY <1>1, <1>4, <2>2 DEF Laid
  <2>4. q[i] = CRLF
    <3>1. CASE q[i] = <<Raw(text[i])>>
      <4>1. j = 1 /\ q[i][j] = Raw(text[i])  BY <3>1
      <4>2. text[i] = "LF"  BY <1>7, <2>3, <4>1 DEF Raw, LF
      <4>. QED  BY <1>2, <4>2, TextPathAssumption
    <3>. QED  BY <1>1, <3>1
  <2>5. Len(q[i]) = 2 /\ q[i][1] = CR /\ CR # LF /\ q[i][2] = LF  BY <2>4 DEF CRLF, CR, LF, Raw
  <2>6. j = 2  BY <1>7, <2>3, <2>5
  <2>7. s[at[i - 1] + 1] = CR
    <3>1. i \in 1 .. Len(q) /\ 1 \in 1 .. Len(q[i])  BY <1>1, <2>5
    <3>2. FlattenSeq(q)[at[i - 1] + 1] = q[i][1]  BY <1>4, <3>1 DEF Laid
    <3>. QED  BY <1>1, <2>5, <3>2
  <2>8. at[i - 1] \in Nat
    <3>1. i - 1 \in 0 .. n  BY <1>2
    <3>. QED  BY <1>1, <1>4, <3>1 DEF Laid
  <2>9. p > 1 /\ p - 1 = at[i - 1] + 1
    <3>1. p = at[i - 1] + 2  BY <2>2, <2>6
    <3>. QED  BY <2>8, <3>1
  <2>. QED  BY <2>7, <2>9
<1>. QED  BY <1>3, <1>6, <1>7 DEF s, n

(* A %HH that is whole.                                                    *)
Whole(s, i) == s[i][1] = "pct" /\ i + 2 <= Len(s)

(* url_decode's function.                                                  *)
LEMMA UrlDecoding ==
  ASSUME NEW s, Len(s) \in Nat
  PROVE  \E f : /\ url_decode(s) = f[1]
                /\ \A i \in Nat :
                     f[i] = IF i > Len(s) THEN << >>
                            ELSE IF Whole(s, i) THEN <<Raw(s[i][2])>> \o f[i + 3]
                            ELSE <<s[i]>> \o f[i + 1]
<1>. DEFINE y == [i \in 0 .. Len(s) |-> IF Whole(s, i) THEN Raw(s[i][2]) ELSE s[i]]
            w == [i \in 0 .. Len(s) |-> IF Whole(s, i) THEN 3 ELSE 1]
            Spelt(f, i) == IF i > Len(s) THEN << >>
                           ELSE IF Whole(s, i) THEN <<Raw(s[i][2])>> \o f[i + 3]
                           ELSE <<s[i]>> \o f[i + 1]
            g == CHOOSE f : f = [i \in Nat |-> Spelt(f, i)]
<1>1. \E f : Decoding(f, Len(s), {}, y, w)
  <2>1. \A i \in 0 .. Len(s) : w[i] \in Nat \ {0}  OBVIOUS
  <2>. HIDE DEF w, y
  <2>. QED  BY <2>1, DecodingExists
<1>2. PICK f : Decoding(f, Len(s), {}, y, w)  BY <1>1
<1>3. ASSUME NEW i \in Nat
      PROVE  Spelt(f, i) = IF i > Len(s) \/ i \in {} THEN << >> ELSE <<y[i]>> \o f[i + w[i]]
  <2>1. CASE i > Len(s)  BY <2>1
  <2>2. CASE ~ (i > Len(s))
    <3>1. i \in 0 .. Len(s)  BY <2>2
    <3>2. CASE Whole(s, i)
      <4>1. y[i] = Raw(s[i][2]) /\ w[i] = 3  BY <3>1, <3>2
      <4>. QED  BY <2>2, <3>2, <4>1
    <3>3. CASE ~ Whole(s, i)
      <4>1. y[i] = s[i] /\ w[i] = 1  BY <3>1, <3>3
      <4>. QED  BY <2>2, <3>3, <4>1
    <3>. QED  BY <3>2, <3>3
  <2>. QED  BY <2>1, <2>2
<1>4. f = [i \in Nat |-> Spelt(f, i)]
  <2>. HIDE DEF Spelt, y, w
  <2>. QED  BY <1>2, <1>3 DEF Decoding
<1>5. g = [i \in Nat |-> Spelt(g, i)]
  <2>. HIDE DEF Spelt
  <2>. QED  BY <1>4
<1>6. url_decode(s) = g[1]  BY DEF url_decode, Whole
<1>. HIDE DEF g
<1>7. \A i \in Nat : g[i] = Spelt(g, i)
  <2>. HIDE DEF Spelt
  <2>. QED  BY <1>5
<1>. QED  BY <1>6, <1>7

(* The % of a character is neither + nor the character.                    *)
LEMMA RawUnitParts ==
  ASSUME NEW u \in RawUnit
  PROVE  u[1] # "pct" /\ Pct(u) # Plus /\ Pct(u)[1] = "pct" /\ Raw(Pct(u)[2]) = u
BY DEF RawUnit, Raw, Pct, Plus

(* The form sends a character as itself, as + or as %HH.                   *)
LEMMA EncodedUnit ==
  ASSUME NEW u \in RawUnit
  PROVE  /\ Encoded(u) \in Seq(FormUnit)
         /\ u[1] = "raw"
         /\ \/ Encoded(u) = <<u>> /\ u # Plus
            \/ Encoded(u) = <<Plus>> /\ u = Space
            \/ Encoded(u) = <<Pct(u), Hi(u), Lo(u)>>
<1>1. PICK c \in Typeable : u = Raw(c)  BY DEF RawUnit
<1>2. u[1] = "raw" /\ u[2] = c  BY <1>1 DEF Raw
<1>3. CASE c \in Plain
  <2>1. Encoded(u) = <<u>> /\ u # Plus /\ u \in FormUnit
    BY <1>1, <1>2, <1>3 DEF Encoded, Plain, Raw, FormUnit, Plus, Space
  <2>2. Encoded(u) \in Seq(FormUnit)  BY <2>1
  <2>. QED  BY <1>2, <2>1, <2>2, Zenon
<1>4. CASE c = " "
  <2>1. Encoded(u) = <<Plus>> /\ Plus \in FormUnit
    BY <1>2, <1>4 DEF Encoded, Raw, FormUnit, Plus, Space
  <2>2. Encoded(u) \in Seq(FormUnit)  BY <2>1
  <2>3. u = Space  BY <1>1, <1>4 DEF Space
  <2>. QED  BY <1>2, <2>1, <2>2, <2>3, Zenon
<1>5. CASE c \notin Plain \cup {" "}
  <2>1. Encoded(u) = <<Pct(u), Hi(u), Lo(u)>>
    BY <1>2, <1>5 DEF Encoded, Plain, Pct, Hi, Lo
  <2>2. Pct(u) \in FormUnit /\ Hi(u) \in FormUnit /\ Lo(u) \in FormUnit
    BY <1>2 DEF FormUnit, Escape, Pct, Hi, Lo
  <2>3. Encoded(u) \in Seq(FormUnit)  BY <2>1, <2>2
  <2>4. Encoded(u) = <<Pct(u), Hi(u), Lo(u)>>  BY <1>2, <2>1
  <2>. QED  BY <1>2, <2>3, <2>4, Zenon
<1>. QED  BY <1>3, <1>4, <1>5

FormBlocks(text) == [i \in DOMAIN AsRaw(text) |-> Encoded(AsRaw(text)[i])]

(* The form's text, one block for each character.                          *)
LEMMA FormBlocksType ==
  ASSUME NEW text \in Seq(Char)
  PROVE  /\ FormBlocks(text) \in Seq(Seq(FormUnit))
         /\ Len(FormBlocks(text)) = Len(AsRaw(text))
         /\ \A i \in 1 .. Len(AsRaw(text)) : FormBlocks(text)[i] = Encoded(AsRaw(text)[i])
         /\ FormBody(text) = FlattenSeq(FormBlocks(text))
<1>. DEFINE u == AsRaw(text)
<1>1. u \in Seq(RawUnit)  BY AsRawType
<1>2. FormBody(text) = FlattenSeq(FormBlocks(text))  BY DEF FormBody, FormBlocks
<1>3. FormBlocks(text) = [i \in DOMAIN u |-> Encoded(u[i])]  BY DEF FormBlocks
<1>. HIDE DEF u
<1>4. Len(u) \in Nat /\ DOMAIN u = 1 .. Len(u) /\ \A i \in 1 .. Len(u) : u[i] \in RawUnit
  BY <1>1, LenProperties, ElementOfSeq
<1>5. \A i \in 1 .. Len(u) : Encoded(u[i]) \in Seq(FormUnit)  BY <1>4, EncodedUnit
<1>6. FormBlocks(text) \in [1 .. Len(u) -> Seq(FormUnit)]  BY <1>3, <1>4, <1>5
<1>7. FormBlocks(text) \in Seq(Seq(FormUnit)) /\ Len(FormBlocks(text)) = Len(u)
  BY <1>4, <1>6
<1>. QED  BY <1>2, <1>3, <1>4, <1>7 DEF u

(* Replacing + leaves no +, and so does not change what it made.           *)
LEMMA SpacedType ==
  ASSUME NEW s \in Seq(FormUnit)
  PROVE  /\ Spaced(s) \in Seq(SentUnit)
         /\ Len(Spaced(s)) = Len(s)
         /\ \A i \in 1 .. Len(s) : Spaced(s)[i] = IF s[i] = Plus THEN Space ELSE s[i]
         /\ Spaced(Spaced(s)) = Spaced(s)
<1>1. Len(s) \in Nat /\ DOMAIN s = 1 .. Len(s) /\ \A i \in 1 .. Len(s) : s[i] \in FormUnit
  BY LenProperties, ElementOfSeq
<1>2. \A x \in FormUnit : (IF x = Plus THEN Space ELSE x) \in SentUnit
  BY DEF FormUnit, SentUnit, Plus, Space
<1>3. Spaced(s) \in [1 .. Len(s) -> SentUnit]  BY <1>1, <1>2 DEF Spaced, Plus, Space
<1>4. Spaced(s) \in Seq(SentUnit) /\ Len(Spaced(s)) = Len(s)  BY <1>1, <1>3
<1>5. ASSUME NEW x \in SentUnit PROVE x # Plus
  <2>1. CASE x \in Escape
    <3>1. x[1] # "raw"  BY <2>1 DEF Escape
    <3>. QED  BY <3>1 DEF Raw, Plus
  <2>2. ASSUME NEW c \in Plain \cup {" "}, x = Raw(c) PROVE x # Plus
    BY <2>2 DEF Raw, Plain, Plus
  <2>. QED  BY <2>1, <2>2 DEF SentUnit
<1>6. \A i \in 1 .. Len(s) : Spaced(s)[i] # Plus  BY <1>1, <1>2, <1>5 DEF Spaced, Plus, Space
<1>7. Spaced(Spaced(s)) = Spaced(s)  BY <1>1, <1>6 DEF Spaced, Plus, Space
<1>. QED  BY <1>1, <1>4, <1>7 DEF Spaced, Plus, Space

Respaced(u) == IF u = Plus THEN Space ELSE u

UrlDecodes(f, s) ==
  \A i \in Nat : f[i] = IF i > Len(s) THEN << >>
                        ELSE IF Whole(s, i) THEN <<Raw(s[i][2])>> \o f[i + 3]
                        ELSE <<s[i]>> \o f[i + 1]

(* e, which x is encoded to, follows the first a units of s.               *)
StandsAt(s, x, a, e) ==
  /\ Len(s) \in Nat /\ x \in RawUnit /\ a \in Nat
  /\ e = Encoded(x) /\ a + Len(e) <= Len(s)
  /\ \A j \in 1 .. Len(e) : s[a + j] = Respaced(e[j])

Yields(f, x, a, e) == f[a + 1] = <<x>> \o f[a + Len(e) + 1]

(* One character of the form, after + has become a space.                  *)
LEMMA OneDecodes ==
  ASSUME NEW s, NEW f, UrlDecodes(f, s), NEW x, NEW a, NEW e, StandsAt(s, x, a, e)
  PROVE  Yields(f, x, a, e)
<1>. SUFFICES f[a + 1] = <<x>> \o f[a + Len(e) + 1]  BY DEF Yields
<1>0. /\ Len(s) \in Nat /\ x \in RawUnit /\ a \in Nat
      /\ e = Encoded(x) /\ a + Len(e) <= Len(s)
      /\ \A j \in 1 .. Len(e) : s[a + j] = Respaced(e[j])
  BY DEF StandsAt
<1>1. /\ x[1] # "pct" /\ Pct(x) # Plus /\ Pct(x)[1] = "pct" /\ Raw(Pct(x)[2]) = x
  BY <1>0, RawUnitParts
<1>2. CASE (e = <<x>> /\ x # Plus) \/ (e = <<Plus>> /\ x = Space)
  <2>1. Len(e) = 1 /\ Respaced(e[1]) = x  BY <1>2 DEF Respaced
  <2>2. 1 \in 1 .. Len(e) /\ a + 1 \in Nat /\ ~ (a + 1 > Len(s))  BY <1>0, <2>1
  <2>3. s[a + 1] = x  BY <1>0, <2>1, <2>2
  <2>4. ~ Whole(s, a + 1)  BY <1>1, <2>3 DEF Whole
  <2>5. f[a + 1] = <<x>> \o f[a + 1 + 1]  BY <2>2, <2>3, <2>4 DEF UrlDecodes
  <2>6. a + 1 + 1 = a + Len(e) + 1  BY <1>0, <2>1
  <2>. QED  BY <2>5, <2>6
<1>3. CASE e = <<Pct(x), Hi(x), Lo(x)>>
  <2>1. Len(e) = 3 /\ e[1] = Pct(x)  BY <1>3
  <2>2. 1 \in 1 .. Len(e) /\ a + 1 \in Nat /\ ~ (a + 1 > Len(s)) /\ a + 1 + 2 <= Len(s)
        /\ a + 1 + 3 = a + Len(e) + 1
    BY <1>0, <2>1
  <2>4. s[a + 1] = Pct(x)  BY <1>0, <1>1, <2>1, <2>2 DEF Respaced
  <2>6. Whole(s, a + 1)  BY <1>1, <2>2, <2>4 DEF Whole
  <2>7. f[a + 1] = <<Raw(s[a + 1][2])>> \o f[a + 1 + 3]  BY <2>2, <2>6 DEF UrlDecodes
  <2>. QED  BY <1>1, <2>2, <2>4, <2>7
<1>4. \/ e = <<x>> /\ x # Plus
      \/ e = <<Plus>> /\ x = Space
      \/ e = <<Pct(x), Hi(x), Lo(x)>>
  BY <1>0, EncodedUnit
<1>. QED  BY <1>2, <1>3, <1>4

(* What the form encodes, the page and POST /send decode.                  *)
LEMMA FormDecodes ==
  ASSUME NEW text \in Seq(Char)
  PROVE  /\ FormBody(text) \in Seq(FormUnit)
         /\ url_decode(Spaced(FormBody(text))) = AsRaw(text)
         /\ Len(FormBody(text)) \in Nat
         /\ Len(text) > 0 => Len(FormBody(text)) > 0
<1>1. PICK u, q, b, n : u = AsRaw(text) /\ q = FormBlocks(text) /\ b = FormBody(text) /\ n = Len(u)
  OBVIOUS
<1>2. /\ q \in Seq(Seq(FormUnit)) /\ Len(q) = n /\ b = FlattenSeq(q)
      /\ \A i \in 1 .. n : q[i] = Encoded(u[i])
  BY <1>1, FormBlocksType
<1>3. u \in Seq(RawUnit) /\ n >= Len(text)  BY <1>1, AsRawType
<1>4. n \in Nat /\ \A i \in 1 .. n : u[i] \in RawUnit
  BY <1>1, <1>3, LenProperties, ElementOfSeq
<1>5. b \in Seq(FormUnit)  BY <1>2, FlattenLays
<1>6. Len(b) \in Nat  BY <1>5, LenProperties
<1>7. PICK at : Laid(at, q)  BY <1>2, FlattenLays
<1>8. PICK s : s = Spaced(b)  OBVIOUS
<1>9. /\ Len(s) = Len(b)
      /\ \A i \in 1 .. Len(b) : s[i] = IF b[i] = Plus THEN Space ELSE b[i]
  BY <1>5, <1>8, SpacedType
<1>10. PICK f : url_decode(s) = f[1] /\ UrlDecodes(f, s)
  BY <1>6, <1>9, UrlDecoding DEF UrlDecodes
<1>11. /\ at \in [0 .. n -> Nat] /\ at[0] = 0 /\ at[n] = Len(b)
       /\ \A i \in 1 .. n : at[i] = at[i - 1] + Len(q[i])
       /\ \A i \in 0 .. n : at[i] <= at[n]
       /\ \A i \in 1 .. n : \A j \in 1 .. Len(q[i]) : b[at[i - 1] + j] = q[i][j]
  BY <1>2, <1>7 DEF Laid
<1>12. f[at[n] + 1] = << >>
  <2>1. Len(s) + 1 \in Nat /\ Len(s) + 1 > Len(s)  BY <1>6, <1>9
  <2>. QED  BY <1>9, <1>10, <1>11, <2>1 DEF UrlDecodes
<1>13. ASSUME NEW i \in 1 .. n
       PROVE  f[at[i - 1] + 1] = <<u[i]>> \o f[at[i] + 1]
  <2>1. PICK a, e : a = at[i - 1] /\ e = q[i]  OBVIOUS
  <2>2. a \in Nat /\ at[i] \in Nat /\ at[i] <= Len(s) /\ at[i] = a + Len(e)
    <3>1. i - 1 \in 0 .. n /\ i \in 0 .. n  BY <1>4
    <3>. QED  BY <1>9, <1>11, <2>1, <3>1
  <2>3. e = Encoded(u[i]) /\ u[i] \in RawUnit  BY <1>2, <1>4, <2>1
  <2>4. Len(e) \in Nat
    <3>1. e \in Seq(FormUnit)  BY <2>3, EncodedUnit
    <3>. QED  BY <3>1, LenProperties
  <2>5. ASSUME NEW j \in 1 .. Len(e)
        PROVE  s[a + j] = Respaced(e[j])
    <3>1. a + j \in 1 .. Len(b)  BY <1>6, <1>9, <2>2, <2>4
    <3>2. b[a + j] = e[j]  BY <1>11, <2>1
    <3>. QED  BY <1>9, <3>1, <3>2 DEF Respaced
  <2>6. f[a + 1] = <<u[i]>> \o f[a + Len(e) + 1]
    <3>1. a + Len(e) <= Len(s) /\ Len(s) \in Nat  BY <1>6, <1>9, <2>2
    <3>2. UrlDecodes(f, s)  BY <1>10
    <3>3. PICK x : x = u[i]  OBVIOUS
    <3>4. StandsAt(s, x, a, e)  BY <2>2, <2>3, <2>5, <3>1, <3>3 DEF StandsAt
    <3>5. Yields(f, x, a, e)  BY <3>2, <3>4, OneDecodes, Zenon
    <3>. QED  BY <3>3, <3>5 DEF Yields
  <2>. QED  BY <2>1, <2>2, <2>6
<1>14. f[at[0] + 1] = u
  <2>1. at \in [0 .. Len(u) -> Nat] /\ f[at[Len(u)] + 1] = << >>
        /\ \A i \in 1 .. Len(u) : f[at[i - 1] + 1] = <<u[i]>> \o f[at[i] + 1]
    BY <1>1, <1>11, <1>12, <1>13
  <2>. QED  BY <1>3, <2>1, BlocksDecode
<1>15. url_decode(s) = u
  <2>1. at[0] + 1 = 1  BY <1>11
  <2>. QED  BY <1>10, <1>14, <2>1
<1>16. ASSUME Len(text) > 0 PROVE Len(b) > 0
  <2>1. Len(text) \in Nat /\ 1 \in 1 .. n /\ 1 \in 0 .. n  BY <1>3, <1>4, <1>16, LenProperties
  <2>2. Len(q[1]) \in Nat \ {0}
    <3>1. \A x : Len(<<x>>) = 1  OBVIOUS
    <3>2. \A x, y, z : Len(<<x, y, z>>) = 3  OBVIOUS
    <3>3. \/ q[1] = <<u[1]>>
          \/ q[1] = <<Plus>>
          \/ q[1] = <<Pct(u[1]), Hi(u[1]), Lo(u[1])>>
      BY <1>2, <1>4, <2>1, EncodedUnit
    <3>4. Len(q[1]) = 1 \/ Len(q[1]) = 3  BY <3>1, <3>2, <3>3
    <3>5. \A k : k = 1 \/ k = 3 => k \in Nat \ {0}  OBVIOUS
    <3>. QED  BY <3>4, <3>5, Zenon
  <2>3. at[1] = Len(q[1]) /\ at[1] <= Len(b)
    <3>1. at[1] = at[1 - 1] + Len(q[1]) /\ 1 - 1 = 0  BY <1>11, <2>1
    <3>. QED  BY <1>11, <2>1, <2>2, <3>1
  <2>. QED  BY <1>6, <2>2, <2>3
<1>. QED  BY <1>1, <1>5, <1>6, <1>8, <1>15, <1>16

----------------------------------------------------------------------------
(* The byte reader over a sequence of bytes.                               *)

Folding(iter, base, s) ==
  iter = [S \in SUBSET DOMAIN s |-> IF S = {} THEN base
            ELSE ReadByte(iter[S \ {Max(S)}], s[Max(S)])]

(* The reader's states after each byte.                                    *)
Reading(g, base, s, n) ==
  g[0] = base /\ \A k \in 1 .. n : g[k] = ReadByte(g[k - 1], s[k])

(* The set FoldLeft goes down by loses its largest number.                 *)
LEMMA MaxUpTo ==
  ASSUME NEW k \in Nat, NEW S \in SUBSET (1 .. k), k \in S
  PROVE  Max(S) = k
<1>1. \A y \in S : k >= y  OBVIOUS
<1>2. \A x \in S : (\A y \in S : x >= y) => x = k  OBVIOUS
<1>. QED  BY <1>1, <1>2 DEF Max

(* What FoldLeft chooses is there to be chosen.                            *)
LEMMA FoldingExists ==
  ASSUME NEW base, NEW s, NEW n \in Nat, DOMAIN s = 1 .. n
  PROVE  \E iter : Folding(iter, base, s)
<1>. DEFINE At(f, S) == IF S = {} THEN base ELSE ReadByte(f[S \ {Max(S)}], s[Max(S)])
            Upto(f, k) == DOMAIN f = SUBSET (1 .. k) /\ \A S \in SUBSET (1 .. k) : f[S] = At(f, S)
            Bad == {k \in 0 .. n : ~ \E f : Upto(f, k)}
<1>1. ASSUME Bad # {} PROVE FALSE
  <2>1. PICK k \in Bad : \A j \in Bad : k <= j
    <3>1. Bad \in SUBSET Nat  OBVIOUS
    <3>. HIDE DEF Bad
    <3>. QED  BY <1>1, <3>1, Least
  <2>2. k # 0
    <3>1. ASSUME NEW S \in SUBSET (1 .. 0) PROVE S = {}  OBVIOUS
    <3>2. Upto([S \in SUBSET (1 .. 0) |-> base], 0)  BY <3>1
    <3>3. \E f : Upto(f, 0)  BY <3>2
    <3>. QED  BY <2>1, <3>3
  <2>3. k \in Nat \ {0} /\ k - 1 \in 0 .. n /\ ~ (k <= k - 1)  BY <2>1, <2>2
  <2>4. PICK f : Upto(f, k - 1)  BY <2>1, <2>3
  <2>. DEFINE Low == SUBSET (1 .. k - 1)
              h == [S \in SUBSET (1 .. k) |->
                      IF S \in Low THEN f[S] ELSE ReadByte(f[S \ {k}], s[k])]
  <2>5. ASSUME NEW S \in SUBSET (1 .. k) PROVE h[S] = At(h, S)
    <3>1. CASE S \in Low
      <4>1. h[S] = f[S] /\ f[S] = At(f, S)  BY <2>4, <3>1
      <4>2. CASE S = {}  BY <4>1, <4>2
      <4>3. CASE S # {}
        <5>1. S \ {Max(S)} \in Low /\ S \ {Max(S)} \in SUBSET (1 .. k)  BY <3>1
        <5>2. h[S \ {Max(S)}] = f[S \ {Max(S)}]  BY <5>1
        <5>. HIDE DEF h, Low
        <5>. QED  BY <4>1, <4>3, <5>2
      <4>. QED  BY <4>2, <4>3
    <3>2. CASE S \notin Low
      <4>1. k \in S  BY <2>3, <3>2
      <4>2. Max(S) = k  BY <2>3, <4>1, MaxUpTo
      <4>3. S \ {k} \in Low /\ S \ {k} \in SUBSET (1 .. k)  BY <2>3
      <4>4. h[S \ {k}] = f[S \ {k}] /\ h[S] = ReadByte(f[S \ {k}], s[k])  BY <3>2, <4>3
      <4>5. S # {}  BY <4>1
      <4>. HIDE DEF h, Low
      <4>. QED  BY <4>2, <4>4, <4>5
    <3>. QED  BY <3>1, <3>2
  <2>6. Upto(h, k)
    <3>1. DOMAIN h = SUBSET (1 .. k)  OBVIOUS
    <3>. HIDE DEF h, At
    <3>. QED  BY <2>5, <3>1
  <2>. HIDE DEF Upto, h
  <2>7. \E g : Upto(g, k)  BY <2>6
  <2>. QED  BY <2>1, <2>7
<1>2. PICK f : Upto(f, n)
  <2>1. n \in 0 .. n  OBVIOUS
  <2>. QED  BY <1>1, <2>1
<1>3. [S \in SUBSET DOMAIN s |-> f[S]] = [S \in SUBSET DOMAIN s |-> At(f, S)]  BY <1>2
<1>. DEFINE iter == [S \in SUBSET DOMAIN s |-> f[S]]
<1>4. ASSUME NEW S \in SUBSET DOMAIN s PROVE At(iter, S) = At(f, S)
  <2>1. S \ {Max(S)} \in SUBSET DOMAIN s  OBVIOUS
  <2>2. iter[S \ {Max(S)}] = f[S \ {Max(S)}]  BY <2>1
  <2>. HIDE DEF iter
  <2>. QED  BY <2>2
<1>5. Folding(iter, base, s)
  <2>1. [S \in SUBSET DOMAIN s |-> At(f, S)] = [S \in SUBSET DOMAIN s |-> At(iter, S)]
    <3>. HIDE DEF At, iter
    <3>. QED  BY <1>4
  <2>2. iter = [S \in SUBSET DOMAIN s |-> At(iter, S)]
    <3>1. iter = [S \in SUBSET DOMAIN s |-> At(f, S)]  BY <1>3
    <3>. HIDE DEF At, iter
    <3>. QED  BY <2>1, <3>1
  <2>. HIDE DEF iter
  <2>. QED  BY <2>2 DEF Folding
<1>. QED  BY <1>5

(* FoldLeft of ReadByte is the reader's state after the last byte.         *)
LEMMA ReadFolds ==
  ASSUME NEW base, NEW s, NEW n \in Nat, DOMAIN s = 1 .. n
  PROVE  \E g : Reading(g, base, s, n) /\ FoldLeft(ReadByte, base, s) = g[n]
<1>. DEFINE iter == CHOOSE f : Folding(f, base, s)
            g == [k \in 0 .. n |-> iter[1 .. k]]
<1>1. Folding(iter, base, s)  BY FoldingExists
<1>2. FoldLeft(ReadByte, base, s) = iter[1 .. n]  BY DEF FoldLeft, MapThenFoldSet, Folding
<1>. HIDE DEF iter
<1>3. ASSUME NEW k \in 0 .. n
      PROVE  iter[1 .. k] = IF 1 .. k = {} THEN base
                            ELSE ReadByte(iter[(1 .. k) \ {Max(1 .. k)}], s[Max(1 .. k)])
  <2>1. 1 .. k \in SUBSET DOMAIN s  OBVIOUS
  <2>. QED  BY <1>1, <2>1 DEF Folding
<1>4. g[0] = base
  <2>1. 1 .. 0 = {} /\ 0 \in 0 .. n  OBVIOUS
  <2>. QED  BY <1>3, <2>1
<1>5. ASSUME NEW k \in 1 .. n PROVE g[k] = ReadByte(g[k - 1], s[k])
  <2>1. k \in 1 .. k /\ 1 .. k \in SUBSET (1 .. k) /\ k \in Nat  OBVIOUS
  <2>2. Max(1 .. k) = k  BY <2>1, MaxUpTo
  <2>3. (1 .. k) \ {k} = 1 .. k - 1 /\ k \in 0 .. n /\ k - 1 \in 0 .. n /\ 1 .. k # {}
    BY <2>1
  <2>4. iter[1 .. k] = ReadByte(iter[1 .. k - 1], s[k])  BY <1>3, <2>2, <2>3
  <2>5. g[k] = iter[1 .. k] /\ g[k - 1] = iter[1 .. k - 1]  BY <2>3
  <2>. QED  BY <2>4, <2>5
<1>6. g[n] = iter[1 .. n]  OBVIOUS
<1>. HIDE DEF g
<1>. QED  BY <1>2, <1>4, <1>5, <1>6 DEF Reading

(* The reader between two frames, and with l of a line.                    *)
Reader(l, saw, out) == [line |-> l, saw_cr |-> saw, out |-> out]

LineEnd == {CR, LF}

(* The two line ends differ.                                               *)
LEMMA CRisNotLF == CR # LF
BY DEF CR, LF, Raw

(* The reader drops line ends between lines, keeps or starts over on any   *)
(* other byte, and hands on a line at CR LF.                               *)
LEMMA ReadByteCases ==
  /\ \A c \in LineEnd : ReadByte(Reader(<< >>, FALSE, << >>), c) = Reader(<< >>, FALSE, << >>)
  /\ \A l, c : c \notin LineEnd =>
       ReadByte(Reader(l, FALSE, << >>), c) =
         Reader(IF HasRoom(l) THEN Append(l, c) ELSE << >>, FALSE, << >>)
  /\ \A l : l # << >> => /\ ReadByte(Reader(l, FALSE, << >>), CR) = Reader(l, TRUE, << >>)
                         /\ ReadByte(Reader(l, TRUE, << >>), LF) = Reader(<< >>, FALSE, <<l>>)
<1>1. ASSUME NEW c \in LineEnd
      PROVE  ReadByte(Reader(<< >>, FALSE, << >>), c) = Reader(<< >>, FALSE, << >>)
  BY DEF ReadByte, Reader, LineEnd
<1>2. ASSUME NEW l, NEW c, c \notin LineEnd
      PROVE  ReadByte(Reader(l, FALSE, << >>), c) =
               Reader(IF HasRoom(l) THEN Append(l, c) ELSE << >>, FALSE, << >>)
  <2>1. c # CR /\ c # LF  BY <1>2 DEF LineEnd
  <2>. QED  BY <2>1 DEF ReadByte, Reader
<1>3. ASSUME NEW l, l # << >>
      PROVE  ReadByte(Reader(l, FALSE, << >>), CR) = Reader(l, TRUE, << >>)
  BY <1>3 DEF ReadByte, Reader
<1>4. ASSUME NEW l, l # << >>
      PROVE  ReadByte(Reader(l, TRUE, << >>), LF) = Reader(<< >>, FALSE, <<l>>)
  <2>1. Append(<< >>, l) = <<l>>  OBVIOUS
  <2>. QED  BY <1>4, <2>1, CRisNotLF DEF ReadByte, Reader
<1>. QED  BY <1>1, <1>2, <1>3, <1>4

(* What the reader makes of a frame between line ends: all of it if it     *)
(* fits a line, else its end or nothing.                                   *)
Kept(M, j) == IF j = Len(M) THEN << >> ELSE <<SubSeq(M, j + 1, Len(M))>>

ReadOut(M, out) ==
  \E j \in 0 .. Len(M) : /\ Len(M) - j < LINE
                         /\ Len(M) < LINE => j = 0
                         /\ out = Kept(M, j)

(* A part of a line and the byte after it.                                 *)
LEMMA SubSeqGrows ==
  ASSUME NEW U, NEW M \in Seq(U), NEW k \in Nat, k < Len(M), NEW j \in 0 .. k
  PROVE  /\ SubSeq(M, j + 1, k + 1) = Append(SubSeq(M, j + 1, k), M[k + 1])
         /\ Len(SubSeq(M, j + 1, k)) = k - j
<1>1. Len(M) \in Nat /\ \A i \in 1 .. Len(M) : M[i] \in U  BY LenProperties, ElementOfSeq
<1>2. j + 1 \in 1 .. Len(M) /\ k + 1 \in (j + 1) .. Len(M) /\ k + 1 \in 1 .. Len(M)
      /\ k + 1 - 1 = k /\ j + 1 \in Int /\ k \in Int
  BY <1>1
<1>3. SubSeq(M, j + 1, k + 1) = SubSeq(M, j + 1, k) \o <<M[k + 1]>>
  BY <1>2, SubSeqRecursiveSecond
<1>4. \A i \in (j + 1) .. k : M[i] \in U  BY <1>1
<1>5. SubSeq(M, j + 1, k) \in Seq(U)
      /\ Len(SubSeq(M, j + 1, k)) = IF j + 1 <= k THEN k - (j + 1) + 1 ELSE 0
  <2>1. PICK m : m = j + 1  OBVIOUS
  <2>2. m \in Int /\ \A i \in m .. k : M[i] \in U  BY <1>2, <1>4, <2>1
  <2>3. SubSeq(M, m, k) \in Seq(U)
        /\ Len(SubSeq(M, m, k)) = IF m <= k THEN k - m + 1 ELSE 0
    BY <1>2, <2>2, SubSeqProperties
  <2>. QED  BY <2>1, <2>3
<1>6. M[k + 1] \in U  BY <1>1, <1>2
<1>7. SubSeq(M, j + 1, k) \o <<M[k + 1]>> = Append(SubSeq(M, j + 1, k), M[k + 1])
  BY <1>5, <1>6, AppendIsConcat
<1>8. Len(SubSeq(M, j + 1, k)) = k - j  BY <1>5
<1>. QED  BY <1>3, <1>7, <1>8

(* The bytes b: e of line ends, the n of M, CR and LF.                     *)
FramedBytes(b, e, M, n) ==
  /\ e \in Nat /\ n \in Nat \ {0} /\ n = Len(M) /\ DOMAIN b = 1 .. e + n + 2
  /\ \A i \in 1 .. e : b[i] \in LineEnd
  /\ \A i \in 1 .. n : b[e + i] = M[i] /\ M[i] \notin LineEnd
  /\ b[e + n + 1] = CR /\ b[e + n + 2] = LF

(* Of a frame between line ends the reader keeps an end that fits its      *)
(* line, all of it if it can.                                              *)
LEMMA ReadFrame ==
  ASSUME NEW U, NEW M \in Seq(U), NEW n, NEW b, NEW e, FramedBytes(b, e, M, n)
  PROVE  \E out : /\ FoldLeft(ReadByte, Reader(<< >>, FALSE, << >>), b) = Reader(<< >>, FALSE, out)
                  /\ ReadOut(M, out)
<1>1. n = Len(M) /\ n \in Nat \ {0} /\ DOMAIN b = 1 .. e + n + 2  BY DEF FramedBytes
<1>2. n \in Nat \ {0} /\ e \in Nat  BY DEF FramedBytes
<1>0. LINE \in Nat \ {0, 1}  BY Sizes
<1>3. PICK g : Reading(g, Reader(<< >>, FALSE, << >>), b, e + n + 2)
               /\ FoldLeft(ReadByte, Reader(<< >>, FALSE, << >>), b) = g[e + n + 2]
  <2>1. PICK k, base : k = e + n + 2 /\ base = Reader(<< >>, FALSE, << >>)  OBVIOUS
  <2>2. k \in Nat /\ DOMAIN b = 1 .. k  BY <1>1, <1>2, <2>1
  <2>3. \E g : Reading(g, base, b, k) /\ FoldLeft(ReadByte, base, b) = g[k]
    BY <2>2, ReadFolds
  <2>. QED  BY <2>1, <2>3
<1>4. g[0] = Reader(<< >>, FALSE, << >>)
      /\ \A k \in 1 .. e + n + 2 : g[k] = ReadByte(g[k - 1], b[k])
  BY <1>3 DEF Reading
<1>5. g[e] = Reader(<< >>, FALSE, << >>)
  <2>. DEFINE Bad == {k \in 0 .. e : g[k] # Reader(<< >>, FALSE, << >>)}
  <2>1. ASSUME Bad # {} PROVE FALSE
    <3>1. PICK k \in Bad : \A j \in Bad : k <= j
      <4>1. Bad \subseteq 0 .. e  OBVIOUS
      <4>. HIDE DEF Bad
      <4>2. Bad \in SUBSET Nat  BY <1>2, <4>1
      <4>. QED  BY <2>1, <4>2, Least
    <3>2. k # 0  BY <1>4, <3>1
    <3>3. k \in 1 .. e /\ k \in 1 .. e + n + 2 /\ k - 1 \in 0 .. e /\ ~ (k <= k - 1)
      BY <1>2, <3>1, <3>2
    <3>4. g[k - 1] = Reader(<< >>, FALSE, << >>)  BY <3>1, <3>3
    <3>6. b[k] \in LineEnd  BY <3>3 DEF FramedBytes
    <3>5. g[k] = Reader(<< >>, FALSE, << >>)  BY <1>4, <3>3, <3>4, <3>6, ReadByteCases
    <3>. QED  BY <3>1, <3>5
  <2>2. e \in 0 .. e  BY <1>2
  <2>. QED  BY <2>1, <2>2
<1>. DEFINE From(k, j) == /\ j \in 0 .. k /\ k - j < LINE /\ (k < LINE => j = 0)
                          /\ g[e + k] = Reader(SubSeq(M, j + 1, k), FALSE, << >>)
            Bad == {k \in 0 .. n : ~ \E j : From(k, j)}
<1>6. From(0, 0)
  <2>1. SubSeq(M, 1, 0) = << >>  BY SubSeqEmpty
  <2>2. e + 0 = e /\ 0 \in 0 .. 0 /\ 0 - 0 < LINE /\ 0 + 1 = 1  BY <1>0, <1>2
  <2>. QED  BY <1>5, <2>1, <2>2
<1>7. ASSUME NEW k \in 0 .. n, k < n, NEW j, From(k, j)
      PROVE  \E i : From(k + 1, i)
  <2>0. j \in 0 .. k /\ k - j < LINE /\ (k < LINE => j = 0) /\ k \in Nat /\ k < Len(M)
        /\ g[e + k] = Reader(SubSeq(M, j + 1, k), FALSE, << >>)
    BY <1>1, <1>7
  <2>1. PICK l : l = SubSeq(M, j + 1, k)  OBVIOUS
  <2>2. Len(l) = k - j /\ Append(l, M[k + 1]) = SubSeq(M, j + 1, k + 1)
    BY <2>0, <2>1, SubSeqGrows
  <2>3. e + (k + 1) \in 1 .. e + n + 2 /\ e + (k + 1) - 1 = e + k /\ k + 1 \in 1 .. n
    BY <1>2, <1>7
  <2>4. b[e + (k + 1)] = M[k + 1] /\ M[k + 1] \notin LineEnd  BY <2>3 DEF FramedBytes
  <2>5. g[e + (k + 1)] = Reader(IF HasRoom(l) THEN Append(l, M[k + 1]) ELSE << >>, FALSE, << >>)
    <3>0. PICK p : p = e + (k + 1)  OBVIOUS
    <3>1. p \in 1 .. e + n + 2 /\ p - 1 = e + k  BY <1>2, <2>3, <3>0
    <3>2. b[p] = M[k + 1]  BY <2>4, <3>0
    <3>3. g[p] = ReadByte(g[p - 1], b[p])  BY <1>4, <3>1
    <3>4. g[e + (k + 1)] = ReadByte(Reader(l, FALSE, << >>), M[k + 1])
      BY <2>0, <2>1, <3>0, <3>1, <3>2, <3>3
    <3>. QED  BY <2>4, <3>4, ReadByteCases
  <2>6. CASE HasRoom(l)
    <3>1. j \in 0 .. k + 1 /\ (k + 1) - j < LINE /\ (k + 1 < LINE => j = 0)
      BY <1>0, <2>0, <2>2, <2>6 DEF HasRoom
    <3>2. From(k + 1, j)  BY <2>2, <2>5, <2>6, <3>1
    <3>. QED  BY <3>2
  <2>7. CASE ~ HasRoom(l)
    <3>1. ~ (k + 1 < LINE) /\ k + 1 \in 0 .. k + 1 /\ (k + 1) - (k + 1) < LINE
      BY <1>0, <2>0, <2>2, <2>7 DEF HasRoom
    <3>2. SubSeq(M, k + 1 + 1, k + 1) = << >>
      <4>1. k + 1 + 1 \in Int /\ k + 1 \in Int /\ k + 1 < k + 1 + 1  BY <2>0
      <4>. QED  BY <4>1, SubSeqEmpty
    <3>3. From(k + 1, k + 1)  BY <2>5, <2>7, <3>1, <3>2
    <3>. QED  BY <3>3
  <2>. QED  BY <2>6, <2>7
<1>8. PICK j : From(n, j)
  <2>1. ASSUME Bad # {} PROVE FALSE
    <3>1. PICK k \in Bad : \A i \in Bad : k <= i
      <4>. HIDE DEF From
      <4>1. Bad \in SUBSET Nat  BY <1>2
      <4>. HIDE DEF Bad
      <4>. QED  BY <2>1, <4>1, Least
    <3>. HIDE DEF From
    <3>2. k # 0  BY <1>6, <3>1
    <3>3. k - 1 \in 0 .. n /\ k - 1 < n /\ ~ (k <= k - 1) /\ k - 1 + 1 = k
      BY <1>2, <3>1, <3>2
    <3>4. \E i : From(k - 1, i)  BY <3>1, <3>3
    <3>5. \E i : From(k - 1 + 1, i)  BY <1>7, <3>3, <3>4
    <3>. QED  BY <3>1, <3>3, <3>5
  <2>2. n \in 0 .. n  BY <1>2
  <2>. HIDE DEF From
  <2>. QED  BY <2>1, <2>2
<1>9. g[e + n + 1] = ReadByte(g[e + n], CR) /\ g[e + n + 2] = ReadByte(g[e + n + 1], LF)
  <2>1. e + n + 1 \in 1 .. e + n + 2 /\ e + n + 2 \in 1 .. e + n + 2
        /\ e + n + 1 - 1 = e + n /\ e + n + 2 - 1 = e + n + 1
    BY <1>2
  <2>2. b[e + n + 1] = CR /\ b[e + n + 2] = LF  BY DEF FramedBytes
  <2>3. PICK p, r : p = e + n + 1 /\ r = e + n + 2  OBVIOUS
  <2>4. p \in 1 .. e + n + 2 /\ r \in 1 .. e + n + 2 /\ p - 1 = e + n /\ r - 1 = p
    BY <1>2, <2>3
  <2>5. g[p] = ReadByte(g[p - 1], b[p]) /\ g[r] = ReadByte(g[r - 1], b[r])  BY <1>4, <2>4
  <2>6. b[p] = CR /\ b[r] = LF  BY <2>2, <2>3
  <2>. QED  BY <2>3, <2>4, <2>5, <2>6
<1>10. PICK l : l = SubSeq(M, j + 1, n)  OBVIOUS
<1>11. g[e + n] = Reader(l, FALSE, << >>) /\ j \in 0 .. n /\ n - j < LINE
       /\ (n < LINE => j = 0)
  BY <1>8, <1>10
<1>12. CASE j = n
  <2>1. l = << >>
    <3>1. j + 1 \in Int /\ n \in Int /\ n < j + 1  BY <1>2, <1>12
    <3>. QED  BY <1>10, <3>1, SubSeqEmpty
  <2>2. g[e + n + 2] = Reader(<< >>, FALSE, << >>)
    BY <1>9, <1>11, <2>1, ReadByteCases DEF LineEnd
  <2>3. ReadOut(M, << >>)  BY <1>1, <1>11, <1>12 DEF ReadOut, Kept
  <2>. QED  BY <1>3, <2>2, <2>3
<1>13. CASE j # n
  <2>1. l # << >>
    <3>1. PICK m : m = j + 1  OBVIOUS
    <3>2. m \in Int /\ n \in Int /\ m <= n /\ 1 <= m  BY <1>2, <1>11, <1>13, <3>1
    <3>3. \A i \in m .. n : M[i] \in U
      <4>1. \A i \in m .. n : i \in 1 .. Len(M)  BY <1>1, <3>2
      <4>. QED  BY <4>1, ElementOfSeq
    <3>4. Len(SubSeq(M, m, n)) = n - m + 1  BY <3>2, <3>3, SubSeqProperties
    <3>5. Len(l) # 0  BY <1>10, <3>1, <3>2, <3>4
    <3>6. Len(<< >>) = 0  OBVIOUS
    <3>. QED  BY <3>5, <3>6, Zenon
  <2>2. g[e + n + 2] = Reader(<< >>, FALSE, <<l>>)
    BY <1>9, <1>11, <2>1, ReadByteCases
  <2>3. ReadOut(M, <<l>>)  BY <1>1, <1>10, <1>11, <1>13 DEF ReadOut, Kept
  <2>. QED  BY <1>3, <2>2, <2>3
<1>. QED  BY <1>12, <1>13

----------------------------------------------------------------------------
(* Parts of a text.                                                        *)

(* The smaller of two.                                                     *)
LEMMA MinOfTwo ==
  ASSUME NEW a \in Nat, NEW b \in Nat
  PROVE  Min({a, b}) = IF a <= b THEN a ELSE b
<1>1. CASE a <= b
  <2>1. a \in {a, b} /\ \A y \in {a, b} : a <= y  BY <1>1
  <2>2. \A x \in {a, b} : (\A y \in {a, b} : x <= y) => x = a  BY <1>1
  <2>. QED  BY <1>1, <2>1, <2>2 DEF Min
<1>2. CASE ~ (a <= b)
  <2>1. b \in {a, b} /\ \A y \in {a, b} : b <= y  BY <1>2
  <2>2. \A x \in {a, b} : (\A y \in {a, b} : x <= y) => x = b  BY <1>2
  <2>. QED  BY <1>2, <2>1, <2>2 DEF Min
<1>. QED  BY <1>1, <1>2

(* The start of a sequence.                                                *)
LEMMA StartOf ==
  ASSUME NEW U, NEW s \in Seq(U), NEW m \in 0 .. Len(s)
  PROVE  /\ SubSeq(s, 1, m) \in Seq(U)
         /\ Len(SubSeq(s, 1, m)) = m
         /\ \A i \in 1 .. m : SubSeq(s, 1, m)[i] = s[i]
<1>1. Len(s) \in Nat /\ m \in Nat  BY LenProperties
<1>2. \A i \in 1 .. m : s[i] \in U
  <2>1. \A i \in 1 .. m : i \in 1 .. Len(s)  BY <1>1
  <2>. QED  BY <2>1, ElementOfSeq
<1>3. 1 \in Int /\ m \in Int  BY <1>1
<1>4. /\ SubSeq(s, 1, m) \in Seq(U)
      /\ Len(SubSeq(s, 1, m)) = IF 1 <= m THEN m - 1 + 1 ELSE 0
      /\ \A i \in 1 .. m - 1 + 1 : SubSeq(s, 1, m)[i] = s[1 + i - 1]
  BY <1>2, <1>3, SubSeqProperties
<1>5. Len(SubSeq(s, 1, m)) = m  BY <1>1, <1>4
<1>6. \A i \in 1 .. m : i \in 1 .. m - 1 + 1 /\ 1 + i - 1 = i  BY <1>1
<1>. QED  BY <1>4, <1>5, <1>6

(* What a buffer of a size keeps, its last byte being the end.             *)
LEMMA CutParts ==
  ASSUME NEW U, NEW s \in Seq(U), NEW size \in Nat \ {0}
  PROVE  /\ Cut(s, size) \in Seq(U)
         /\ Len(Cut(s, size)) \in Nat
         /\ Len(Cut(s, size)) = IF Len(s) < size THEN Len(s) ELSE size - 1
         /\ Len(s) < size => Cut(s, size) = s
         /\ \E m \in 0 .. Len(s) : Cut(s, size) = SubSeq(s, 1, m)
<1>1. PICK n, k : n = Len(s) /\ k = size - 1  OBVIOUS
<1>2. n \in Nat /\ k \in Nat  BY <1>1, LenProperties
<1>3. Min({n, k}) = IF n <= k THEN n ELSE k  BY <1>2, MinOfTwo
<1>4. PICK m : m = Min({n, k})  OBVIOUS
<1>5. Cut(s, size) = SubSeq(s, 1, m)  BY <1>1, <1>4 DEF Cut
<1>6. m \in 0 .. n /\ m = IF n < size THEN n ELSE size - 1  BY <1>1, <1>2, <1>3, <1>4
<1>7. SubSeq(s, 1, m) \in Seq(U) /\ Len(SubSeq(s, 1, m)) = m  BY <1>1, <1>6, StartOf
<1>8. n < size => SubSeq(s, 1, m) = s  BY <1>1, <1>6, SubSeqFull
<1>9. m \in Nat  BY <1>6, <1>2
<1>. QED  BY <1>1, <1>5, <1>6, <1>7, <1>8, <1>9

(* Up to the first unit in K.                                              *)
UpTo(s, K) ==
  SubSeq(s, 1, Min({i - 1 : i \in {j \in DOMAIN s : s[j] \in K}} \cup {Len(s)}))

(* It stops at the first such unit or at the end.                          *)
LEMMA UpToParts ==
  ASSUME NEW U, NEW s \in Seq(U), NEW K
  PROVE  \E m \in 0 .. Len(s) : /\ UpTo(s, K) = SubSeq(s, 1, m)
                                /\ \A i \in 1 .. m : s[i] \notin K
                                /\ m # Len(s) => s[m + 1] \in K
<1>1. Len(s) \in Nat /\ DOMAIN s = 1 .. Len(s)  BY LenProperties
<1>2. PICK n, S : n = Len(s) /\ S = {i - 1 : i \in {j \in DOMAIN s : s[j] \in K}} \cup {Len(s)}
  OBVIOUS
<1>3. \A m : m \in S <=> m = n \/ \E i \in 1 .. n : s[i] \in K /\ m = i - 1
  BY <1>1, <1>2
<1>0. n \in Nat  BY <1>1, <1>2
<1>4. S \in SUBSET (0 .. n) /\ n \in S
  <2>1. \A m \in S : m \in 0 .. n  BY <1>0, <1>3
  <2>. QED  BY <1>3, <2>1
<1>5. PICK m \in S : \A x \in S : m <= x
  <2>1. S \in SUBSET Nat /\ S # {}  BY <1>4
  <2>. QED  BY <2>1, Least
<1>6. \A x \in S : (\A y \in S : x <= y) => x = m
  <2>1. \A x \in S : x \in Nat  BY <1>4
  <2>. QED  BY <1>5, <2>1
<1>7. Min(S) = m  BY <1>5, <1>6 DEF Min
<1>8. UpTo(s, K) = SubSeq(s, 1, m)  BY <1>2, <1>7 DEF UpTo
<1>9. m \in 0 .. n  BY <1>4, <1>5
<1>10. ASSUME NEW i \in 1 .. m PROVE s[i] \notin K
  <2>1. i \in 1 .. n /\ ~ (m <= i - 1)  BY <1>0, <1>9
  <2>. QED  BY <1>3, <1>5, <2>1
<1>11. ASSUME m # n PROVE s[m + 1] \in K
  <2>1. PICK i \in 1 .. n : s[i] \in K /\ m = i - 1  BY <1>3, <1>5, <1>11
  <2>2. m + 1 = i  BY <2>1
  <2>. QED  BY <2>1, <2>2
<1>. QED  BY <1>2, <1>8, <1>9, <1>10, <1>11

----------------------------------------------------------------------------
(* What a content and a frame are made of.                                 *)

RcvMark == <<"+RCV=", "">>
Comma   == Raw(",")

Carried ==
  (RawUnit \ LineEnd) \cup FormUnit \cup SentUnit \cup {<<"None", "">>, Raw("a")}

Framed ==
  Carried \cup {Comma, <<"origin..ack_for", "">>, <<"from", "">>, <<"len", "">>,
                <<"rssi", "">>, <<"snr", "">>}

(* A character is nothing but its form and itself.                         *)
LEMMA RawUnits ==
  /\ CR \in RawUnit /\ LF \in RawUnit
  /\ \A u \in RawUnit : u[1] = "raw" /\ u = Raw(u[2])
BY DEF RawUnit, Typeable, Raw, CR, LF

(* What is in a frame is neither a line end nor its head.                  *)
LEMMA FramedUnits ==
  ASSUME NEW u \in Framed
  PROVE  u \notin LineEnd /\ u # RcvMark
<1>1. /\ CR[1] = "raw" /\ LF[1] = "raw" /\ RcvMark[1] = "+RCV="
      /\ CR[2] = "CR" /\ LF[2] = "LF"
  BY DEF CR, LF, RcvMark, Raw
<1>2. CASE u \in RawUnit \ LineEnd
  <2>1. u[1] = "raw"  BY <1>2, RawUnits
  <2>. QED  BY <1>1, <1>2, <2>1
<1>3. CASE u \in Escape
  <2>1. u[1] \in {"pct", "hi", "lo"}  BY <1>3 DEF Escape
  <2>. QED  BY <1>1, <2>1 DEF LineEnd
<1>4. ASSUME NEW c \in Plain \cup {"+", " ", ",", "a"}, u = Raw(c)
      PROVE  u \notin LineEnd /\ u # RcvMark
  <2>1. u[1] = "raw" /\ u[2] = c  BY <1>4 DEF Raw
  <2>2. c # "CR" /\ c # "LF"  BY DEF Plain
  <2>. QED  BY <1>1, <2>1, <2>2 DEF LineEnd
<1>5. CASE u \in {<<"None", "">>, <<"origin..ack_for", "">>, <<"from", "">>, <<"len", "">>,
                  <<"rssi", "">>, <<"snr", "">>}
  <2>1. PICK x \in {"None", "origin..ack_for", "from", "len", "rssi", "snr"} : u = <<x, "">>
    BY <1>5
  <2>2. u[1] = x  BY <2>1
  <2>. QED  BY <1>1, <2>1, <2>2 DEF LineEnd
<1>6. u \in RawUnit \ LineEnd \/ u \in Escape
      \/ (\E c \in Plain \cup {"+", " ", ",", "a"} : u = Raw(c))
      \/ u \in {<<"None", "">>, <<"origin..ack_for", "">>, <<"from", "">>, <<"len", "">>,
                  <<"rssi", "">>, <<"snr", "">>}
  BY DEF Framed, Carried, FormUnit, SentUnit, Comma
<1>. QED  BY <1>2, <1>3, <1>4, <1>5, <1>6

(* What %HH decoding may leave of units of the form.                       *)
LEMMA UrlDecodeType ==
  ASSUME NEW s \in Seq(SentUnit)
  PROVE  /\ url_decode(s) \in Seq(RawUnit \cup SentUnit)
         /\ Len(url_decode(s)) <= Len(s)
         /\ Len(url_decode(s)) \in Nat
         /\ Len(s) > 0 => Len(url_decode(s)) > 0
<1>1. PICK n : n = Len(s)  OBVIOUS
<1>2. n \in Nat /\ \A i \in 1 .. n : s[i] \in SentUnit  BY <1>1, LenProperties, ElementOfSeq
<1>3. PICK f : url_decode(s) = f[1] /\ UrlDecodes(f, s)
  BY <1>1, <1>2, UrlDecoding DEF UrlDecodes
<1>. DEFINE V == RawUnit \cup SentUnit
            Good(i) == /\ f[i] \in Seq(V) /\ Len(f[i]) \in Nat
                       /\ i <= n + 1 => Len(f[i]) <= n + 1 - i
            Bad == {k \in 0 .. n : ~ Good(n + 1 - k)}
<1>4. ASSUME NEW x \in SentUnit, x[1] = "pct" PROVE Raw(x[2]) \in RawUnit
  <2>1. x \in Escape
    <3>1. \A c : Raw(c)[1] = "raw"  BY DEF Raw
    <3>. QED  BY <1>4, <3>1 DEF SentUnit
  <2>. QED  BY <2>1 DEF Escape, RawUnit
<1>5. ASSUME NEW i \in Nat, i > n PROVE Good(i)
  <2>1. f[i] = << >>  BY <1>1, <1>5, <1>3 DEF UrlDecodes
  <2>2. << >> \in Seq(V) /\ Len(<< >>) = 0  BY EmptySeq
  <2>3. i <= n + 1 => 0 <= n + 1 - i  BY <1>2
  <2>. QED  BY <2>1, <2>2, <2>3
<1>6. ASSUME NEW i \in 1 .. n, NEW y \in V, NEW w \in {1, 3}, i + w <= n + 1, Good(i + w),
             f[i] = <<y>> \o f[i + w]
      PROVE  Good(i) /\ Len(f[i]) > 0
  <2>1. PICK t : t = f[i + w]  OBVIOUS
  <2>2. t \in Seq(V) /\ Len(t) \in Nat /\ Len(t) <= n + 1 - (i + w)  BY <1>6, <2>1
  <2>3. <<y>> \in Seq(V) /\ Len(<<y>>) = 1  OBVIOUS
  <2>. HIDE DEF V
  <2>4. <<y>> \o t \in Seq(V) /\ Len(<<y>> \o t) = 1 + Len(t)  BY <2>2, <2>3, ConcatProperties
  <2>5. f[i] \in Seq(V) /\ Len(f[i]) = 1 + Len(t)  BY <1>6, <2>1, <2>4
  <2>. QED  BY <1>2, <2>2, <2>5
<1>7. ASSUME NEW i \in 1 .. n, \A j \in Nat : j > i => Good(j)
      PROVE  Good(i) /\ Len(f[i]) > 0
  <2>1. i \in Nat /\ ~ (i > Len(s)) /\ s[i] \in SentUnit  BY <1>1, <1>2
  <2>. HIDE DEF Good
  <2>2. CASE Whole(s, i)
    <3>1. f[i] = <<Raw(s[i][2])>> \o f[i + 3]  BY <1>3, <2>1, <2>2 DEF UrlDecodes
    <3>2. i + 3 <= n + 1 /\ s[i][1] = "pct" /\ i + 3 \in Nat /\ i + 3 > i
      BY <1>1, <1>2, <2>2 DEF Whole
    <3>3. Raw(s[i][2]) \in V  BY <1>4, <2>1, <3>2
    <3>. QED  BY <1>6, <1>7, <3>1, <3>2, <3>3
  <2>3. CASE ~ Whole(s, i)
    <3>1. f[i] = <<s[i]>> \o f[i + 1]  BY <1>3, <2>1, <2>3 DEF UrlDecodes
    <3>2. i + 1 <= n + 1 /\ i + 1 \in Nat /\ i + 1 > i  BY <1>2
    <3>3. s[i] \in V  BY <2>1
    <3>. QED  BY <1>6, <1>7, <3>1, <3>2, <3>3
  <2>. QED  BY <2>2, <2>3
<1>8. ASSUME Bad # {} PROVE FALSE
  <2>1. PICK k \in Bad : \A j \in Bad : k <= j
    <3>1. Bad \in SUBSET Nat  BY <1>2
    <3>. HIDE DEF Bad
    <3>. QED  BY <1>8, <3>1, Least
  <2>. HIDE DEF Good
  <2>2. k # 0
    <3>1. n + 1 - 0 \in Nat /\ n + 1 - 0 > n  BY <1>2
    <3>. QED  BY <1>5, <2>1, <3>1
  <2>3. n + 1 - k \in 1 .. n  BY <1>2, <2>1, <2>2
  <2>4. ASSUME NEW j \in Nat, j > n + 1 - k PROVE Good(j)
    <3>1. CASE j > n  BY <1>5, <3>1
    <3>2. CASE ~ (j > n)
      <4>1. n + 1 - j \in 0 .. n /\ ~ (k <= n + 1 - j) /\ n + 1 - (n + 1 - j) = j
        BY <1>2, <2>1, <2>4, <3>2
      <4>. QED  BY <2>1, <4>1
    <3>. QED  BY <3>1, <3>2
  <2>. QED  BY <1>7, <2>1, <2>3, <2>4
<1>9. ASSUME NEW i \in 1 .. n PROVE Good(i)
  <2>. HIDE DEF Good
  <2>1. n + 1 - i \in 0 .. n /\ n + 1 - (n + 1 - i) = i  BY <1>2
  <2>. QED  BY <1>8, <2>1
<1>10. CASE n = 0
  <2>1. Good(1)
    <3>1. 1 \in Nat /\ 1 > n  BY <1>10
    <3>. HIDE DEF Good
    <3>. QED  BY <1>5, <3>1
  <2>. QED  BY <1>1, <1>3, <1>10, <2>1
<1>11. CASE n # 0
  <2>1. 1 \in 1 .. n  BY <1>2, <1>11
  <2>2. Good(1)  BY <1>9, <2>1
  <2>3. Len(f[1]) > 0
    <3>. HIDE DEF Good
    <3>1. ASSUME NEW j \in Nat, j > 1 PROVE Good(j)
      <4>1. j > n \/ j \in 1 .. n  BY <1>2, <3>1
      <4>. QED  BY <1>5, <1>9, <4>1
    <3>. QED  BY <1>7, <2>1, <3>1
  <2>4. n + 1 - 1 = n /\ 1 <= n + 1  BY <1>2
  <2>. QED  BY <1>1, <1>3, <2>2, <2>3, <2>4
<1>. QED  BY <1>10, <1>11

----------------------------------------------------------------------------
(* The content made for a text.                                            *)

(* A text to send is not empty.                                            *)
LEMMA TextsType ==
  ASSUME NEW text \in Texts
  PROVE  text \in Seq(Char) /\ Len(text) \in Nat \ {0} /\ text # NULL /\ text[1] \in Char
<1>1. text \in Seq(Char) /\ text # << >> /\ text # NULL  BY TextPathAssumption
<1>2. Len(text) \in Nat \ {0}  BY <1>1, EmptySeq
<1>3. 1 \in 1 .. Len(text)  BY <1>2
<1>. QED  BY <1>1, <1>2, <1>3, ElementOfSeq

KindOf(text) == IF text[1] \in {"AT", "SYS"} THEN text[1] ELSE "chat"

Message(text) == Cut(FormBody(text), MESSAGE)

Contents(text) ==
  IF KindOf(text) = "chat" THEN {ChatContent(Message(text))}
  ELSE IF KindOf(text) = "AT" THEN {CommandContent(Message(text))}
  ELSE Names(CommandContent(Message(text)))

(* What POST /send keeps of the form is cut or whole, and knows which by   *)
(* its length.                                                             *)
LEMMA MessageType ==
  ASSUME NEW text \in Texts
  PROVE  /\ Message(text) \in Seq(FormUnit)
         /\ Len(Message(text)) \in Nat \ {0}
         /\ Len(Message(text)) < MESSAGE
         /\ Len(FormBody(text)) < MESSAGE => Message(text) = FormBody(text)
         /\ Len(Message(text)) < MESSAGE - 1 => Message(text) = FormBody(text)
<1>1. text \in Seq(Char) /\ Len(text) > 0  BY TextsType
<1>2. FormBody(text) \in Seq(FormUnit) /\ Len(FormBody(text)) \in Nat /\ Len(FormBody(text)) > 0
  BY <1>1, FormDecodes
<1>3. MESSAGE \in Nat \ {0} /\ MESSAGE > 1  BY Sizes
<1>4. /\ Message(text) \in Seq(FormUnit)
      /\ Len(Message(text)) \in Nat
      /\ Len(Message(text)) = IF Len(FormBody(text)) < MESSAGE THEN Len(FormBody(text))
                              ELSE MESSAGE - 1
      /\ Len(FormBody(text)) < MESSAGE => Message(text) = FormBody(text)
  BY <1>2, <1>3, CutParts DEF Message
<1>. QED  BY <1>2, <1>3, <1>4

(* What SYS+NAME makes of a text has no line end.                          *)
LEMMA NamesParts ==
  ASSUME NEW s \in Seq(RawUnit \cup SentUnit), Len(s) \in Nat, Len(s) > 0, NEW c \in Names(s)
  PROVE  /\ c \in Seq(Carried) /\ Len(c) \in Nat /\ Len(c) <= Len(s)
         /\ \/ c = NoName
            \/ Len(s) = 1
            \/ /\ s[2] \notin LineEnd /\ Len(s) > 1
               /\ c = Cut(UpTo(Tail(s), LineEnd), NAME)
<1>1. CASE c = NoName
  <2>1. Len(c) = 1  BY <1>1 DEF NoName
  <2>2. c \in Seq(Carried)
    <3>1. PICK x : x = <<"None", "">>  OBVIOUS
    <3>2. x \in Carried  BY <3>1 DEF Carried
    <3>3. <<x>> \in Seq(Carried)  BY <3>2
    <3>. QED  BY <1>1, <3>1, <3>3 DEF NoName
  <2>. QED  BY <1>1, <2>1, <2>2
<1>2. CASE Len(s) = 1 /\ c = <<Raw("a")>>
  <2>1. Len(c) = 1  BY <1>2
  <2>2. c \in Seq(Carried)
    <3>1. PICK x : x = Raw("a")  OBVIOUS
    <3>2. x \in Carried  BY <3>1 DEF Carried
    <3>3. <<x>> \in Seq(Carried)  BY <3>2
    <3>. QED  BY <1>2, <3>1, <3>3
  <2>. QED  BY <1>2, <2>1, <2>2
<1>3. CASE s[2] \notin LineEnd /\ Len(s) # 1 /\ c = Cut(UpTo(Tail(s), LineEnd), NAME)
  <2>. DEFINE V == RawUnit \cup SentUnit
  <2>1. s # << >>
    <3>1. Len(<< >>) = 0  OBVIOUS
    <3>. QED  BY <3>1
  <2>2. PICK t : t = Tail(s)  OBVIOUS
  <2>3. t \in Seq(V) /\ Len(t) = Len(s) - 1  BY <2>1, <2>2, HeadTailProperties
  <2>. HIDE DEF V
  <2>4. PICK m \in 0 .. Len(t) : /\ UpTo(t, LineEnd) = SubSeq(t, 1, m)
                                 /\ \A i \in 1 .. m : t[i] \notin LineEnd
    BY <2>3, UpToParts
  <2>5. PICK u : u = SubSeq(t, 1, m)  OBVIOUS
  <2>6. u \in Seq(V) /\ Len(u) = m /\ \A i \in 1 .. m : u[i] = t[i]
    BY <2>3, <2>5, StartOf
  <2>7. NAME \in Nat \ {0}  BY Sizes
  <2>8. PICK k \in 0 .. Len(u) : c = SubSeq(u, 1, k)
    <3>1. c = Cut(u, NAME)  BY <1>3, <2>2, <2>4, <2>5
    <3>2. \E k \in 0 .. Len(u) : Cut(u, NAME) = SubSeq(u, 1, k)  BY <2>6, <2>7, CutParts
    <3>. QED  BY <3>1, <3>2
  <2>9. c \in Seq(V) /\ Len(c) = k /\ \A i \in 1 .. k : c[i] = u[i]
    BY <2>6, <2>8, StartOf
  <2>10. m \in Nat /\ k \in Nat /\ k <= m /\ m <= Len(s) - 1
    <3>1. k \in 0 .. m /\ m \in 0 .. Len(s) - 1  BY <2>3, <2>4, <2>6, <2>8
    <3>. QED  BY <3>1
  <2>11. \A i \in 1 .. k : c[i] \in Carried
    <3>1. ASSUME NEW i \in 1 .. k PROVE c[i] \in Carried
      <4>1. i \in 1 .. m /\ i \in 1 .. Len(c)  BY <2>9, <2>10
      <4>2. c[i] \in V  BY <2>9, <4>1, ElementOfSeq
      <4>3. c[i] \notin LineEnd  BY <2>4, <2>6, <2>9, <4>1
      <4>. QED  BY <4>2, <4>3 DEF V, Carried
    <3>. QED  BY <3>1
  <2>12. c \in [1 .. k -> Carried]
    <3>1. c \in [1 .. Len(c) -> V]  BY <2>9, LenProperties
    <3>. QED  BY <2>9, <2>11, <3>1
  <2>13. c \in Seq(Carried)  BY <2>10, <2>12
  <2>14. Len(c) \in Nat /\ Len(c) <= Len(s) /\ Len(s) > 1
    <3>1. PICK n : n = Len(s)  OBVIOUS
    <3>2. n # 1 /\ n \in Nat /\ n > 0  BY <1>3, <3>1
    <3>3. m <= n - 1  BY <2>10, <3>1
    <3>4. k <= n /\ n > 1  BY <2>10, <3>2, <3>3
    <3>5. Len(c) = k /\ k \in Nat  BY <2>9, <2>10
    <3>. QED  BY <3>1, <3>4, <3>5, Zenon
  <2>. QED  BY <1>3, <2>13, <2>14
<1>4. c = NoName \/ (Len(s) = 1 /\ c = <<Raw("a")>>)
      \/ (s[2] \notin LineEnd /\ Len(s) # 1 /\ c = Cut(UpTo(Tail(s), LineEnd), NAME))
  BY DEF Names, Before, UpTo, LineEnd
<1>. QED  BY <1>1, <1>2, <1>3, <1>4

(* A content fits its buffer, and what goes on the air has no line end.    *)
LEMMA ContentsType ==
  ASSUME NEW text \in Texts, NEW c \in Contents(text)
  PROVE  /\ Len(c) \in Nat /\ Len(c) < MESSAGE
         /\ KindOf(text) # "AT" => c \in Seq(Carried)
<1>1. PICK m : m = Message(text)  OBVIOUS
<1>2. m \in Seq(FormUnit) /\ Len(m) \in Nat \ {0} /\ Len(m) < MESSAGE  BY <1>1, MessageType
<1>3. MESSAGE \in Nat  BY Sizes
<1>4. PICK t : t = Spaced(m)  OBVIOUS
<1>5. t \in Seq(SentUnit) /\ Len(t) = Len(m)  BY <1>2, <1>4, SpacedType
<1>6. PICK d : d = url_decode(t)  OBVIOUS
<1>7. d \in Seq(RawUnit \cup SentUnit) /\ Len(d) \in Nat /\ Len(d) <= Len(t) /\ Len(d) > 0
  <2>1. Len(t) > 0  BY <1>2, <1>5
  <2>. QED  BY <1>5, <1>6, <2>1, UrlDecodeType
<1>8. CASE c = t
  <2>1. SentUnit \subseteq Carried  BY DEF Carried
  <2>2. t \in Seq(Carried)  BY <1>5, <2>1, SeqMonotonic
  <2>. QED  BY <1>2, <1>5, <1>8, <2>2
<1>9. CASE KindOf(text) = "AT" /\ c = d
  <2>1. Len(c) \in Nat /\ Len(c) < MESSAGE  BY <1>2, <1>3, <1>5, <1>7, <1>9
  <2>. QED  BY <1>9, <2>1, Zenon
<1>10. CASE c \in Names(d)
  <2>1. c \in Seq(Carried) /\ Len(c) \in Nat /\ Len(c) <= Len(d)  BY <1>7, <1>10, NamesParts
  <2>. QED  BY <1>2, <1>3, <1>5, <1>7, <2>1
<1>. QED  BY <1>1, <1>4, <1>6, <1>8, <1>9, <1>10, Zenon DEF Contents, ChatContent, CommandContent

----------------------------------------------------------------------------
(* The frame of a content.                                                 *)

Rest(c) == c \o Fields \o RcvTail

FrameOf(c) == RcvHead \o Rest(c)

Pieces == {RcvHead, RcvTail, Fields, CRLF, << >>, <<LF>>}

FrameUnit == Framed \cup LineEnd \cup {RcvMark}

(* The frame's fixed parts.                                                *)
LEMMA PieceTypes ==
  /\ \A p \in Pieces : p \in Seq(FrameUnit)
  /\ RcvTail \in Seq(Framed) /\ Fields \in Seq(Framed)
  /\ Len(RcvHead) = 3 /\ Len(Fields) = 2 /\ Len(RcvTail) = 2 /\ Len(CRLF) = 2
  /\ RcvHead[1] = RcvMark /\ RcvHead[2] \in Framed /\ RcvHead[3] \in Framed
  /\ Fields[1] = Comma
<1>1. /\ RcvMark \in FrameUnit /\ CR \in FrameUnit /\ LF \in FrameUnit
      /\ Comma \in Framed /\ Framed \subseteq FrameUnit
      /\ <<"from", "">> \in Framed /\ <<"len", "">> \in Framed /\ <<"rssi", "">> \in Framed
      /\ <<"snr", "">> \in Framed /\ <<"origin..ack_for", "">> \in Framed
  BY DEF FrameUnit, Framed, LineEnd
<1>2. RcvHead = <<RcvMark, <<"from", "">>, <<"len", "">>>>  BY DEF RcvHead, RcvMark
<1>3. RcvTail \in Seq(Framed) /\ Fields \in Seq(Framed)
  <2>1. PICK x, y : x = <<"rssi", "">> /\ y = <<"snr", "">>  OBVIOUS
  <2>2. <<x, y>> \in Seq(Framed)
    <3>1. x \in Framed /\ y \in Framed  BY <1>1, <2>1
    <3>. QED  BY <3>1
  <2>3. PICK z, w : z = Comma /\ w = <<"origin..ack_for", "">>  OBVIOUS
  <2>4. <<z, w>> \in Seq(Framed)
    <3>1. z \in Framed /\ w \in Framed  BY <1>1, <2>3
    <3>. QED  BY <3>1
  <2>. QED  BY <2>1, <2>2, <2>3, <2>4 DEF RcvTail, Fields, Comma
<1>4. RcvTail \in Seq(FrameUnit) /\ Fields \in Seq(FrameUnit)  BY <1>1, <1>3, SeqMonotonic
<1>5. RcvHead \in Seq(FrameUnit)
  <2>1. PICK x, y, z : x = RcvMark /\ y = <<"from", "">> /\ z = <<"len", "">>  OBVIOUS
  <2>2. x \in FrameUnit /\ y \in FrameUnit /\ z \in FrameUnit  BY <1>1, <2>1
  <2>3. <<x, y, z>> \in Seq(FrameUnit)  BY <2>2
  <2>. QED  BY <1>2, <2>1, <2>3
<1>6. CRLF \in Seq(FrameUnit) /\ << >> \in Seq(FrameUnit) /\ <<LF>> \in Seq(FrameUnit)
  <2>1. PICK x, y : x = CR /\ y = LF  OBVIOUS
  <2>2. x \in FrameUnit /\ y \in FrameUnit  BY <1>1, <2>1
  <2>3. <<x, y>> \in Seq(FrameUnit) /\ <<y>> \in Seq(FrameUnit)  BY <2>2
  <2>. QED  BY <2>1, <2>3, EmptySeq DEF CRLF
<1>7. Len(RcvHead) = 3 /\ Len(Fields) = 2 /\ Len(RcvTail) = 2 /\ Len(CRLF) = 2
  BY DEF RcvHead, Fields, RcvTail, CRLF
<1>8. RcvHead[1] = RcvMark /\ RcvHead[2] \in Framed /\ RcvHead[3] \in Framed
  BY <1>1, <1>2
<1>9. Fields[1] = Comma  BY DEF Fields, Comma
<1>. QED  BY <1>3, <1>4, <1>5, <1>6, <1>7, <1>8, <1>9 DEF Pieces

Associates(s, t, u) == (s \o t) \o u = s \o (t \o u)

(* Appending is associative.                                               *)
LEMMA ConcatAssociates ==
  ASSUME NEW U, NEW s \in Seq(U), NEW t \in Seq(U), NEW u \in Seq(U)
  PROVE  Associates(s, t, u)
BY ConcatAssociative DEF Associates

Joins(c, s, t) ==
  /\ Len(c) = Len(s) + Len(t)
  /\ \A i \in 1 .. Len(s) + Len(t) : c[i] = IF i <= Len(s) THEN s[i] ELSE t[i - Len(s)]

(* Two sequences in one.                                                   *)
LEMMA ConcatJoins ==
  ASSUME NEW U, NEW s \in Seq(U), NEW t \in Seq(U)
  PROVE  Joins(s \o t, s, t)
BY ConcatProperties DEF Joins

(* The same for parts of a frame.                                          *)
LEMMA ConcatFramed ==
  ASSUME NEW s \in Seq(Framed), NEW t \in Seq(Framed)
  PROVE  /\ s \o t \in Seq(Framed)
         /\ Len(s \o t) = Len(s) + Len(t)
         /\ \A i \in 1 .. Len(s) + Len(t) : (s \o t)[i] =
                     IF i <= Len(s) THEN s[i] ELSE t[i - Len(s)]
BY ConcatProperties

(* The frame of a content: its length, its head, its body.                 *)
LEMMA FrameParts ==
  ASSUME NEW c \in Seq(Carried)
  PROVE  /\ c \o Fields \in Seq(Framed) /\ Rest(c) \in Seq(Framed)
         /\ FrameOf(c) \in Seq(FrameUnit)
         /\ Len(c \o Fields) = Len(c) + 2
         /\ Len(FrameOf(c)) = Len(c) + 7 /\ Len(c) \in Nat
         /\ FrameOf(c)[1] = RcvMark
         /\ \A i \in 2 .. Len(FrameOf(c)) : FrameOf(c)[i] \in Framed
         /\ \A i \in 1 .. Len(FrameOf(c)) : FrameOf(c)[i] \notin LineEnd
         /\ IsFrame(FrameOf(c)) /\ Body(FrameOf(c)) = Rest(c)
<1>1. Framed \subseteq FrameUnit /\ Carried \subseteq Framed  BY DEF FrameUnit, Framed
<1>2. c \in Seq(Framed)  BY <1>1, SeqMonotonic
<1>3. Len(c) \in Nat  BY LenProperties
<1>4. c \o Fields \in Seq(Framed) /\ Len(c \o Fields) = Len(c) + 2
  BY <1>2, ConcatFramed, PieceTypes
<1>5. Rest(c) \in Seq(Framed) /\ Len(Rest(c)) = Len(c) + 2 + 2
  BY <1>4, PieceTypes, ConcatProperties DEF Rest
<1>6. RcvHead \in Seq(FrameUnit)  BY PieceTypes DEF Pieces
<1>7. Rest(c) \in Seq(FrameUnit)  BY <1>1, <1>5, SeqMonotonic
<1>8. PICK H, R, M : H = RcvHead /\ R = Rest(c) /\ M = H \o R  OBVIOUS
<1>9. /\ H \in Seq(FrameUnit) /\ R \in Seq(FrameUnit) /\ R \in Seq(Framed)
      /\ Len(H) = 3 /\ Len(R) = Len(c) + 4
      /\ H[1] = RcvMark /\ H[2] \in Framed /\ H[3] \in Framed
  BY <1>3, <1>5, <1>6, <1>7, <1>8, PieceTypes
<1>10. M = FrameOf(c)  BY <1>8 DEF FrameOf
<1>11. /\ M \in Seq(FrameUnit) /\ Len(M) = Len(H) + Len(R)
       /\ \A i \in 1 .. Len(H) + Len(R) : M[i] = IF i <= Len(H) THEN H[i] ELSE R[i - Len(H)]
  BY <1>8, <1>9, ConcatProperties
<1>12. Len(M) = Len(c) + 7  BY <1>3, <1>9, <1>11
<1>13. M[1] = RcvMark
  <2>1. 1 \in 1 .. Len(H) + Len(R) /\ 1 <= Len(H)  BY <1>3, <1>9
  <2>. QED  BY <1>9, <1>11, <2>1
<1>14. ASSUME NEW i \in 2 .. Len(M) PROVE M[i] \in Framed
  <2>1. i \in 1 .. Len(H) + Len(R)  BY <1>3, <1>9, <1>11
  <2>2. CASE i <= Len(H)
    <3>1. i = 2 \/ i = 3  BY <1>9, <2>2
    <3>. QED  BY <1>9, <1>11, <2>1, <2>2, <3>1
  <2>3. CASE ~ (i <= Len(H))
    <3>1. i - Len(H) \in 1 .. Len(R)  BY <1>3, <1>9, <2>1, <2>3
    <3>2. R[i - Len(H)] \in Framed  BY <1>9, <3>1, ElementOfSeq
    <3>. QED  BY <1>11, <2>1, <2>3, <3>2
  <2>. QED  BY <2>2, <2>3
<1>15. ASSUME NEW i \in 1 .. Len(M) PROVE M[i] \notin LineEnd
  <2>1. RcvMark \notin LineEnd  BY DEF RcvMark, LineEnd, CR, LF, Raw
  <2>2. i = 1 \/ i \in 2 .. Len(M)  BY <1>3, <1>12
  <2>. QED  BY <1>13, <1>14, <2>1, <2>2, FramedUnits
<1>16. IsFrame(M)
  <2>1. 1 \in 1 .. Len(H) /\ Len(H) \in 1 .. Len(H)  BY <1>9
  <2>2. SubSeq(M, 1, Len(H)) = SubSeq(H, 1, Len(H))  BY <1>8, <1>9, <2>1, SubSeqOfConcat1
  <2>3. Len(H) <= Len(M)  BY <1>3, <1>9, <1>12
  <2>. QED  BY <1>8, <2>2, <2>3 DEF IsFrame, IsPrefix
<1>17. Body(M) = R
  <2>1. PICK a, b : a = Len(H) + 1 /\ b = Len(H) + Len(R)  OBVIOUS
  <2>2. a \in Len(H) + 1 .. Len(H) + Len(R) /\ b \in Len(H) + 1 .. Len(H) + Len(R)
        /\ a - Len(H) = 1 /\ b - Len(H) = Len(R)
    BY <1>3, <1>9, <2>1
  <2>3. SubSeq(M, a, b) = SubSeq(R, a - Len(H), b - Len(H))
    <3>1. H \in Seq(FrameUnit) /\ R \in Seq(FrameUnit)  BY <1>9
    <3>2. SubSeq(H \o R, a, b) = SubSeq(R, a - Len(H), b - Len(H))
      BY <2>2, <3>1, SubSeqOfConcat2, Zenon
    <3>. QED  BY <1>8, <3>2
  <2>4. SubSeq(R, 1, Len(R)) = R  BY <1>9, SubSeqFull
  <2>5. Body(M) = SubSeq(M, a, b)  BY <1>8, <1>11, <2>1 DEF Body
  <2>. QED  BY <2>2, <2>3, <2>4, <2>5
<1>. QED  BY <1>3, <1>4, <1>5, <1>8, <1>10, <1>11, <1>12, <1>13, <1>14, <1>15, <1>16, <1>17

(* A frame's end is not taken for a frame.                                 *)
LEMMA EndIsNoFrame ==
  ASSUME NEW c \in Seq(Carried), NEW j \in 1 .. Len(FrameOf(c)) - 1
  PROVE  ~ IsFrame(SubSeq(FrameOf(c), j + 1, Len(FrameOf(c))))
<1>1. PICK M, n, m, l : M = FrameOf(c) /\ n = Len(M) /\ m = j + 1 /\ l = SubSeq(M, m, n)
  OBVIOUS
<1>2. n \in Nat /\ m \in 2 .. n /\ M \in Seq(FrameUnit) /\ M[m] \in Framed
  <2>1. n \in Nat  BY <1>1, FrameParts
  <2>2. m \in 2 .. n  BY <1>1, <2>1
  <2>. QED  BY <1>1, <2>1, <2>2, FrameParts
<1>3. \A i \in m .. n : M[i] \in FrameUnit
  <2>1. \A i \in m .. n : i \in 1 .. Len(M)  BY <1>1, <1>2
  <2>. QED  BY <1>2, <2>1, ElementOfSeq
<1>4. l \in Seq(FrameUnit) /\ Len(l) = n - m + 1 /\ l[1] = M[m]
  <2>1. m \in Int /\ n \in Int /\ m <= n /\ 1 \in 1 .. n - m + 1 /\ m + 1 - 1 = m  BY <1>2
  <2>2. /\ SubSeq(M, m, n) \in Seq(FrameUnit)
        /\ Len(SubSeq(M, m, n)) = IF m <= n THEN n - m + 1 ELSE 0
        /\ \A i \in 1 .. n - m + 1 : SubSeq(M, m, n)[i] = M[m + i - 1]
    BY <1>3, <2>1, SubSeqProperties
  <2>. QED  BY <1>1, <2>1, <2>2
<1>5. ASSUME IsFrame(l) PROVE FALSE
  <2>1. 3 <= Len(l) /\ SubSeq(RcvHead, 1, 3) = SubSeq(l, 1, 3)
    BY <1>5, PieceTypes DEF IsFrame, IsPrefix
  <2>2. 3 \in 0 .. Len(l) /\ 3 \in 0 .. Len(RcvHead) /\ 1 \in 1 .. 3
    BY <1>2, <1>4, <2>1, PieceTypes
  <2>3. RcvHead \in Seq(FrameUnit)  BY PieceTypes DEF Pieces
  <2>4. SubSeq(l, 1, 3)[1] = l[1] /\ SubSeq(RcvHead, 1, 3)[1] = RcvHead[1]
    BY <1>4, <2>2, <2>3, StartOf
  <2>5. M[m] = RcvMark  BY <1>4, <2>1, <2>4, PieceTypes
  <2>. QED  BY <1>2, <2>5, FramedUnits
<1>. QED  BY <1>1, <1>5

(* What stands before the first comma.                                     *)
LEMMA UpToCommaParts ==
  ASSUME NEW U, NEW s \in Seq(U)
  PROVE  /\ UpToComma(s) = UpTo(s, {Comma})
         /\ \E m \in 0 .. Len(s) : /\ UpToComma(s) = SubSeq(s, 1, m)
                                   /\ \A i \in 1 .. m : s[i] # Comma
                                   /\ m # Len(s) => s[m + 1] = Comma
<1>1. UpToComma(s) = UpTo(s, {Comma})  BY DEF UpToComma, Before, UpTo, Comma
<1>2. PICK K : K = {Comma}  OBVIOUS
<1>3. \E m \in 0 .. Len(s) : /\ UpTo(s, K) = SubSeq(s, 1, m)
                             /\ \A i \in 1 .. m : s[i] \notin K
                             /\ m # Len(s) => s[m + 1] \in K
  BY UpToParts
<1>. QED  BY <1>1, <1>2, <1>3

(* Without a comma that is all.                                            *)
LEMMA NoComma ==
  ASSUME NEW U, NEW s \in Seq(U), \A i \in 1 .. Len(s) : s[i] # Comma
  PROVE  UpToComma(s) = s /\ Commas(s) = {}
<1>1. Len(s) \in Nat /\ DOMAIN s = 1 .. Len(s)  BY LenProperties
<1>2. PICK m \in 0 .. Len(s) : /\ UpToComma(s) = SubSeq(s, 1, m)
                               /\ m # Len(s) => s[m + 1] = Comma
  BY UpToCommaParts
<1>3. m = Len(s)
  <2>. SUFFICES ASSUME m # Len(s) PROVE FALSE  OBVIOUS
  <2>1. PICK n : n = Len(s)  OBVIOUS
  <2>2. n \in Nat /\ m \in 0 .. n /\ m # n  BY <1>1, <2>1
  <2>3. m + 1 \in 1 .. n  BY <2>2
  <2>. QED  BY <1>2, <2>1, <2>3
<1>4. UpToComma(s) = s  BY <1>2, <1>3, SubSeqFull
<1>5. Commas(s) = {}  BY <1>1 DEF Commas, Comma
<1>. QED  BY <1>4, <1>5

(* The data of a frame is its content, up to a comma.                      *)
LEMMA FrameData ==
  ASSUME NEW c \in Seq(Carried)
  PROVE  data(FrameOf(c)) = UpToComma(c) /\ Sent(FrameOf(c)) = c
<1>1. PICK M, R, d : M = FrameOf(c) /\ R = Rest(c) /\ d = data(M)  OBVIOUS
<1>2. Body(M) = R /\ R \in Seq(Framed) /\ c \o Fields \in Seq(Framed)  BY <1>1, FrameParts
<1>3. d = UpToComma(R)  BY <1>1, <1>2 DEF data
<1>4. c \in Seq(Framed) /\ Len(c) \in Nat
  <2>1. Carried \subseteq Framed  BY DEF Framed
  <2>. QED  BY <2>1, SeqMonotonic, LenProperties
<1>5. /\ Len(R) = Len(c) + 2 + 2
      /\ \A i \in 1 .. Len(c) : R[i] = c[i]
      /\ R[Len(c) + 1] = Comma
  <2>0. PICK F, T : F = Fields /\ T = RcvTail  OBVIOUS
  <2>1. PICK e : e = c \o F  OBVIOUS
  <2>7. F \in Seq(Framed) /\ T \in Seq(Framed) /\ Len(F) = 2 /\ Len(T) = 2 /\ F[1] = Comma
    BY <2>0, PieceTypes
  <2>2. e \in Seq(Framed) /\ Len(e) = Len(c) + 2
        /\ \A i \in 1 .. Len(c) + 2 : e[i] = IF i <= Len(c) THEN c[i] ELSE F[i - Len(c)]
    <3>1. e \in Seq(Framed)  BY <1>4, <2>1, <2>7, ConcatFramed
    <3>2. Joins(e, c, F)  BY <1>4, <2>1, <2>7, ConcatJoins, Zenon
    <3>. QED  BY <2>7, <3>1, <3>2 DEF Joins
  <2>3. R = e \o T  BY <1>1, <2>0, <2>1 DEF Rest
  <2>4. Len(R) = Len(e) + 2
        /\ \A i \in 1 .. Len(e) + 2 : R[i] = IF i <= Len(e) THEN e[i] ELSE T[i - Len(e)]
    <3>1. Joins(R, e, T)  BY <2>2, <2>3, <2>7, ConcatJoins, Zenon
    <3>. QED  BY <2>7, <3>1 DEF Joins
  <2>5. \A i \in 1 .. Len(c) : i \in 1 .. Len(c) + 2 /\ i \in 1 .. Len(e) + 2 /\ i <= Len(e)
    BY <1>4, <2>2
  <2>6. Len(c) + 1 \in 1 .. Len(c) + 2 /\ Len(c) + 1 \in 1 .. Len(e) + 2
        /\ Len(c) + 1 <= Len(e) /\ ~ (Len(c) + 1 <= Len(c)) /\ Len(c) + 1 - Len(c) = 1
    BY <1>4, <2>2
  <2>. QED  BY <2>2, <2>4, <2>5, <2>6, <2>7
<1>6. PICK m \in 0 .. Len(R) : /\ d = SubSeq(R, 1, m)
                               /\ \A i \in 1 .. m : R[i] # Comma
                               /\ m # Len(R) => R[m + 1] = Comma
  BY <1>2, <1>3, UpToCommaParts
<1>7. PICK k \in 0 .. Len(c) : /\ UpToComma(c) = SubSeq(c, 1, k)
                               /\ \A i \in 1 .. k : c[i] # Comma
                               /\ k # Len(c) => c[k + 1] = Comma
  BY UpToCommaParts
<1>8. R[k + 1] = Comma
  <2>1. CASE k = Len(c)  BY <1>5, <2>1
  <2>2. CASE k # Len(c)
    <3>1. k + 1 \in 1 .. Len(c)  BY <1>4, <2>2
    <3>. QED  BY <1>5, <1>7, <2>2, <3>1
  <2>. QED  BY <2>1, <2>2
<1>9. m = k
  <2>1. CASE m < k
    <3>1. m + 1 \in 1 .. k /\ m + 1 \in 1 .. Len(c) /\ m # Len(R)  BY <1>4, <1>5, <2>1
    <3>. QED  BY <1>5, <1>6, <1>7, <3>1
  <2>2. CASE m > k
    <3>1. k + 1 \in 1 .. m  BY <1>4, <1>5, <2>2
    <3>. QED  BY <1>6, <1>8, <3>1
  <2>. QED  BY <1>4, <1>5, <2>1, <2>2
<1>10. ASSUME NEW j \in 0 .. Len(c) PROVE SubSeq(R, 1, j) = SubSeq(c, 1, j)
  <2>1. j \in 0 .. Len(R)  BY <1>4, <1>5
  <2>2. PICK x, y : x = SubSeq(R, 1, j) /\ y = SubSeq(c, 1, j)  OBVIOUS
  <2>3. x \in Seq(Framed) /\ Len(x) = j /\ \A i \in 1 .. j : x[i] = R[i]
    BY <1>2, <2>1, <2>2, StartOf
  <2>4. y \in Seq(Framed) /\ Len(y) = j /\ \A i \in 1 .. j : y[i] = c[i]
    BY <1>4, <2>2, StartOf
  <2>5. \A i \in 1 .. j : x[i] = y[i]
    <3>1. \A i \in 1 .. j : i \in 1 .. Len(c)  BY <1>4
    <3>. QED  BY <1>5, <2>3, <2>4, <3>1
  <2>6. x = y  BY <2>3, <2>4, <2>5, SeqEqual
  <2>. QED  BY <2>2, <2>6
<1>11. d = UpToComma(c)  BY <1>6, <1>7, <1>9, <1>10
<1>12. Sent(M) = c
  <2>1. Len(R) - Len(Fields) - Len(RcvTail) = Len(c)  BY <1>4, <1>5, PieceTypes
  <2>2. Sent(M) = SubSeq(R, 1, Len(c))  BY <1>2, <2>1 DEF Sent
  <2>3. Len(c) \in 0 .. Len(c)  BY <1>4
  <2>4. SubSeq(c, 1, Len(c)) = c  BY <1>4, SubSeqFull
  <2>. QED  BY <1>10, <2>2, <2>3, <2>4
<1>. QED  BY <1>1, <1>11, <1>12

(* A content without a comma can be scanned.                               *)
LEMMA NoCommaScanned ==
  ASSUME NEW c \in Seq(Carried), Len(c) # 0, \A i \in 1 .. Len(c) : c[i] # Comma
  PROVE  Scanned(FrameOf(c)) /\ data(FrameOf(c)) = c /\ Commas(Sent(FrameOf(c))) = {}
<1>1. UpToComma(c) = c /\ Commas(c) = {}  BY NoComma
<1>2. data(FrameOf(c)) = c /\ Sent(FrameOf(c)) = c  BY <1>1, FrameData
<1>3. c # << >>
  <2>1. Len(<< >>) = 0  OBVIOUS
  <2>. QED  BY <2>1
<1>. QED  BY <1>1, <1>2, <1>3 DEF Scanned

----------------------------------------------------------------------------
(* What the other board reads and scans.                                   *)

(* What Air's bytes are read to.                                           *)
LEMMA FrameHeard ==
  ASSUME NEW c \in Seq(Carried), NEW extra \in {<< >>, <<LF>>, CRLF}, NEW b,
         b = extra \o RcvHead \o (c \o Fields) \o RcvTail \o CRLF
  PROVE  \E out : /\ FoldLeft(ReadByte, Reader(<< >>, FALSE, << >>), b) = Reader(<< >>, FALSE, out)
                  /\ ReadOut(FrameOf(c), out)
<1>1. PICK M, d, H, T : M = FrameOf(c) /\ d = c \o Fields /\ H = RcvHead /\ T = RcvTail
  OBVIOUS
<1>2. Framed \subseteq FrameUnit  BY DEF FrameUnit
<1>3. /\ extra \in Seq(FrameUnit) /\ H \in Seq(FrameUnit) /\ T \in Seq(FrameUnit)
      /\ CRLF \in Seq(FrameUnit) /\ d \in Seq(FrameUnit) /\ M \in Seq(FrameUnit)
  <2>1. c \o Fields \in Seq(Framed) /\ FrameOf(c) \in Seq(FrameUnit)  BY FrameParts
  <2>2. d \in Seq(FrameUnit)  BY <1>1, <1>2, <2>1, SeqMonotonic
  <2>. QED  BY <1>1, <2>1, <2>2, PieceTypes DEF Pieces
<1>4. M = H \o (d \o T)  BY <1>1 DEF FrameOf, Rest
<1>5. b = (extra \o M) \o CRLF
  <2>0. extra \in Seq(FrameUnit) /\ H \in Seq(FrameUnit) /\ T \in Seq(FrameUnit)
        /\ d \in Seq(FrameUnit)
    BY <1>3
  <2>1. Associates(extra, H, d) /\ Associates(H, d, T)  BY <2>0, ConcatAssociates, Zenon
  <2>2. H \o d \in Seq(FrameUnit)  BY <2>0, ConcatProperties, Zenon
  <2>3. Associates(extra, H \o d, T)  BY <2>0, <2>2, ConcatAssociates, Zenon
  <2>4. ((extra \o H) \o d) \o T = extra \o M  BY <1>4, <2>1, <2>3 DEF Associates
  <2>. QED  BY <1>1, <2>4
<1>6. PICK e, n : e = Len(extra) /\ n = Len(M)  OBVIOUS
<1>7. e \in Nat /\ n \in Nat /\ n # 0 /\ Len(CRLF) = 2
  <2>1. Len(FrameOf(c)) = Len(c) + 7 /\ Len(c) \in Nat  BY FrameParts
  <2>. QED  BY <1>1, <1>3, <1>6, <2>1, LenProperties, PieceTypes
<1>8. PICK a : a = extra \o M  OBVIOUS
<1>9. a \in Seq(FrameUnit) /\ Len(a) = e + n
      /\ \A i \in 1 .. e + n : a[i] = IF i <= e THEN extra[i] ELSE M[i - e]
  BY <1>3, <1>6, <1>8, ConcatProperties
<1>10. /\ Len(b) = e + n + 2 /\ DOMAIN b = 1 .. e + n + 2
       /\ \A i \in 1 .. e + n + 2 : b[i] = IF i <= e + n THEN a[i] ELSE CRLF[i - (e + n)]
  <2>1. b \in Seq(FrameUnit) /\ Len(b) = Len(a) + Len(CRLF)
        /\ \A i \in 1 .. Len(a) + Len(CRLF) : b[i] = IF i <= Len(a) THEN a[i] ELSE CRLF[i - Len(a)]
    BY <1>3, <1>5, <1>8, <1>9, ConcatProperties
  <2>. QED  BY <1>7, <1>9, <2>1, LenProperties
<1>11. ASSUME NEW i \in 1 .. e PROVE b[i] \in LineEnd
  <2>1. i \in 1 .. e + n + 2 /\ i \in 1 .. e + n /\ i <= e + n /\ i <= e  BY <1>7
  <2>2. b[i] = extra[i]  BY <1>9, <1>10, <2>1
  <2>3. extra[i] \in LineEnd
    <3>1. CASE extra = << >>  BY <1>6, <3>1
    <3>2. CASE extra = <<LF>>
      <4>1. e = 1  BY <1>6, <3>2
      <4>2. i = 1  BY <4>1
      <4>. QED  BY <3>2, <4>2 DEF LineEnd
    <3>3. CASE extra = CRLF
      <4>1. e = 2  BY <1>6, <1>7, <3>3
      <4>2. i = 1 \/ i = 2  BY <4>1
      <4>3. CRLF[1] = CR /\ CRLF[2] = LF  BY DEF CRLF
      <4>. QED  BY <3>3, <4>2, <4>3 DEF LineEnd
    <3>. QED  BY <3>1, <3>2, <3>3
  <2>. QED  BY <2>2, <2>3
<1>12. ASSUME NEW i \in 1 .. n PROVE b[e + i] = M[i]
  <2>1. PICK p : p = e + i  OBVIOUS
  <2>2. p \in 1 .. e + n + 2 /\ p \in 1 .. e + n /\ p <= e + n /\ ~ (p <= e) /\ p - e = i
    BY <1>7, <2>1
  <2>3. b[p] = a[p]  BY <1>10, <2>2
  <2>4. a[p] = M[p - e]  BY <1>9, <2>2
  <2>. QED  BY <2>1, <2>2, <2>3, <2>4
<1>13. b[e + n + 1] = CR /\ b[e + n + 2] = LF
  <2>1. PICK p, r : p = e + n + 1 /\ r = e + n + 2  OBVIOUS
  <2>2. /\ p \in 1 .. e + n + 2 /\ ~ (p <= e + n) /\ p - (e + n) = 1
        /\ r \in 1 .. e + n + 2 /\ ~ (r <= e + n) /\ r - (e + n) = 2
    BY <1>7, <2>1
  <2>3. CRLF[1] = CR /\ CRLF[2] = LF  BY DEF CRLF
  <2>4. b[p] = CRLF[p - (e + n)] /\ b[r] = CRLF[r - (e + n)]  BY <1>10, <2>2
  <2>5. b[p] = CR /\ b[r] = LF  BY <2>2, <2>3, <2>4
  <2>. QED  BY <2>1, <2>5
<1>14. \A i \in 1 .. n : M[i] \notin LineEnd  BY <1>1, <1>6, FrameParts
<1>15. FramedBytes(b, e, M, n)
  BY <1>6, <1>7, <1>10, <1>11, <1>12, <1>13, <1>14 DEF FramedBytes
<1>16. \E out : /\ FoldLeft(ReadByte, Reader(<< >>, FALSE, << >>), b) = Reader(<< >>, FALSE, out)
                /\ ReadOut(M, out)
  <2>1. M \in Seq(FrameUnit)  BY <1>3
  <2>. QED  BY <1>15, <2>1, ReadFrame
<1>. QED  BY <1>1, <1>16

FramesIn(out) == {l \in ToSet(out) : IsFrame(l) /\ Scanned(l)}

(* No line but the frame itself is taken for a frame: the end of one that  *)
(* was too long has no head.                                               *)
LEMMA WhatIsHeard ==
  ASSUME NEW c \in Seq(Carried), NEW out, ReadOut(FrameOf(c), out)
  PROVE  /\ FramesIn(out) \subseteq {FrameOf(c)}
         /\ \A l \in ToSet(out) : Len(l) < LINE
         /\ Len(FrameOf(c)) < LINE /\ Scanned(FrameOf(c)) => FramesIn(out) = {FrameOf(c)}
<1>1. PICK M, n : M = FrameOf(c) /\ n = Len(M)  OBVIOUS
<1>2. M \in Seq(FrameUnit) /\ IsFrame(M) /\ n \in Nat /\ n # 0
  <2>1. Len(FrameOf(c)) = Len(c) + 7 /\ Len(c) \in Nat  BY FrameParts
  <2>. QED  BY <1>1, <2>1, FrameParts
<1>3. PICK j \in 0 .. n : n - j < LINE /\ (n < LINE => j = 0) /\ out = Kept(M, j)
  BY <1>1 DEF ReadOut
<1>4. CASE j = n
  <2>1. out = << >>  BY <1>1, <1>3, <1>4 DEF Kept
  <2>2. ToSet(out) = {}  BY <2>1 DEF ToSet
  <2>3. ~ (n < LINE)  BY <1>2, <1>3, <1>4
  <2>. QED  BY <1>1, <2>2, <2>3 DEF FramesIn
<1>5. CASE j # n
  <2>1. PICK l : l = SubSeq(M, j + 1, n)  OBVIOUS
  <2>2. out = <<l>>  BY <1>1, <1>3, <1>5, <2>1 DEF Kept
  <2>3. ToSet(out) = {l}  BY <2>2 DEF ToSet
  <2>4. Len(l) = n - j
    <3>1. PICK m : m = j + 1  OBVIOUS
    <3>2. m \in Int /\ n \in Int /\ m <= n /\ n - m + 1 = n - j  BY <1>2, <1>3, <1>5, <3>1
    <3>3. \A i \in m .. n : M[i] \in FrameUnit
      <4>1. \A i \in m .. n : i \in 1 .. Len(M)  BY <1>1, <1>2, <3>1
      <4>. QED  BY <1>2, <4>1, ElementOfSeq
    <3>. QED  BY <2>1, <3>1, <3>2, <3>3, SubSeqProperties
  <2>5. Len(l) < LINE  BY <1>3, <2>4
  <2>6. j = 0 => l = M
    <3>1. j = 0 => j + 1 = 1  OBVIOUS
    <3>. QED  BY <1>1, <1>2, <2>1, <3>1, SubSeqFull
  <2>7. j # 0 => ~ IsFrame(l)
    <3>1. j # 0 => j \in 1 .. n - 1  BY <1>2, <1>3, <1>5
    <3>. QED  BY <1>1, <2>1, <3>1, EndIsNoFrame
  <2>. QED  BY <1>1, <1>2, <1>3, <2>3, <2>5, <2>6, <2>7 DEF FramesIn
<1>. QED  BY <1>4, <1>5

----------------------------------------------------------------------------
(* The command of a content.                                               *)

Formatted(c, alone) ==
  LET whole == Cut(c \o Fields, PAYLOAD)
  IN  [data |-> Cut(whole, COMMAND - SendHead), told |-> Len(c \o Fields),
       ended |-> SendHead + Len(whole) + 2 < COMMAND, alone |-> alone]

CommandFor(kind, c, alone) ==
  IF kind = "AT" THEN [data |-> c, told |-> Len(c), ended |-> TRUE, alone |-> alone]
  ELSE Formatted(c, alone)

(* A command that is as long as it says has the whole content, which has   *)
(* room in message; and one that fits says how long it is.                 *)
LEMMA FormattedWhole ==
  ASSUME NEW c \in Seq(Carried), NEW alone
  PROVE  /\ Formatted(c, alone).alone = alone
         /\ Formatted(c, alone).told = Len(Formatted(c, alone).data) =>
              Formatted(c, alone).data = c \o Fields /\ Len(c) < MESSAGE - 1
         /\ Len(c) + 2 < PAYLOAD /\ SendHead + (Len(c) + 2) + 2 < COMMAND =>
              /\ Formatted(c, alone).data = c \o Fields
              /\ Formatted(c, alone).told = Len(Formatted(c, alone).data)
              /\ Formatted(c, alone).ended
<1>1. PICK p, w, x : p = c \o Fields /\ w = Cut(p, PAYLOAD) /\ x = Cut(w, COMMAND - SendHead)
  OBVIOUS
<1>2. p \in Seq(Framed) /\ Len(p) = Len(c) + 2 /\ Len(c) \in Nat  BY <1>1, FrameParts
<1>3. PICK k : k = COMMAND - SendHead  OBVIOUS
<1>4. /\ PAYLOAD \in Nat \ {0} /\ k \in Nat \ {0} /\ SendHead = 1 /\ MESSAGE \in Nat
      /\ COMMAND \in Nat /\ k = COMMAND - 1 /\ PAYLOAD < MESSAGE + 2
  BY <1>3, Sizes DEF SendHead
<1>5. /\ w \in Seq(Framed) /\ Len(w) \in Nat
      /\ Len(w) = IF Len(p) < PAYLOAD THEN Len(p) ELSE PAYLOAD - 1
      /\ Len(p) < PAYLOAD => w = p
  <2>1. p \in Seq(Framed) /\ PAYLOAD \in Nat \ {0}  BY <1>2, <1>4
  <2>2. PICK z : z = PAYLOAD  OBVIOUS
  <2>3. z \in Nat \ {0} /\ w = Cut(p, z)  BY <1>1, <2>1, <2>2
  <2>4. /\ w \in Seq(Framed) /\ Len(w) \in Nat
        /\ Len(w) = IF Len(p) < z THEN Len(p) ELSE z - 1
        /\ Len(p) < z => w = p
    BY <2>1, <2>3, CutParts
  <2>. QED  BY <2>2, <2>4
<1>6. /\ x \in Seq(Framed) /\ Len(x) \in Nat
      /\ Len(x) = IF Len(w) < k THEN Len(w) ELSE k - 1
      /\ Len(w) < k => x = w
  BY <1>1, <1>3, <1>4, <1>5, CutParts
<1>7. /\ Formatted(c, alone).data = x /\ Formatted(c, alone).told = Len(p)
      /\ Formatted(c, alone).ended = (SendHead + Len(w) + 2 < COMMAND)
      /\ Formatted(c, alone).alone = alone
  BY <1>1 DEF Formatted
<1>8. ASSUME Len(p) = Len(x) PROVE x = p /\ Len(c) < MESSAGE - 1
  <2>1. Len(p) < PAYLOAD /\ Len(w) < k  BY <1>2, <1>4, <1>5, <1>6, <1>8
  <2>2. Len(c) < MESSAGE - 1  BY <1>2, <1>4, <2>1
  <2>. QED  BY <1>5, <1>6, <2>1, <2>2
<1>9. ASSUME Len(c) + 2 < PAYLOAD, SendHead + (Len(c) + 2) + 2 < COMMAND
      PROVE  x = p /\ SendHead + Len(w) + 2 < COMMAND
  <2>1. w = p /\ Len(w) < k  BY <1>2, <1>4, <1>5, <1>9
  <2>. QED  BY <1>2, <1>6, <1>9, <2>1
<1>. QED  BY <1>1, <1>7, <1>8, <1>9

----------------------------------------------------------------------------
(* The inductive invariant: between two texts the reader is between two    *)
(* lines, and the stages of a text's way follow from the text.             *)

KindIs ==
  /\ stage \in {"idle", "typed", "stored", "sent", "heard", "done"}
  /\ typed \in Texts \cup {NULL}
  /\ (stage = "idle") = (typed = NULL)
  /\ pending \in BOOLEAN
  /\ line = << >> /\ saw_cr = FALSE

ContentIs ==
  IF stage \in {"idle", "typed"} THEN content = << >> ELSE content \in Contents(typed)

CommandIs ==
  stage \in {"sent", "heard", "done"} =>
    \E alone : command = CommandFor(KindOf(typed), content, alone) /\ command.alone = alone

Heard == KindOf(typed) # "AT" /\ Taken /\ ReadOut(FrameOf(content), received)

Shows ==
  IF Frames = {} THEN {NULL}
  ELSE UNION {ShownOf(l) : l \in Frames}

ReceivedIs ==
  /\ stage \notin {"heard", "done"} => received = << >>
  /\ stage = "heard" => Heard
  /\ stage = "done" =>
       \/ Heard /\ shown \in Shows
       \/ (KindOf(typed) = "AT" \/ ~ Taken) /\ received = << >> /\ shown = NULL

ShownIs == stage # "done" => shown = NULL

TextInv == KindIs /\ ContentIs /\ CommandIs /\ ReceivedIs /\ ShownIs

(* The invariant holds at the start, and every action keeps it.            *)
LEMMA TextInit == Init => TextInv
<1>. SUFFICES ASSUME Init PROVE TextInv  OBVIOUS
<1>1. stage = "idle" /\ typed = NULL /\ content = << >> /\ pending = FALSE /\ line = << >>
      /\ saw_cr = FALSE /\ received = << >> /\ shown = NULL
  BY DEF Init
<1>. QED  BY <1>1 DEF TextInv, KindIs, ContentIs, CommandIs, ReceivedIs, ShownIs

(* A text is typed.                                                        *)
LEMMA TypeStep == TextInv /\ Type => TextInv'
<1>. SUFFICES ASSUME TextInv, Type PROVE TextInv'  OBVIOUS
<1>1. /\ stage = "idle" /\ stage' = "typed" /\ typed' \in Texts
      /\ content' = content /\ pending' = pending /\ line' = line /\ saw_cr' = saw_cr
      /\ received' = received /\ shown' = shown
  BY DEF Type
<1>2. NULL \notin Texts  BY TextPathAssumption
<1>3. /\ content = << >> /\ pending \in BOOLEAN /\ line = << >> /\ saw_cr = FALSE
      /\ received = << >> /\ shown = NULL
  BY <1>1 DEF TextInv, KindIs, ContentIs, ReceivedIs, ShownIs
<1>. QED  BY <1>1, <1>2, <1>3 DEF TextInv, KindIs, ContentIs, CommandIs, ReceivedIs, ShownIs

(* Its content is stored.                                                  *)
LEMMA SendPostStep == TextInv /\ send_post_handler => TextInv'
<1>. SUFFICES ASSUME TextInv, send_post_handler PROVE TextInv'  OBVIOUS
<1>1. /\ stage = "typed" /\ stage' = "stored" /\ typed' = typed
      /\ pending' = pending /\ line' = line /\ saw_cr' = saw_cr
      /\ received' = received /\ shown' = shown
  BY DEF send_post_handler
<1>2. /\ typed \in Texts /\ typed # NULL /\ pending \in BOOLEAN /\ line = << >>
      /\ saw_cr = FALSE /\ received = << >> /\ shown = NULL
  BY <1>1 DEF TextInv, KindIs, ReceivedIs, ShownIs
<1>3. content' \in Contents(typed)
  <2>1. Kind = KindOf(typed)  BY DEF Kind, KindOf
  <2>2. KindOf(typed) = "chat" \/ KindOf(typed) = "AT" \/ KindOf(typed) = "SYS"  BY DEF KindOf
  <2>3. PICK m : m = Message(typed)  OBVIOUS
  <2>4. (CASE Kind = "chat" -> content' = ChatContent(m)
           [] Kind = "AT"   -> content' = CommandContent(m)
           [] Kind = "SYS"  -> content' \in Names(CommandContent(m)))
    BY <2>3 DEF send_post_handler, Message
  <2>5. CASE KindOf(typed) = "chat"
    <3>1. content' = ChatContent(m)  BY <2>1, <2>4, <2>5
    <3>. QED  BY <2>3, <2>5, <3>1 DEF Contents
  <2>6. CASE KindOf(typed) = "AT"
    <3>1. content' = CommandContent(m)  BY <2>1, <2>4, <2>6
    <3>. QED  BY <2>3, <2>6, <3>1 DEF Contents
  <2>7. CASE KindOf(typed) = "SYS"
    <3>1. content' \in Names(CommandContent(m))  BY <2>1, <2>4, <2>7
    <3>. QED  BY <2>3, <2>7, <3>1 DEF Contents
  <2>. QED  BY <2>2, <2>5, <2>6, <2>7
<1>. QED  BY <1>1, <1>2, <1>3 DEF TextInv, KindIs, ContentIs, CommandIs, ReceivedIs, ShownIs

(* The command for the chip is made.                                       *)
LEMMA SendStep == TextInv /\ send_message_blocking => TextInv'
<1>. SUFFICES ASSUME TextInv, send_message_blocking PROVE TextInv'  OBVIOUS
<1>1. /\ stage = "stored" /\ stage' = "sent" /\ typed' = typed /\ content' = content
      /\ pending' = pending /\ line' = line /\ saw_cr' = saw_cr
      /\ received' = received /\ shown' = shown
      /\ command' = IF Kind = "AT"
                    THEN [data |-> content, told |-> Len(content), ended |-> TRUE,
                          alone |-> ~ pending]
                    ELSE format_message_command
  BY DEF send_message_blocking
<1>2. /\ typed \in Texts /\ typed # NULL /\ pending \in BOOLEAN /\ line = << >>
      /\ saw_cr = FALSE /\ received = << >> /\ shown = NULL /\ content \in Contents(typed)
  BY <1>1 DEF TextInv, KindIs, ContentIs, ReceivedIs, ShownIs
<1>3. command' = CommandFor(KindOf(typed), content, ~ pending)
  <2>1. Kind = KindOf(typed)  BY DEF Kind, KindOf
  <2>2. format_message_command = Formatted(content, ~ pending)
    BY DEF format_message_command, Formatted, payload
  <2>. QED  BY <1>1, <2>1, <2>2 DEF CommandFor
<1>4. command'.alone = ~ pending  BY <1>3 DEF CommandFor, Formatted
<1>5. \E alone : command' = CommandFor(KindOf(typed), content, alone) /\ command'.alone = alone
  BY <1>3, <1>4
<1>. QED  BY <1>1, <1>2, <1>5 DEF TextInv, KindIs, ContentIs, CommandIs, ReceivedIs, ShownIs

(* A taken command of a chat message or a name carries all of its content. *)
LEMMA TakenWhole ==
  ASSUME TextInv, stage \in {"sent", "heard", "done"}, KindOf(typed) # "AT", Taken
  PROVE  /\ typed \in Texts /\ content \in Contents(typed) /\ content \in Seq(Carried)
         /\ command.data = content \o Fields
         /\ Len(content) < MESSAGE - 1
<1>1. typed \in Texts /\ content \in Contents(typed)
  BY DEF TextInv, KindIs, ContentIs
<1>2. content \in Seq(Carried)  BY <1>1, ContentsType
<1>3. PICK alone : command = CommandFor(KindOf(typed), content, alone)
  BY DEF TextInv, CommandIs
<1>4. command = Formatted(content, alone)  BY <1>3 DEF CommandFor
<1>5. command.told = Len(command.data)  BY DEF Taken
<1>6. command.data = content \o Fields /\ Len(content) < MESSAGE - 1
  BY <1>2, <1>4, <1>5, FormattedWhole
<1>. QED  BY <1>1, <1>2, <1>6

(* The frame is heard.                                                     *)
LEMMA AirStep == TextInv /\ Air => TextInv'
<1>. SUFFICES ASSUME TextInv, Air PROVE TextInv'  OBVIOUS
<1>1. /\ stage = "sent" /\ stage' = "heard" /\ typed' = typed /\ content' = content
      /\ command' = command /\ pending' = pending /\ shown' = shown
      /\ Kind # "AT" /\ Taken
  BY DEF Air
<1>2. PICK b \in Bytes :
        LET read == FoldLeft(ReadByte, [line |-> line, saw_cr |-> saw_cr, out |-> << >>], b)
        IN  line' = read.line /\ saw_cr' = read.saw_cr /\ received' = read.out
  BY DEF Air
<1>3. line = << >> /\ saw_cr = FALSE /\ KindOf(typed) # "AT"
      /\ typed # NULL /\ pending \in BOOLEAN /\ shown = NULL
  BY <1>1 DEF TextInv, KindIs, ShownIs, Kind, KindOf
<1>4. /\ typed \in Texts /\ content \in Contents(typed) /\ content \in Seq(Carried)
      /\ command.data = content \o Fields
  BY <1>1, <1>3, TakenWhole
<1>5. PICK extra \in {<< >>, <<LF>>, CRLF} :
        b = extra \o RcvHead \o command.data \o RcvTail \o CRLF
  BY <1>2 DEF Bytes
<1>6. PICK out : /\ FoldLeft(ReadByte, Reader(<< >>, FALSE, << >>), b) = Reader(<< >>, FALSE, out)
                 /\ ReadOut(FrameOf(content), out)
  BY <1>4, <1>5, FrameHeard
<1>7. line' = << >> /\ saw_cr' = FALSE /\ received' = out
  <2>1. [line |-> line, saw_cr |-> saw_cr, out |-> << >>] = Reader(<< >>, FALSE, << >>)
    BY <1>3 DEF Reader
  <2>2. PICK r : r = Reader(<< >>, FALSE, out)  OBVIOUS
  <2>3. line' = r.line /\ saw_cr' = r.saw_cr /\ received' = r.out  BY <1>2, <1>6, <2>1, <2>2
  <2>. QED  BY <2>2, <2>3 DEF Reader
<1>8. Taken'
  <2>1. Taken  BY <1>1
  <2>. QED  BY <1>1, <2>1 DEF Taken
<1>9. Heard'  BY <1>1, <1>3, <1>6, <1>7, <1>8 DEF Heard
<1>10. KindIs'  BY <1>1, <1>3, <1>4, <1>7 DEF KindIs
<1>11. ContentIs'  BY <1>1, <1>4 DEF ContentIs
<1>12. CommandIs'  BY <1>1 DEF TextInv, CommandIs
<1>. QED  BY <1>1, <1>3, <1>9, <1>10, <1>11, <1>12 DEF TextInv, ReceivedIs, ShownIs

(* The command is refused, or is none for the air.                         *)
LEMMA RefuseStep == TextInv /\ Refuse => TextInv'
<1>. SUFFICES ASSUME TextInv, Refuse PROVE TextInv'  OBVIOUS
<1>1. /\ stage = "sent" /\ stage' = "done" /\ typed' = typed /\ content' = content
      /\ command' = command /\ line' = line /\ saw_cr' = saw_cr
      /\ received' = received /\ shown' = shown
      /\ (Kind = "AT" \/ ~ Taken) /\ pending' = ~ command.ended
  BY DEF Refuse
<1>2. /\ typed \in Texts /\ typed # NULL /\ line = << >> /\ saw_cr = FALSE
      /\ received = << >> /\ shown = NULL /\ content \in Contents(typed)
  BY <1>1 DEF TextInv, KindIs, ContentIs, ReceivedIs, ShownIs
<1>3. pending' \in BOOLEAN  BY <1>1
<1>4. KindOf(typed') = "AT" \/ ~ Taken'
  <2>1. Kind = KindOf(typed)  BY DEF Kind, KindOf
  <2>2. Taken' = Taken  BY <1>1 DEF Taken
  <2>. QED  BY <1>1, <2>1, <2>2
<1>5. KindIs'  BY <1>1, <1>2, <1>3 DEF KindIs
<1>6. ContentIs'  BY <1>1, <1>2 DEF ContentIs
<1>7. CommandIs'  BY <1>1 DEF TextInv, CommandIs
<1>8. ReceivedIs'  BY <1>1, <1>2, <1>4 DEF ReceivedIs
<1>. QED  BY <1>1, <1>5, <1>6, <1>7, <1>8 DEF TextInv, ShownIs

(* The frame is scanned and shown.                                         *)
LEMMA ShowStep == TextInv /\ Show => TextInv'
<1>. SUFFICES ASSUME TextInv, Show PROVE TextInv'  OBVIOUS
<1>1. /\ stage = "heard" /\ stage' = "done" /\ typed' = typed /\ content' = content
      /\ command' = command /\ line' = line /\ saw_cr' = saw_cr /\ pending' = pending
      /\ received' = received /\ shown' \in Shows
  BY DEF Show, Shows
<1>2. /\ typed \in Texts /\ typed # NULL /\ line = << >> /\ saw_cr = FALSE
      /\ pending \in BOOLEAN /\ content \in Contents(typed) /\ Heard
  BY <1>1 DEF TextInv, KindIs, ContentIs, ReceivedIs
<1>3. Heard' /\ Shows' = Shows
  BY <1>1, <1>2 DEF Heard, Taken, Shows, Frames
<1>4. KindIs'  BY <1>1, <1>2 DEF KindIs
<1>5. ContentIs'  BY <1>1, <1>2 DEF ContentIs
<1>6. CommandIs'  BY <1>1 DEF TextInv, CommandIs
<1>7. ReceivedIs'  BY <1>1, <1>3 DEF ReceivedIs
<1>. QED  BY <1>1, <1>4, <1>5, <1>6, <1>7 DEF TextInv, ShownIs

(* Room for the next text.                                                 *)
LEMMA DoneStep == TextInv /\ Done => TextInv'
<1>. SUFFICES ASSUME TextInv, Done PROVE TextInv'  OBVIOUS
<1>1. /\ stage = "done" /\ stage' = "idle" /\ typed' = NULL /\ content' = << >>
      /\ line' = line /\ saw_cr' = saw_cr /\ pending' = pending
      /\ received' = << >> /\ shown' = NULL
  BY DEF Done
<1>2. line = << >> /\ saw_cr = FALSE /\ pending \in BOOLEAN  BY DEF TextInv, KindIs
<1>. QED  BY <1>1, <1>2 DEF TextInv, KindIs, ContentIs, CommandIs, ReceivedIs, ShownIs

(* Every step keeps it.                                                    *)
LEMMA TextStep == TextInv /\ [Next]_vars => TextInv'
<1>1. ASSUME TextInv, UNCHANGED vars PROVE TextInv'
  BY <1>1 DEF vars, TextInv, KindIs, ContentIs, CommandIs, ReceivedIs, ShownIs, Heard, Taken,
              Shows, Frames
<1>. QED
  BY <1>1, TypeStep, SendPostStep, SendStep, AirStep, RefuseStep, ShowStep, DoneStep DEF Next

(* Between two texts the byte reader is between two lines, and what is     *)
(* stored, handed to the chip, read and shown of a text follows from it,   *)
(* through send_post_handler (src/web_server.c), send_message_blocking,    *)
(* uart_reader_task and parse_rcv_line (src/lora_uart.c).                  *)
THEOREM TextInvariance == Spec => []TextInv
<1>1. Init => TextInv  BY TextInit
<1>2. TextInv /\ [Next]_vars => TextInv'  BY TextStep
<1>. QED  BY <1>1, <1>2, PTL DEF Spec

(* The invariant bounds every buffer.                                      *)
LEMMA TextInvTypeOK == TextInv => TypeOK
<1>. SUFFICES ASSUME TextInv PROVE TypeOK  OBVIOUS
<1>1. /\ stage \in {"idle", "typed", "stored", "sent", "heard", "done"}
      /\ typed \in Texts \cup {NULL}
      /\ (stage = "idle") = (typed = NULL)
      /\ pending \in BOOLEAN /\ line = << >> /\ saw_cr = FALSE
  BY DEF TextInv, KindIs
<1>2. Len(content) < MESSAGE
  <2>1. CASE content = << >>
    <3>1. Len(content) = 0  BY <2>1
    <3>. QED  BY <3>1, Sizes
  <2>2. CASE content # << >>
    <3>1. content \in Contents(typed) /\ typed \in Texts
      BY <2>2 DEF TextInv, ContentIs, KindIs
    <3>. QED  BY <3>1, ContentsType
  <2>. QED  BY <2>1, <2>2
<1>3. Len(line) < LINE
  <2>1. Len(line) = 0  BY <1>1
  <2>. QED  BY <2>1, Sizes
<1>4. \A l \in ToSet(received) : Len(l) < LINE
  <2>1. CASE received = << >>
    <3>1. ToSet(received) = {}  BY <2>1 DEF ToSet
    <3>. QED  BY <3>1
  <2>2. CASE received # << >>
    <3>1. Heard /\ stage \in {"sent", "heard", "done"}
      BY <1>1, <2>2 DEF TextInv, ReceivedIs
    <3>2. KindOf(typed) # "AT" /\ Taken /\ ReadOut(FrameOf(content), received)
      BY <3>1 DEF Heard
    <3>3. content \in Seq(Carried)  BY <3>1, <3>2, TakenWhole
    <3>. QED  BY <3>2, <3>3, WhatIsHeard
  <2>. QED  BY <2>1, <2>2
<1>. QED  BY <1>1, <1>2, <1>3, <1>4 DEF TypeOK

(* For texts over any characters and buffers of any sizes in               *)
(* TextPathAssumption: no content outgrows send_post_handler's message,    *)
(* and no line, under way or handed on, uart_reader_task's buffer.         *)
THEOREM TextTypeOK == Spec => []TypeOK
BY TextInvariance, TextInvTypeOK, PTL

(* What is shown of a text comes of a frame with all of its content, and   *)
(* is that up to a comma.                                                  *)
LEMMA ShownWhole ==
  ASSUME TextInv, stage = "done", shown # NULL
  PROVE  /\ Taken /\ KindOf(typed) # "AT"
         /\ typed \in Texts /\ content \in Contents(typed) /\ content \in Seq(Carried)
         /\ Len(content) < MESSAGE - 1
         /\ shown = esc(UpToComma(content))
         /\ Scanned(FrameOf(content)) /\ Sent(FrameOf(content)) = content
<1>1. Heard /\ shown \in Shows  BY DEF TextInv, ReceivedIs
<1>2. KindOf(typed) # "AT" /\ Taken /\ ReadOut(FrameOf(content), received)  BY <1>1 DEF Heard
<1>3. /\ typed \in Texts /\ content \in Contents(typed) /\ content \in Seq(Carried)
      /\ Len(content) < MESSAGE - 1
  BY <1>2, TakenWhole
<1>4. Frames \subseteq {FrameOf(content)}
  BY <1>2, <1>3, WhatIsHeard DEF Frames, FramesIn
<1>5. PICK l \in Frames : shown = esc(data(l))
  <2>1. Frames # {}  BY <1>1 DEF Shows
  <2>2. PICK l \in Frames : shown \in ShownOf(l)  BY <1>1, <2>1 DEF Shows
  <2>3. shown = esc(data(l))  BY <2>2 DEF ShownOf
  <2>. QED  BY <2>3
<1>6. l = FrameOf(content) /\ Scanned(l)  BY <1>4, <1>5 DEF Frames
<1>7. data(l) = UpToComma(content) /\ Sent(l) = content  BY <1>3, <1>6, FrameData
<1>. QED  BY <1>2, <1>3, <1>5, <1>6, <1>7

(* The page's decoding of what POST /send stores of a chat message.        *)
LEMMA ChatDecodes ==
  ASSUME NEW text \in Texts, Len(Message(text)) < MESSAGE - 1
  PROVE  esc(ChatContent(Message(text))) = AsRaw(text)
<1>1. Message(text) = FormBody(text)  BY MessageType
<1>2. text \in Seq(Char)  BY TextsType
<1>3. FormBody(text) \in Seq(FormUnit) /\ url_decode(Spaced(FormBody(text))) = AsRaw(text)
  BY <1>2, FormDecodes
<1>4. Spaced(Spaced(FormBody(text))) = Spaced(FormBody(text))  BY <1>3, SpacedType
<1>. QED  BY <1>1, <1>3, <1>4 DEF esc, ChatContent

(* A chat message's content can be scanned and put between quotes.         *)
LEMMA ChatPlain ==
  ASSUME NEW c \in Seq(SentUnit)
  PROVE  (\A i \in 1 .. Len(c) : c[i] # Comma) /\ Valid(c)
<1>1. ASSUME NEW x \in SentUnit PROVE x # Comma /\ x \notin {Raw("QUOTE"), CR, LF}
  <2>1. CASE x \in Escape
    <3>1. x[1] \in {"pct", "hi", "lo"}  BY <2>1 DEF Escape
    <3>2. x[1] # "raw"  BY <3>1
    <3>3. Comma[1] = "raw" /\ CR[1] = "raw" /\ LF[1] = "raw" /\ Raw("QUOTE")[1] = "raw"
      BY DEF Comma, CR, LF, Raw
    <3>. QED  BY <3>2, <3>3, Zenon
  <2>2. ASSUME NEW k \in Plain \cup {" "}, x = Raw(k)
        PROVE  x # Comma /\ x \notin {Raw("QUOTE"), CR, LF}
    <3>1. k \notin {",", "QUOTE", "CR", "LF"}  BY <2>2 DEF Plain
    <3>2. x[2] = k  BY <2>2 DEF Raw
    <3>3. Comma[2] = "," /\ CR[2] = "CR" /\ LF[2] = "LF" /\ Raw("QUOTE")[2] = "QUOTE"
      BY DEF Comma, CR, LF, Raw
    <3>4. x # Comma /\ x # CR /\ x # LF /\ x # Raw("QUOTE")  BY <3>1, <3>2, <3>3
    <3>. QED  BY <3>4, Zenon
  <2>. QED  BY <2>1, <2>2 DEF SentUnit
<1>2. DOMAIN c = 1 .. Len(c) /\ \A i \in 1 .. Len(c) : c[i] \in SentUnit
  BY LenProperties, ElementOfSeq
<1>3. Valid(c)  BY <1>1, <1>2 DEF Valid, ToSet
<1>. QED  BY <1>1, <1>2, <1>3

(* However long the text and whatever the buffers' sizes, a chat message   *)
(* that is shown on the other board's page is the text that was typed: no  *)
(* cut by message, payload or command_buffer goes unnoticed, because the   *)
(* length in the command is that of the whole.                             *)
THEOREM TextWholeOrNothing == Spec => []WholeOrNothing
<1>1. TextInv => WholeOrNothing
  <2>. SUFFICES ASSUME TextInv, stage = "done", Kind = "chat", shown # NULL
                PROVE  shown = AsRaw(typed)
    BY DEF WholeOrNothing
  <2>1. KindOf(typed) = "chat"  BY DEF Kind, KindOf
  <2>2. /\ typed \in Texts /\ content \in Contents(typed)
        /\ Len(content) < MESSAGE - 1 /\ shown = esc(UpToComma(content))
    BY ShownWhole
  <2>3. content = ChatContent(Message(typed))  BY <2>1, <2>2 DEF Contents
  <2>4. Len(content) = Len(Message(typed)) /\ content \in Seq(SentUnit)
    <3>1. Message(typed) \in Seq(FormUnit)  BY <2>2, MessageType
    <3>. QED  BY <2>3, <3>1, SpacedType DEF ChatContent
  <2>5. UpToComma(content) = content  BY <2>4, ChatPlain, NoComma
  <2>. QED  BY <2>2, <2>3, <2>4, <2>5, ChatDecodes
<1>. QED  BY <1>1, TextInvariance, PTL

(* A chat message that fits all buffers is shown as it was typed if the    *)
(* chip sees its command's start, and a short command for the chip reaches *)
(* it as it was typed.                                                     *)
THEOREM TextShortArrives == Spec => []ShortArrives
<1>1. ASSUME TextInv, stage = "done", Kind = "chat", Short(typed), command.alone
      PROVE  shown = AsRaw(typed)
  <2>1. KindOf(typed) = "chat" /\ typed \in Texts /\ content \in Contents(typed)
    BY <1>1 DEF Kind, KindOf, TextInv, KindIs, ContentIs
  <2>2. PICK m, n : m = Message(typed) /\ n = Len(FormBody(typed))  OBVIOUS
  <2>3. n \in Nat /\ MESSAGE \in Nat /\ PAYLOAD \in Nat /\ PAYLOAD < MESSAGE + 2
        /\ Len(Fields) = 2 /\ Len(RcvHead) = 3 /\ Len(RcvTail) = 2
    BY <2>1, <2>2, TextsType, FormDecodes, Sizes, PieceTypes
  <2>4. /\ n + 2 < PAYLOAD /\ SendHead + (n + 2) + 2 < COMMAND /\ 3 + (n + 2) + 2 < LINE
    BY <1>1, <2>2, <2>3 DEF Short
  <2>5. m = FormBody(typed) /\ m \in Seq(FormUnit) /\ Len(m) = n /\ Len(m) # 0
    <3>1. n < MESSAGE  BY <2>3, <2>4
    <3>. QED  BY <2>1, <2>2, <3>1, MessageType
  <2>6. content = Spaced(m)  BY <2>1, <2>2 DEF Contents, ChatContent
  <2>7. content \in Seq(SentUnit) /\ Len(content) = n /\ Len(content) # 0
    BY <2>5, <2>6, SpacedType
  <2>8. content \in Seq(Carried)  BY <2>1, ContentsType
  <2>9. Taken
    <3>1. PICK alone : command = CommandFor(KindOf(typed), content, alone) /\ command.alone = alone
      BY <1>1 DEF TextInv, CommandIs
    <3>2. command = Formatted(content, alone)  BY <2>1, <3>1 DEF CommandFor
    <3>3. command.told = Len(command.data) /\ command.ended
      BY <2>4, <2>7, <2>8, <3>2, FormattedWhole
    <3>. QED  BY <1>1, <3>3 DEF Taken
  <2>10. Heard /\ shown \in Shows  BY <1>1, <2>1, <2>9 DEF TextInv, ReceivedIs
  <2>11. /\ Scanned(FrameOf(content)) /\ data(FrameOf(content)) = content
         /\ Commas(Sent(FrameOf(content))) = {}
    BY <2>7, <2>8, ChatPlain, NoCommaScanned
  <2>12. Len(FrameOf(content)) < LINE
    <3>1. Len(FrameOf(content)) = Len(content) + 7  BY <2>8, FrameParts
    <3>. QED  BY <2>3, <2>4, <2>7, <3>1, Sizes
  <2>13. Frames = {FrameOf(content)}
    BY <2>8, <2>10, <2>11, <2>12, WhatIsHeard DEF Heard, Frames, FramesIn
  <2>14. shown = esc(content)
    <3>1. Valid(content)  BY <2>7, ChatPlain
    <3>2. Frames # {} /\ \A l \in Frames : data(l) = content /\ Commas(Sent(l)) = {}
      BY <2>11, <2>13
    <3>3. \A l \in Frames : \A x \in ShownOf(l) : x = esc(content)
      BY <3>1, <3>2 DEF ShownOf
    <3>4. \A x \in Shows : x = esc(content)  BY <3>2, <3>3 DEF Shows
    <3>. QED  BY <2>10, <3>4
  <2>15. Len(m) < MESSAGE - 1  BY <2>3, <2>4, <2>5
  <2>16. content = ChatContent(Message(typed))  BY <2>2, <2>6 DEF ChatContent
  <2>. QED  BY <2>1, <2>2, <2>14, <2>15, <2>16, ChatDecodes
<1>2. ASSUME TextInv, stage = "sent", Kind = "AT", Len(FormBody(typed)) < MESSAGE
      PROVE  command.data = AsRaw(typed)
  <2>1. KindOf(typed) = "AT" /\ typed \in Texts /\ content \in Contents(typed)
    BY <1>2 DEF Kind, KindOf, TextInv, KindIs, ContentIs
  <2>2. content = CommandContent(Message(typed))  BY <2>1 DEF Contents
  <2>3. Message(typed) = FormBody(typed)  BY <1>2, <2>1, MessageType
  <2>4. content = AsRaw(typed)
    BY <2>1, <2>2, <2>3, TextsType, FormDecodes DEF CommandContent
  <2>5. command.data = content
    <3>1. PICK alone : command = CommandFor(KindOf(typed), content, alone)
      BY <1>2 DEF TextInv, CommandIs
    <3>. QED  BY <2>1, <3>1 DEF CommandFor
  <2>. QED  BY <2>4, <2>5
<1>3. TextInv => ShortArrives  BY <1>1, <1>2 DEF ShortArrives
<1>. QED  BY <1>3, TextInvariance, PTL

----------------------------------------------------------------------------
(* A name.                                                                 *)

(* Decoding leaves what has no % as it is.                                 *)
LEMMA NoPercent ==
  ASSUME NEW V, NEW s \in Seq(V), \A u \in V : u[1] # "pct"
  PROVE  url_decode(s) = s
<1>1. PICK n : n = Len(s)  OBVIOUS
<1>2. n \in Nat /\ DOMAIN s = 1 .. n /\ \A i \in 1 .. n : s[i] \in V
  BY <1>1, LenProperties, ElementOfSeq
<1>4. PICK f : url_decode(s) = f[1] /\ UrlDecodes(f, s)
  BY <1>1, <1>2, UrlDecoding DEF UrlDecodes
<1>5. f[n + 1] = << >>
  <2>1. n + 1 \in Nat /\ n + 1 > Len(s)  BY <1>1, <1>2
  <2>. QED  BY <1>4, <2>1 DEF UrlDecodes
<1>6. ASSUME NEW i \in 1 .. n PROVE f[i] = <<s[i]>> \o f[i + 1]
  <2>1. i \in Nat /\ ~ (i > Len(s))  BY <1>1, <1>2
  <2>2. ~ Whole(s, i)  BY <1>2 DEF Whole
  <2>. QED  BY <1>4, <2>1, <2>2 DEF UrlDecodes
<1>. DEFINE at == [i \in 0 .. n |-> i]
<1>7. at \in [0 .. n -> Nat] /\ at[n] = n /\ at[0] = 0
      /\ \A i \in 1 .. n : at[i] = i /\ at[i - 1] + 1 = i
  BY <1>2
<1>. HIDE DEF at
<1>8. f[at[0] + 1] = s
  <2>1. f[at[n] + 1] = << >>  BY <1>5, <1>7
  <2>2. \A i \in 1 .. n : f[at[i - 1] + 1] = <<s[i]>> \o f[at[i] + 1]
    BY <1>6, <1>7
  <2>3. at \in [0 .. Len(s) -> Nat] /\ f[at[Len(s)] + 1] = << >>
        /\ \A i \in 1 .. Len(s) : f[at[i - 1] + 1] = <<s[i]>> \o f[at[i] + 1]
    BY <1>1, <1>7, <2>1, <2>2
  <2>. QED  BY <2>3, BlocksDecode
<1>9. at[0] + 1 = 1  BY <1>7
<1>. QED  BY <1>4, <1>8, <1>9

(* And so does the page, but for a +.                                      *)
LEMMA PageDecodes ==
  ASSUME NEW V, NEW r \in Seq(V), \A u \in V : u[1] # "pct"
  PROVE  esc(r) = Spaced(r)
<1>1. PICK W : W = {u \in V \cup {Space} : u[1] # "pct"}  OBVIOUS
<1>2. Spaced(r) \in Seq(W)
  <2>1. Len(r) \in Nat /\ DOMAIN r = 1 .. Len(r) /\ \A i \in 1 .. Len(r) : r[i] \in V
    BY LenProperties, ElementOfSeq
  <2>2. Spaced(r) = [i \in 1 .. Len(r) |-> IF r[i] = Plus THEN Space ELSE r[i]]
    BY <2>1 DEF Spaced, Plus, Space
  <2>3. Space[1] # "pct"  BY DEF Space, Raw
  <2>4. \A i \in 1 .. Len(r) : (IF r[i] = Plus THEN Space ELSE r[i]) \in W
    BY <1>1, <2>1, <2>3
  <2>5. Spaced(r) \in [1 .. Len(r) -> W]  BY <2>2, <2>4
  <2>. QED  BY <2>1, <2>5
<1>3. \A u \in W : u[1] # "pct"  BY <1>1
<1>4. url_decode(Spaced(r)) = Spaced(r)  BY <1>2, <1>3, NoPercent
<1>. QED  BY <1>4 DEF esc

(* Each LF follows a CR, so that a name ends at the first CR.              *)
LEMMA UpToFirstCR ==
  ASSUME NEW s \in Seq(RawUnit), Len(s) > 1, s[2] \notin LineEnd,
         \A p \in 1 .. Len(s) : s[p] = LF => p > 1 /\ s[p - 1] = CR
  PROVE  UpTo(Tail(s), LineEnd) = UpTo(Tail(s), {CR})
<1>1. PICK t, n : t = Tail(s) /\ n = Len(t)  OBVIOUS
<1>2. Len(s) \in Nat /\ s # << >>
  <2>1. Len(<< >>) = 0  OBVIOUS
  <2>. QED  BY <2>1, LenProperties
<1>3. t \in Seq(RawUnit) /\ n = Len(s) - 1 /\ n \in Nat
      /\ \A i \in 1 .. n : t[i] = s[i + 1]
  BY <1>1, <1>2, HeadTailProperties
<1>4. PICK K, L : K = {CR} /\ L = LineEnd  OBVIOUS
<1>5. PICK m \in 0 .. n : /\ UpTo(t, L) = SubSeq(t, 1, m)
                          /\ \A i \in 1 .. m : t[i] \notin L
                          /\ m # n => t[m + 1] \in L
  BY <1>1, <1>3, UpToParts
<1>6. PICK k \in 0 .. n : /\ UpTo(t, K) = SubSeq(t, 1, k)
                          /\ \A i \in 1 .. k : t[i] \notin K
                          /\ k # n => t[k + 1] \in K
  BY <1>1, <1>3, UpToParts
<1>7. ~ (k < m)
  <2>. SUFFICES ASSUME k < m PROVE FALSE  OBVIOUS
  <2>1. k # n /\ k + 1 \in 1 .. m  BY <1>3
  <2>2. t[k + 1] \in K  BY <1>6, <2>1
  <2>3. K \subseteq L  BY <1>4 DEF LineEnd
  <2>. QED  BY <1>5, <2>1, <2>2, <2>3
<1>8. ~ (m < k)
  <2>. SUFFICES ASSUME m < k PROVE FALSE  OBVIOUS
  <2>1. m # n /\ m + 1 \in 1 .. k /\ m + 1 \in 1 .. n /\ m \in Nat  BY <1>3
  <2>2. t[m + 1] \in L /\ t[m + 1] \notin K  BY <1>5, <1>6, <2>1
  <2>3. t[m + 1] = LF  BY <1>4, <2>2 DEF LineEnd
  <2>4. PICK p : p = m + 2  OBVIOUS
  <2>5. p \in 1 .. Len(s) /\ m + 1 + 1 = p /\ p - 1 = m + 1  BY <1>2, <1>3, <2>1, <2>4
  <2>6. s[p] = LF  BY <1>3, <2>1, <2>3, <2>5
  <2>7. s[m + 1] = CR  BY <2>5, <2>6
  <2>8. CASE m = 0
    <3>1. p = 2  BY <2>4, <2>8
    <3>. QED  BY <2>6, <3>1 DEF LineEnd
  <2>9. CASE m # 0
    <3>1. m \in 1 .. n /\ m \in 1 .. m  BY <1>3, <2>1, <2>9
    <3>2. t[m] = CR  BY <1>3, <2>7, <3>1
    <3>3. CR \in L  BY <1>4 DEF LineEnd
    <3>. QED  BY <1>5, <3>1, <3>2, <3>3
  <2>. QED  BY <2>8, <2>9
<1>9. m = k
  <2>1. m \in Nat /\ k \in Nat  BY <1>3
  <2>. QED  BY <1>7, <1>8, <2>1
<1>. QED  BY <1>1, <1>4, <1>5, <1>6, <1>9

(* Whatever the sizes, a name the other board's page shows is the name     *)
(* that was typed, up to the size of a name and with its + as blanks; or,  *)
(* if the name has a comma, what stands before it, and only when a number  *)
(* follows: the parser counts the fields but not the commas.               *)
THEOREM TextNameOrNothing == Spec => []NameOrNothing
<1>1. TextInv => NameOrNothing
  <2>0. SUFFICES ASSUME TextInv, stage = "done", Kind = "SYS", shown \notin {NULL, NoName},
                       Len(typed) > 1, Len(FormBody(typed)) < MESSAGE,
                       NEW name, name = Cut(Before(Tail(AsRaw(typed)), LAMBDA u : u = CR), NAME)
                PROVE  /\ shown = Spaced(UpToComma(name))
                       /\ \A i \in Commas(name) :
                            (\A j \in Commas(name) : i <= j) => Number(FieldAfter(name, i))
    BY DEF NameOrNothing
  <2>1. KindOf(typed) = "SYS" /\ shown # NULL /\ shown # NoName  BY <2>0 DEF Kind, KindOf
  <2>2. /\ typed \in Texts /\ content \in Contents(typed) /\ shown = esc(UpToComma(content))
        /\ Scanned(FrameOf(content)) /\ Sent(FrameOf(content)) = content
    BY <2>0, <2>1, ShownWhole
  <2>3. PICK s : s = AsRaw(typed)  OBVIOUS
  <2>4. typed \in Seq(Char) /\ Message(typed) = FormBody(typed)
    BY <2>0, <2>2, TextsType, MessageType
  <2>5. content \in Names(s)
    <3>1. CommandContent(Message(typed)) = s  BY <2>3, <2>4, FormDecodes DEF CommandContent
    <3>. QED  BY <2>1, <2>2, <3>1 DEF Contents
  <2>6. s \in Seq(RawUnit) /\ Len(s) \in Nat /\ Len(s) >= Len(typed)
        /\ \A p \in 1 .. Len(s) : s[p] = LF => p > 1 /\ s[p - 1] = CR
    BY <2>3, <2>4, AsRawType, LenProperties
  <2>7. Len(s) > 1
    <3>1. Len(typed) \in Nat  BY <2>4, LenProperties
    <3>. QED  BY <2>0, <2>6, <3>1
  <2>8. content = NoName \/ (s[2] \notin LineEnd /\ content = Cut(UpTo(Tail(s), LineEnd), NAME))
    <3>1. s \in Seq(RawUnit \cup SentUnit)
      <4>1. RawUnit \subseteq RawUnit \cup SentUnit  OBVIOUS
      <4>. QED  BY <2>6, <4>1, SeqMonotonic
    <3>2. Len(s) # 1 /\ Len(s) > 0  BY <2>6, <2>7
    <3>. QED  BY <2>5, <2>6, <3>1, <3>2, NamesParts
  <2>9. content # NoName
    <3>1. PICK x : x = <<"None", "">>  OBVIOUS
    <3>2. x[1] # "pct" /\ x # Plus /\ x # Comma  BY <3>1 DEF Plus, Comma, Raw
    <3>3. PICK V : V = {x}  OBVIOUS
    <3>4. PICK y : y = <<x>>  OBVIOUS
    <3>5. y \in Seq(V) /\ \A u \in V : u[1] # "pct"
      <4>1. x \in V /\ \A u \in V : u = x  BY <3>3
      <4>2. y \in Seq(V)  BY <3>4, <4>1
      <4>. QED  BY <3>2, <4>1, <4>2
    <3>6. Len(y) = 1 /\ DOMAIN y = 1 .. 1 /\ y[1] = x  BY <3>4
    <3>7. UpToComma(y) = y
      <4>1. \A i \in 1 .. Len(y) : y[i] # Comma  BY <3>2, <3>6
      <4>. QED  BY <3>5, <4>1, NoComma
    <3>8. Spaced(y) = y
      <4>0. \A i \in 1 .. 1 : y[i] # Raw("+")  BY <3>2, <3>6 DEF Plus
      <4>1. Spaced(y) = [i \in 1 .. 1 |-> y[i]]  BY <3>6, <4>0 DEF Spaced
      <4>2. y = [i \in 1 .. 1 |-> y[i]]  BY <3>5, <3>6, LenProperties
      <4>. QED  BY <4>1, <4>2
    <3>9. esc(UpToComma(y)) = y  BY <3>5, <3>7, <3>8, PageDecodes
    <3>10. y = NoName  BY <3>1, <3>4 DEF NoName
    <3>. QED  BY <2>1, <2>2, <3>9, <3>10
  <2>10. content = name
    <3>1. s[2] \notin LineEnd /\ content = Cut(UpTo(Tail(s), LineEnd), NAME)  BY <2>8, <2>9
    <3>2. UpTo(Tail(s), LineEnd) = UpTo(Tail(s), {CR})  BY <2>6, <2>7, <3>1, UpToFirstCR
    <3>3. Before(Tail(s), LAMBDA u : u = CR) = UpTo(Tail(s), {CR})  BY DEF Before, UpTo
    <3>. QED  BY <2>0, <2>3, <3>1, <3>2, <3>3
  <2>11. content \in Seq(RawUnit)
    <3>1. s # << >>
      <4>1. Len(<< >>) = 0  OBVIOUS
      <4>. QED  BY <2>7, <4>1
    <3>2. PICK t, K : t = Tail(s) /\ K = LineEnd  OBVIOUS
    <3>3. t \in Seq(RawUnit)  BY <2>6, <3>1, <3>2, HeadTailProperties
    <3>4. PICK m \in 0 .. Len(t) : UpTo(t, K) = SubSeq(t, 1, m)  BY <3>3, UpToParts
    <3>5. UpTo(t, K) \in Seq(RawUnit)  BY <3>3, <3>4, StartOf
    <3>6. NAME \in Nat \ {0}  BY Sizes
    <3>7. Cut(UpTo(t, K), NAME) \in Seq(RawUnit)  BY <3>5, <3>6, CutParts
    <3>. QED  BY <2>8, <2>9, <3>2, <3>7
  <2>12. shown = Spaced(UpToComma(name))
    <3>1. PICK m \in 0 .. Len(content) : UpToComma(content) = SubSeq(content, 1, m)
      BY <2>11, UpToCommaParts
    <3>2. UpToComma(content) \in Seq(RawUnit)  BY <2>11, <3>1, StartOf
    <3>3. \A u \in RawUnit : u[1] # "pct"
      <4>1. "raw" # "pct"  OBVIOUS
      <4>. QED  BY <4>1, RawUnits
    <3>. QED  BY <2>2, <2>10, <3>2, <3>3, PageDecodes
  <2>13. ASSUME NEW i \in Commas(name), \A j \in Commas(name) : i <= j
         PROVE  Number(FieldAfter(name, i))
    <3>1. i \in Nat /\ Commas(name) \subseteq Nat
      <4>1. DOMAIN content = 1 .. Len(content) /\ Len(content) \in Nat  BY <2>11, LenProperties
      <4>2. \A j \in Commas(name) : j \in 1 .. Len(content)
        BY <2>10, <4>1, Zenon DEF Commas
      <4>. QED  BY <4>1, <4>2
    <3>2. PICK S : S = {j \in Commas(name) : j <= i}  OBVIOUS
    <3>3. S = {i}  BY <2>13, <3>1, <3>2
    <3>4. Cardinality(S) = 1  BY <3>3, FS_Singleton
    <3>5. Cardinality(S) < 8 => Number(FieldAfter(name, i))
      BY <2>2, <2>10, <2>13, <3>2 DEF Scanned
    <3>. QED  BY <3>4, <3>5
  <2>. QED  BY <2>12, <2>13
<1>. QED  BY <1>1, TextInvariance, PTL

----------------------------------------------------------------------------
(* The encryption API's text.                                              *)

Forbidden == {NUL, NEW_L, CAR_RET}

(* The assumption on the encryption API's constants, one by one.           *)
LEMMA SafeConstants ==
  /\ MODULUS \in Nat \ {0} /\ HEADER \in Nat \ {0} /\ MAX_SIZE \in Nat
  /\ Lengths \subseteq Nat
  /\ NUL \in Byte /\ NEW_L \in Byte /\ CAR_RET \in Byte /\ ESCAPE \in Byte
  /\ EMIT_N \in Byte /\ EMIT_R \in Byte /\ EMIT_E \in Byte /\ EMIT_NULL \in Byte
  /\ NUL \in Forbidden /\ ESCAPE \notin Forbidden
  /\ EMIT_N \notin Forbidden /\ EMIT_R \notin Forbidden
  /\ EMIT_E \notin Forbidden /\ EMIT_NULL \notin Forbidden
BY SafeCharsAssumption DEF Forbidden

(* A byte is written as itself or as ESCAPE and what unescaping gives back. *)
EscapedAs(e, x, c) == e = <<ESCAPE, c>> /\ Unescaped(c) = x /\ c \in Byte \ Forbidden

(* Escaping, by cases.                                                     *)
LEMMA EscapedByte ==
  ASSUME NEW x \in Byte
  PROVE  \/ Escaped(x) = <<x>> /\ x # ESCAPE /\ x \notin Forbidden
         \/ \E c : EscapedAs(Escaped(x), x, c)
<1>1. CASE x \notin {NEW_L, CAR_RET, ESCAPE, NUL}
  BY <1>1 DEF Escaped, Forbidden
<1>2. CASE x = NEW_L
  <2>1. Escaped(x) = <<ESCAPE, EMIT_N>>  BY <1>2, SafeCharsAssumption DEF Escaped
  <2>2. Unescaped(EMIT_N) = x  BY <1>2, SafeCharsAssumption DEF Unescaped
  <2>. QED  BY <2>1, <2>2, SafeConstants DEF EscapedAs
<1>3. CASE x # NEW_L /\ x = CAR_RET
  <2>1. Escaped(x) = <<ESCAPE, EMIT_R>>  BY <1>3, SafeCharsAssumption DEF Escaped
  <2>2. Unescaped(EMIT_R) = x  BY <1>3, SafeCharsAssumption DEF Unescaped
  <2>. QED  BY <2>1, <2>2, SafeConstants DEF EscapedAs
<1>4. CASE x \notin {NEW_L, CAR_RET} /\ x = ESCAPE
  <2>1. Escaped(x) = <<ESCAPE, EMIT_E>>  BY <1>4, SafeCharsAssumption DEF Escaped
  <2>2. Unescaped(EMIT_E) = x  BY <1>4, SafeCharsAssumption DEF Unescaped
  <2>. QED  BY <2>1, <2>2, SafeConstants DEF EscapedAs
<1>5. CASE x \notin {NEW_L, CAR_RET, ESCAPE} /\ x = NUL
  <2>1. Escaped(x) = <<ESCAPE, EMIT_NULL>>  BY <1>5, SafeCharsAssumption DEF Escaped
  <2>2. Unescaped(EMIT_NULL) = x  BY <1>5, SafeCharsAssumption DEF Unescaped
  <2>. QED  BY <2>1, <2>2, SafeConstants DEF EscapedAs
<1>. QED  BY <1>1, <1>2, <1>3, <1>4, <1>5

(* What a byte is escaped to is one or two bytes, none forbidden.          *)
LEMMA EscapedType ==
  ASSUME NEW x \in Byte
  PROVE  /\ Escaped(x) \in Seq(Byte)
         /\ Len(Escaped(x)) = 1 \/ Len(Escaped(x)) = 2
         /\ \A j \in 1 .. Len(Escaped(x)) : Escaped(x)[j] \notin Forbidden
<1>1. CASE Escaped(x) = <<x>> /\ x \notin Forbidden
  <2>1. Len(<<x>>) = 1 /\ <<x>>[1] = x /\ <<x>> \in Seq(Byte)  OBVIOUS
  <2>2. \A j \in 1 .. 1 : j = 1  OBVIOUS
  <2>. QED  BY <1>1, <2>1, <2>2, Zenon
<1>2. ASSUME NEW c, EscapedAs(Escaped(x), x, c)
      PROVE  /\ Escaped(x) \in Seq(Byte)
             /\ Len(Escaped(x)) = 2
             /\ \A j \in 1 .. Len(Escaped(x)) : Escaped(x)[j] \notin Forbidden
  <2>1. Escaped(x) = <<ESCAPE, c>> /\ c \in Byte /\ c \notin Forbidden  BY <1>2 DEF EscapedAs
  <2>2. Len(<<ESCAPE, c>>) = 2 /\ <<ESCAPE, c>>[1] = ESCAPE /\ <<ESCAPE, c>>[2] = c  OBVIOUS
  <2>3. <<ESCAPE, c>> \in Seq(Byte)  BY <2>1, SafeConstants
  <2>4. \A j \in 1 .. 2 : j = 1 \/ j = 2  OBVIOUS
  <2>. QED  BY <2>1, <2>2, <2>3, <2>4, SafeConstants, Zenon
<1>. QED  BY <1>1, <1>2, EscapedByte

Unescapes(f, s) ==
  \A i \in Nat :
    f[i] = IF i > Len(s) \/ s[i] = NUL THEN << >>
           ELSE IF s[i] = ESCAPE
                THEN <<Unescaped(IF i < Len(s) THEN s[i + 1] ELSE NUL)>> \o f[i + 2]
                ELSE <<s[i]>> \o f[i + 1]

(* decrypt_message's function.                                             *)
LEMMA Unescaping ==
  ASSUME NEW s, Len(s) \in Nat
  PROVE  \E f : Decoded(s) = f[1] /\ Unescapes(f, s)
<1>. DEFINE Here(i) == Unescaped(IF i < Len(s) THEN s[i + 1] ELSE NUL)
            y == [i \in 0 .. Len(s) |-> IF s[i] = ESCAPE THEN Here(i) ELSE s[i]]
            w == [i \in 0 .. Len(s) |-> IF s[i] = ESCAPE THEN 2 ELSE 1]
            halt == {i \in Nat : s[i] = NUL}
            Spelt(f, i) == IF i > Len(s) \/ s[i] = NUL THEN << >>
                           ELSE IF s[i] = ESCAPE THEN <<Here(i)>> \o f[i + 2]
                           ELSE <<s[i]>> \o f[i + 1]
            g == CHOOSE f : f = [i \in Nat |-> Spelt(f, i)]
<1>1. \E f : Decoding(f, Len(s), halt, y, w)
  <2>1. \A i \in 0 .. Len(s) : w[i] \in Nat \ {0}  OBVIOUS
  <2>. HIDE DEF w, y, halt
  <2>. QED  BY <2>1, DecodingExists
<1>2. PICK f : Decoding(f, Len(s), halt, y, w)  BY <1>1
<1>3. ASSUME NEW i \in Nat
      PROVE  Spelt(f, i) = IF i > Len(s) \/ i \in halt THEN << >> ELSE <<y[i]>> \o f[i + w[i]]
  <2>1. CASE i > Len(s) \/ s[i] = NUL  BY <2>1
  <2>2. CASE ~ (i > Len(s) \/ s[i] = NUL)
    <3>1. i \in 0 .. Len(s)  BY <2>2
    <3>. HIDE DEF Here
    <3>2. CASE s[i] = ESCAPE
      <4>1. y[i] = Here(i) /\ w[i] = 2  BY <3>1, <3>2
      <4>. QED  BY <2>2, <3>2, <4>1
    <3>3. CASE s[i] # ESCAPE
      <4>1. y[i] = s[i] /\ w[i] = 1  BY <3>1, <3>3
      <4>. QED  BY <2>2, <3>3, <4>1
    <3>. QED  BY <3>2, <3>3
  <2>. QED  BY <2>1, <2>2
<1>4. f = [i \in Nat |-> Spelt(f, i)]
  <2>. HIDE DEF Spelt, y, w, halt
  <2>. QED  BY <1>2, <1>3 DEF Decoding
<1>5. g = [i \in Nat |-> Spelt(g, i)]
  <2>. HIDE DEF Spelt
  <2>. QED  BY <1>4
<1>6. Decoded(s) = g[1]  BY DEF Decoded
<1>. HIDE DEF g
<1>7. \A i \in Nat : g[i] = Spelt(g, i)
  <2>. HIDE DEF Spelt
  <2>. QED  BY <1>5
<1>8. Unescapes(g, s)  BY <1>7 DEF Unescapes
<1>. QED  BY <1>6, <1>8

(* e, which x is escaped to, follows the first a bytes of s.               *)
SafelyAt(s, x, a, e) ==
  /\ Len(s) \in Nat /\ x \in Byte /\ a \in Nat
  /\ e = Escaped(x) /\ a + Len(e) <= Len(s)
  /\ \A j \in 1 .. Len(e) : s[a + j] = e[j]

(* One byte's escape is read as the byte.                                  *)
LEMMA OneUnescapes ==
  ASSUME NEW s, NEW f, Unescapes(f, s), NEW x, NEW a, NEW e, SafelyAt(s, x, a, e)
  PROVE  Yields(f, x, a, e)
<1>. SUFFICES f[a + 1] = <<x>> \o f[a + Len(e) + 1]  BY DEF Yields
<1>0. /\ Len(s) \in Nat /\ x \in Byte /\ a \in Nat
      /\ e = Escaped(x) /\ a + Len(e) <= Len(s)
      /\ \A j \in 1 .. Len(e) : s[a + j] = e[j]
  BY DEF SafelyAt
<1>1. CASE e = <<x>> /\ x # ESCAPE /\ x \notin Forbidden
  <2>1. Len(e) = 1 /\ e[1] = x  BY <1>1
  <2>2. 1 \in 1 .. Len(e) /\ a + 1 \in Nat /\ ~ (a + 1 > Len(s)) /\ a + 1 + 1 = a + Len(e) + 1
    BY <1>0, <2>1
  <2>3. s[a + 1] = x /\ x # NUL  BY <1>0, <1>1, <2>1, <2>2, SafeConstants
  <2>4. f[a + 1] = <<x>> \o f[a + 1 + 1]  BY <1>1, <2>2, <2>3 DEF Unescapes
  <2>. QED  BY <2>2, <2>4
<1>2. ASSUME NEW c, EscapedAs(e, x, c)
      PROVE  f[a + 1] = <<x>> \o f[a + Len(e) + 1]
  <2>1. e = <<ESCAPE, c>> /\ Unescaped(c) = x  BY <1>2 DEF EscapedAs
  <2>2. Len(e) = 2 /\ e[1] = ESCAPE /\ e[2] = c  BY <2>1
  <2>3. /\ 1 \in 1 .. Len(e) /\ 2 \in 1 .. Len(e) /\ a + 1 \in Nat /\ ~ (a + 1 > Len(s))
        /\ a + 1 < Len(s) /\ a + 1 + 1 = a + 2 /\ a + 1 + 2 = a + Len(e) + 1
    BY <1>0, <2>2
  <2>4. s[a + 1] = ESCAPE /\ s[a + 2] = c /\ ESCAPE # NUL
    BY <1>0, <2>2, <2>3, SafeConstants
  <2>5. f[a + 1] = <<Unescaped(s[a + 1 + 1])>> \o f[a + 1 + 2]
    BY <2>3, <2>4 DEF Unescapes
  <2>. QED  BY <2>1, <2>3, <2>4, <2>5
<1>3. (e = <<x>> /\ x # ESCAPE /\ x \notin Forbidden) \/ \E c : EscapedAs(e, x, c)
  BY <1>0, EscapedByte
<1>. QED  BY <1>1, <1>2, <1>3

(* What encode_to_safe_chars makes of a blob has no byte that would end    *)
(* it, and decrypt_message makes of it as many bytes of the blob as the    *)
(* blob's first byte says.                                                 *)
LEMMA SafeTextDecodes ==
  ASSUME NEW b \in Seq(Byte), b # << >>, Head(b) <= Len(b)
  PROVE  /\ SafeText(b) \in Seq(Byte)
         /\ Len(SafeText(b)) <= 2 * Head(b)
         /\ \A i \in 1 .. Len(SafeText(b)) : SafeText(b)[i] \notin Forbidden
         /\ Decoded(SafeText(b)) = SubSeq(b, 1, Head(b))
<1>1. PICK n, q, s, u : /\ n = Head(b) /\ q = [i \in 1 .. n |-> Escaped(b[i])]
                        /\ s = SafeText(b) /\ u = SubSeq(b, 1, n)
  OBVIOUS
<1>2. n \in Byte /\ n \in Nat /\ Len(b) \in Nat /\ n <= Len(b)
  <2>1. n \in Byte  BY <1>1
  <2>2. n \in Nat  BY <2>1, SafeConstants DEF Byte
  <2>. QED  BY <1>1, <2>1, <2>2, LenProperties
<1>3. s = FlattenSeq(q)  BY <1>1 DEF SafeText
<1>4. \A i \in 1 .. n : b[i] \in Byte /\ q[i] = Escaped(b[i])  BY <1>1, <1>2, ElementOfSeq
<1>5. \A i \in 1 .. n : q[i] \in Seq(Byte) /\ Len(q[i]) \in 0 .. 2
  <2>1. ASSUME NEW i \in 1 .. n PROVE q[i] \in Seq(Byte) /\ Len(q[i]) \in 0 .. 2
    <3>1. q[i] \in Seq(Byte) /\ (Len(q[i]) = 1 \/ Len(q[i]) = 2)  BY <1>4, EscapedType
    <3>. QED  BY <3>1
  <2>. QED  BY <2>1
<1>6. q \in Seq(Seq(Byte)) /\ Len(q) = n
  <2>1. q \in [1 .. n -> Seq(Byte)]  BY <1>1, <1>4, <1>5
  <2>. QED  BY <1>2, <2>1
<1>7. s \in Seq(Byte) /\ Len(s) \in Nat  BY <1>3, <1>6, FlattenLays, LenProperties
<1>8. PICK at : Laid(at, q)  BY <1>6, FlattenLays
<1>9. /\ at \in [0 .. n -> Nat] /\ at[0] = 0 /\ at[n] = Len(s)
      /\ \A i \in 1 .. n : at[i] = at[i - 1] + Len(q[i])
      /\ \A i \in 0 .. n : at[i] <= at[n]
      /\ \A i \in 1 .. n : \A j \in 1 .. Len(q[i]) : s[at[i - 1] + j] = q[i][j]
  BY <1>3, <1>6, <1>8 DEF Laid
<1>10. u \in Seq(Byte) /\ Len(u) = n /\ \A i \in 1 .. n : u[i] = b[i]
  <2>1. u \in Seq(Byte) /\ Len(u) = n /\ \A i \in 1 .. n : u[i] = b[1 + i - 1]
    BY <1>1, <1>2, SubSeqProperties
  <2>2. \A i \in 1 .. n : 1 + i - 1 = i  BY <1>2
  <2>. QED  BY <2>1, <2>2
<1>11. Len(s) <= 2 * n
  <2>. DEFINE Bad == {i \in 0 .. n : ~ (at[i] <= 2 * i)}
  <2>1. ASSUME Bad # {} PROVE FALSE
    <3>1. PICK i \in Bad : \A j \in Bad : i <= j
      <4>1. Bad \in SUBSET Nat  BY <1>2
      <4>. HIDE DEF Bad
      <4>. QED  BY <2>1, <4>1, Least
    <3>2. i # 0  BY <1>9, <3>1
    <3>3. i \in 1 .. n /\ i - 1 \in 0 .. n /\ ~ (i <= i - 1)  BY <1>2, <3>1, <3>2
    <3>4. at[i - 1] <= 2 * (i - 1) /\ at[i - 1] \in Nat /\ at[i] = at[i - 1] + Len(q[i])
      BY <1>9, <3>1, <3>3
    <3>5. Len(q[i]) \in 0 .. 2 /\ ~ (at[i] <= 2 * i) /\ i \in Nat  BY <1>5, <3>1, <3>3
    <3>6. PICK h, l : h = at[i - 1] /\ l = Len(q[i])  OBVIOUS
    <3>7. h <= 2 * (i - 1) /\ h \in Nat /\ l \in 0 .. 2 /\ ~ (h + l <= 2 * i)
      BY <3>4, <3>5, <3>6
    <3>. QED  BY <3>5, <3>7
  <2>2. n \in 0 .. n  BY <1>2
  <2>. QED  BY <1>9, <2>1, <2>2
<1>12. ASSUME NEW p \in 1 .. Len(s) PROVE s[p] \notin Forbidden
  <2>1. PICK i \in 1 .. n : \E j \in 1 .. Len(q[i]) : p = at[i - 1] + j
    <3>0. Len(q) \in Nat /\ \A h \in 1 .. Len(q) : Len(q[h]) \in Nat  BY <1>2, <1>5, <1>6
    <3>1. p \in 1 .. Len(FlattenSeq(q))  BY <1>3
    <3>2. InBlock(p, at, q)  BY <1>8, <3>0, <3>1, LaidPlace
    <3>. QED  BY <1>6, <3>2 DEF InBlock
  <2>2. PICK j \in 1 .. Len(q[i]) : p = at[i - 1] + j  BY <2>1
  <2>3. s[p] = q[i][j]  BY <1>9, <2>2
  <2>4. q[i][j] \notin Forbidden  BY <1>4, EscapedType
  <2>. QED  BY <2>3, <2>4
<1>13. PICK f : Decoded(s) = f[1] /\ Unescapes(f, s)  BY <1>7, Unescaping
<1>14. f[at[n] + 1] = << >>
  <2>1. Len(s) + 1 \in Nat /\ Len(s) + 1 > Len(s)  BY <1>7
  <2>. QED  BY <1>9, <1>13, <2>1 DEF Unescapes
<1>15. ASSUME NEW i \in 1 .. n
       PROVE  f[at[i - 1] + 1] = <<u[i]>> \o f[at[i] + 1]
  <2>1. PICK a, e, x : a = at[i - 1] /\ e = q[i] /\ x = u[i]  OBVIOUS
  <2>2. a \in Nat /\ at[i] <= Len(s) /\ at[i] = a + Len(e)
    <3>1. i - 1 \in 0 .. n /\ i \in 0 .. n  BY <1>2
    <3>. QED  BY <1>9, <2>1, <3>1
  <2>3. e = Escaped(x) /\ x \in Byte  BY <1>4, <1>10, <2>1
  <2>4. \A j \in 1 .. Len(e) : s[a + j] = e[j]  BY <1>9, <2>1
  <2>5. a + Len(e) <= Len(s)  BY <2>2
  <2>6. SafelyAt(s, x, a, e)  BY <1>7, <2>2, <2>3, <2>4, <2>5 DEF SafelyAt
  <2>7. Yields(f, x, a, e)  BY <1>13, <2>6, OneUnescapes, Zenon
  <2>. QED  BY <2>1, <2>2, <2>7 DEF Yields
<1>16. f[at[0] + 1] = u
  <2>1. at \in [0 .. Len(u) -> Nat] /\ f[at[Len(u)] + 1] = << >>
        /\ \A i \in 1 .. Len(u) : f[at[i - 1] + 1] = <<u[i]>> \o f[at[i] + 1]
    BY <1>9, <1>10, <1>14, <1>15
  <2>2. u \in Seq(Byte)  BY <1>10
  <2>. QED  BY <2>1, <2>2, BlocksDecode
<1>17. Decoded(s) = u
  <2>1. at[0] + 1 = 1  BY <1>9
  <2>. QED  BY <1>13, <1>16, <2>1
<1>. QED  BY <1>1, <1>7, <1>11, <1>12, <1>17

(* A remainder does not grow, and a small number is its own.               *)
LEMMA SmallRemainder ==
  ASSUME NEW n \in Nat, NEW m \in Nat \ {0}
  PROVE  n % m \in 0 .. m - 1 /\ n % m <= n /\ (n < m => n % m = n)
<1>1. n % m \in 0 .. m - 1  OBVIOUS
<1>2. n % m <= n  OBVIOUS
<1>3. n < m => n % m = n  OBVIOUS
<1>. QED  BY <1>1, <1>2, <1>3

(* The blob of a text of n bytes.                                          *)
SealedAs(n, b) ==
  /\ b \in Seq(Byte) /\ b # << >>
  /\ Len(b) = (n % MODULUS) + HEADER
  /\ Head(b) = Len(b) % MODULUS

OpenedAs(n, how) ==
  n + HEADER < MODULUS =>
    /\ how # "other"
    /\ 2 * (n + HEADER) < MAX_SIZE => how = "same"

(* The inductive invariant of the encryption API: how far the text's way   *)
(* is determined by the text and its blob.                                 *)
SafeInv ==
  /\ step \in {"start", "sealed", "encoded", "decoded", "stop"}
  /\ step # "start" => length \in Nat
  /\ step \in {"sealed", "encoded", "decoded"} => SealedAs(length, blob)
  /\ step \in {"encoded", "decoded"} => safe = SafeText(blob)
  /\ step = "decoded" => back = SubSeq(blob, 1, Head(blob))
  /\ step = "stop" => OpenedAs(length, outcome)
  /\ safe \in Seq(Byte) /\ \A i \in 1 .. Len(safe) : safe[i] \notin Forbidden

(* A short text's blob says its own length.                                *)
LEMMA SealedShort ==
  ASSUME NEW n \in Nat, NEW b, SealedAs(n, b), n + HEADER < MODULUS
  PROVE  Head(b) = n + HEADER /\ Len(b) = n + HEADER /\ Head(b) \in Nat
<1>1. Len(b) = (n % MODULUS) + HEADER /\ Head(b) = Len(b) % MODULUS  BY DEF SealedAs
<1>2. MODULUS \in Nat \ {0} /\ HEADER \in Nat  BY SafeConstants
<1>3. n % MODULUS = n
  <2>1. n < MODULUS  BY <1>2
  <2>. QED  BY <1>2, <2>1, SmallRemainder, Zenon
<1>4. (n + HEADER) % MODULUS = n + HEADER
  <2>1. n + HEADER < MODULUS /\ n + HEADER \in Nat  BY <1>2
  <2>. QED  BY <1>2, <2>1, SmallRemainder, Zenon
<1>. QED  BY <1>1, <1>2, <1>3, <1>4

(* A blob's first byte is at most its length.                              *)
LEMMA SealedHead ==
  ASSUME NEW n \in Nat, NEW b, SealedAs(n, b)
  PROVE  b \in Seq(Byte) /\ b # << >> /\ Head(b) <= Len(b) /\ Head(b) \in Nat /\ Len(b) \in Nat
<1>1. b \in Seq(Byte) /\ b # << >> /\ Head(b) = Len(b) % MODULUS  BY DEF SealedAs
<1>2. Len(b) \in Nat  BY <1>1, LenProperties
<1>3. MODULUS \in Nat \ {0}  BY SafeConstants
<1>4. PICK k : k = Len(b)  OBVIOUS
<1>5. k \in Nat  BY <1>2, <1>4
<1>6. k % MODULUS <= k /\ k % MODULUS \in 0 .. MODULUS - 1
  BY <1>3, <1>5, SmallRemainder, Zenon
<1>7. k % MODULUS \in Nat  BY <1>3, <1>6
<1>. QED  BY <1>1, <1>2, <1>4, <1>6, <1>7

(* SafeInv holds at the start, and every action keeps it.                  *)
LEMMA SafeInitial == SafeInit => SafeInv
<1>. SUFFICES ASSUME SafeInit PROVE SafeInv  OBVIOUS
<1>1. step = "start" /\ safe = << >>  BY DEF SafeInit
<1>2. safe \in Seq(Byte) /\ \A i \in 1 .. Len(safe) : FALSE  BY <1>1
<1>. QED  BY <1>1, <1>2 DEF SafeInv

(* Sealing.                                                                *)
LEMMA EncryptStep == SafeInv /\ encrypt_to_peer => SafeInv'
<1>. SUFFICES ASSUME SafeInv, encrypt_to_peer PROVE SafeInv'  OBVIOUS
<1>. USE SafeConstants
<1>1. PICK n \in Lengths : encrypt_to_peer!2!(n)  BY DEF encrypt_to_peer
<1>. DEFINE short == n % MODULUS
            total == (short + HEADER) % MODULUS
<1>2. n \in Nat /\ length' = n /\ safe' = safe  BY <1>1 DEF encrypt_to_peer
<1>3. short \in Nat /\ short + HEADER \in Nat /\ total \in Byte
      /\ (n < MODULUS => short = n)
  <2>1. short \in 0 .. MODULUS - 1 /\ (n < MODULUS => short = n)
    BY <1>2, SmallRemainder, Zenon
  <2>. HIDE DEF short
  <2>2. short \in Nat /\ short + HEADER \in Nat  BY <2>1
  <2>3. total \in 0 .. MODULUS - 1  BY <2>2, SmallRemainder, Zenon
  <2>. QED  BY <2>1, <2>2, <2>3 DEF Byte
<1>4. safe' \in Seq(Byte) /\ \A i \in 1 .. Len(safe') : safe'[i] \notin Forbidden
  BY <1>2 DEF SafeInv
<1>5. CASE short + HEADER > MAX_SIZE
  <2>1. step' = "stop" /\ outcome' = "BAD"  BY <1>1, <1>5 DEF Stop
  <2>2. OpenedAs(n, "BAD")
    <3>1. n + HEADER < MODULUS => short = n  BY <1>2, <1>3
    <3>2. n + HEADER < MODULUS => ~ (2 * (n + HEADER) < MAX_SIZE)
      <4>. HIDE DEF short, total
      <4>. QED  BY <1>2, <1>3, <1>5, <3>1
    <3>. QED  BY <3>2 DEF OpenedAs
  <2>. QED  BY <1>2, <1>4, <2>1, <2>2 DEF SafeInv
<1>6. CASE ~ (short + HEADER > MAX_SIZE)
  <2>1. step' = "sealed" /\ \E tail \in Tails(short + HEADER - 1) : blob' = <<total>> \o tail
    BY <1>1, <1>6
  <2>2. PICK tail \in Tails(short + HEADER - 1) : blob' = <<total>> \o tail  BY <2>1
  <2>. HIDE DEF short, total
  <2>3. short + HEADER - 1 \in HEADER - 1 .. MAX_SIZE - 1  BY <1>3, <1>6
  <2>4. tail \in [1 .. short + HEADER - 1 -> Byte]  BY <2>2, <2>3, SafeCharsAssumption
  <2>5. tail \in Seq(Byte) /\ Len(tail) = short + HEADER - 1
    <3>1. PICK k : k = short + HEADER - 1  OBVIOUS
    <3>2. k \in Nat  BY <1>3, <3>1
    <3>3. tail \in [1 .. k -> Byte]  BY <2>4, <3>1
    <3>. QED  BY <3>1, <3>2, <3>3
  <2>6. <<total>> \in Seq(Byte) /\ Len(<<total>>) = 1 /\ <<total>>[1] = total  BY <1>3
  <2>7. PICK c : c = blob'  OBVIOUS
  <2>8. c \in Seq(Byte) /\ Len(c) = short + HEADER /\ c[1] = total
    <3>1. c = <<total>> \o tail  BY <2>2, <2>7
    <3>2. /\ c \in Seq(Byte) /\ Len(c) = 1 + Len(tail)
          /\ \A i \in 1 .. 1 + Len(tail) : c[i] = IF i <= 1 THEN <<total>>[i] ELSE tail[i - 1]
      BY <2>5, <2>6, <3>1, ConcatProperties
    <3>3. 1 \in 1 .. 1 + Len(tail) /\ 1 + Len(tail) = short + HEADER  BY <1>3, <2>5
    <3>. QED  BY <2>6, <3>2, <3>3
  <2>9. c # << >> /\ Head(c) = c[1]
    <3>1. Len(c) # 0  BY <1>3, <2>8
    <3>2. c # << >>  BY <3>1
    <3>. QED  BY <2>8, <3>2
  <2>10. SealedAs(n, c)  BY <2>8, <2>9 DEF SealedAs, short, total
  <2>11. SealedAs(length', blob')  BY <1>2, <2>7, <2>10
  <2>. QED  BY <1>2, <1>4, <2>1, <2>11 DEF SafeInv
<1>. QED  BY <1>5, <1>6

(* Escaping.                                                               *)
LEMMA EncodeStep == SafeInv /\ encode_to_safe_chars => SafeInv'
<1>. SUFFICES ASSUME SafeInv, encode_to_safe_chars PROVE SafeInv'  OBVIOUS
<1>1. /\ step = "sealed" /\ length' = length /\ blob' = blob
      /\ length \in Nat /\ SealedAs(length, blob)
      /\ safe \in Seq(Byte) /\ \A i \in 1 .. Len(safe) : safe[i] \notin Forbidden
  BY DEF SafeInv, encode_to_safe_chars
<1>2. PICK s : s = SafeText(blob)  OBVIOUS
<1>3. /\ s \in Seq(Byte) /\ Len(s) <= 2 * Head(blob)
      /\ \A i \in 1 .. Len(s) : s[i] \notin Forbidden
  BY <1>1, <1>2, SealedHead, SafeTextDecodes
<1>4. Len(s) \in Nat /\ MAX_SIZE \in Nat /\ HEADER \in Nat /\ MODULUS \in Nat
  BY <1>3, LenProperties, SafeConstants
<1>5. CASE Len(s) < MAX_SIZE
  <2>1. safe' = s /\ step' = "encoded"
    <3>1. ~ (Len(s) > MAX_SIZE) /\ ~ (Len(s) = MAX_SIZE)  BY <1>4, <1>5
    <3>. QED  BY <1>2, <1>5, <3>1 DEF encode_to_safe_chars
  <2>. QED  BY <1>1, <1>2, <1>3, <2>1 DEF SafeInv
<1>6. CASE ~ (Len(s) < MAX_SIZE)
  <2>1. safe' = safe /\ step' = "stop" /\ outcome' \in {"overrun", "BAD"}
    <3>1. CASE Len(s) > MAX_SIZE
      <4>1. ~ (Len(s) = MAX_SIZE) /\ ~ (Len(s) < MAX_SIZE)  BY <1>4, <3>1
      <4>. QED  BY <1>2, <3>1, <4>1, Zenon DEF encode_to_safe_chars, Stop
    <3>2. CASE Len(s) = MAX_SIZE
      <4>1. ~ (Len(s) > MAX_SIZE) /\ ~ (Len(s) < MAX_SIZE)  BY <1>4, <3>2
      <4>. QED  BY <1>2, <3>2, <4>1 DEF encode_to_safe_chars, Stop
    <3>3. Len(s) > MAX_SIZE \/ Len(s) = MAX_SIZE  BY <1>4, <1>6
    <3>. QED  BY <3>1, <3>2, <3>3
  <2>2. length + HEADER < MODULUS => ~ (2 * (length + HEADER) < MAX_SIZE)
    <3>. SUFFICES ASSUME length + HEADER < MODULUS PROVE ~ (2 * (length + HEADER) < MAX_SIZE)
      OBVIOUS
    <3>1. Head(blob) = length + HEADER  BY <1>1, SealedShort
    <3>. QED  BY <1>1, <1>3, <1>4, <1>6, <3>1
  <2>3. OpenedAs(length, outcome')  BY <2>1, <2>2 DEF OpenedAs
  <2>. QED  BY <1>1, <2>1, <2>3 DEF SafeInv
<1>. QED  BY <1>5, <1>6

(* Reading back.                                                           *)
LEMMA DecryptStep == SafeInv /\ decrypt_message => SafeInv'
<1>. SUFFICES ASSUME SafeInv, decrypt_message PROVE SafeInv'  OBVIOUS
<1>1. /\ length' = length /\ blob' = blob /\ safe' = safe /\ step' = "decoded"
      /\ back' = Decoded(safe)
      /\ length \in Nat /\ SealedAs(length, blob) /\ safe = SafeText(blob)
      /\ safe \in Seq(Byte) /\ \A i \in 1 .. Len(safe) : safe[i] \notin Forbidden
  BY DEF SafeInv, decrypt_message
<1>2. back' = SubSeq(blob, 1, Head(blob))  BY <1>1, SealedHead, SafeTextDecodes
<1>. QED  BY <1>1, <1>2 DEF SafeInv

(* Opening.                                                                *)
LEMMA OpenStep == SafeInv /\ decrypt_from_peer => SafeInv'
<1>. SUFFICES ASSUME SafeInv, decrypt_from_peer PROVE SafeInv'  OBVIOUS
<1>1. /\ length' = length /\ blob' = blob /\ safe' = safe
      /\ length \in Nat /\ SealedAs(length, blob) /\ back = SubSeq(blob, 1, Head(blob))
      /\ safe \in Seq(Byte) /\ \A i \in 1 .. Len(safe) : safe[i] \notin Forbidden
  BY DEF SafeInv, decrypt_from_peer
<1>2. step' = "stop"
  <2>1. back # << >> => Head(back) \in Nat
    <3>. SUFFICES ASSUME back # << >> PROVE Head(back) \in Nat  OBVIOUS
    <3>1. /\ blob \in Seq(Byte) /\ Head(blob) \in Nat /\ Len(blob) \in Nat
          /\ Head(blob) <= Len(blob)
      BY <1>1, SealedHead
    <3>2. back \in Seq(Byte)  BY <1>1, <3>1, SubSeqProperties
    <3>3. Head(back) \in Byte  BY <3>2
    <3>. QED  BY <3>3, SafeConstants DEF Byte
  <2>2. HEADER \in Nat  BY SafeConstants
  <2>3. CASE back = << >> \/ Head(back) < HEADER
    <3>1. ~ (back # << >> /\ Head(back) >= HEADER)
      <4>1. CASE back = << >>  BY <4>1
      <4>2. CASE back # << >> /\ Head(back) < HEADER
        BY <2>1, <2>2, <4>2
      <4>. QED  BY <2>3, <4>1, <4>2
    <3>. QED  BY <2>3, <3>1 DEF decrypt_from_peer, Stop
  <2>4. CASE back # << >> /\ Head(back) >= HEADER
    <3>1. ~ (back = << >> \/ Head(back) < HEADER)  BY <2>1, <2>2, <2>4
    <3>. QED  BY <2>4, <3>1 DEF decrypt_from_peer, Stop
  <2>5. (back = << >> \/ Head(back) < HEADER) \/ (back # << >> /\ Head(back) >= HEADER)
    BY <2>1, <2>2
  <2>. QED  BY <2>3, <2>4, <2>5
<1>3. OpenedAs(length, outcome')
  <2>. SUFFICES ASSUME length + HEADER < MODULUS PROVE outcome' = "same"
    BY DEF OpenedAs
  <2>1. /\ Head(blob) = length + HEADER /\ Len(blob) = length + HEADER
        /\ blob \in Seq(Byte) /\ blob # << >> /\ HEADER \in Nat
    BY <1>1, SealedShort, SealedHead, SafeConstants
  <2>2. back = blob
    <3>1. SubSeq(blob, 1, Len(blob)) = blob  BY <2>1, SubSeqFull
    <3>. QED  BY <1>1, <2>1, <3>1
  <2>3. back # << >> /\ Head(back) >= HEADER /\ ~ (Head(back) < HEADER)
        /\ Head(back) - HEADER = length
    BY <1>1, <2>1, <2>2
  <2>. QED  BY <2>2, <2>3 DEF decrypt_from_peer, Stop
<1>. QED  BY <1>1, <1>2, <1>3 DEF SafeInv

(* Every step keeps it.                                                    *)
LEMMA SafeStep == SafeInv /\ [SafeNext]_safeVars => SafeInv'
<1>1. ASSUME SafeInv, UNCHANGED safeVars PROVE SafeInv'
  BY <1>1 DEF SafeInv, safeVars
<1>. QED  BY <1>1, EncryptStep, EncodeStep, DecryptStep, OpenStep DEF SafeNext

(* A text is sealed, written without an end in it, read back and opened as *)
(* SafeInv says, from encrypt_to_peer to decrypt_from_peer                 *)
(* (src/encryption_api.c).                                                 *)
THEOREM SafeInvariance == SafeSpec => []SafeInv
BY SafeInitial, SafeStep, PTL DEF SafeSpec

(* Whatever the header and the cipher text are: a text whose length and    *)
(* the header's fit the length byte together is never opened to another    *)
(* one, and is opened to itself if escaping cannot outgrow the buffer; and *)
(* what encode_to_safe_chars writes has no NUL, CR or LF.                  *)
THEOREM SafeRoundTrip == SafeSpec => []RoundTrip
<1>1. SafeInv => RoundTrip
  <2>. SUFFICES ASSUME SafeInv PROVE RoundTrip  OBVIOUS
  <2>1. ToSet(safe) \cap {NUL, NEW_L, CAR_RET} = {}
    <3>1. safe \in Seq(Byte) /\ \A i \in 1 .. Len(safe) : safe[i] \notin Forbidden
      BY DEF SafeInv
    <3>2. DOMAIN safe = 1 .. Len(safe)  BY <3>1, LenProperties
    <3>. QED  BY <3>1, <3>2 DEF ToSet, Forbidden
  <2>2. step = "stop" => OpenedAs(length, outcome)  BY DEF SafeInv
  <2>. QED  BY <2>1, <2>2 DEF RoundTrip, OpenedAs
<1>. QED  BY <1>1, SafeInvariance, PTL
=============================================================================
