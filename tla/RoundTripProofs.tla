--------------------------- MODULE RoundTripProofs ---------------------------
(***************************************************************************)
(* What is sent is read back: the payloads of the protocol (WireCodec.tla) *)
(* and the documents of the messenger (MessengerCommands.tla), in the run  *)
(* of the stores (MCStores.tla).                                           *)
(***************************************************************************)
EXTENDS MCStores, Sequences, FiniteSetTheorems, WellFoundedInduction, TLAPS

-----------------------------------------------------------------------------
(* Functions that are defined by the value before, and sequences of        *)
(* sequences: FlattenSeq adds one sequence after the other.                *)

\* A stream, and what is put into it: a sequence of numbers.
ByteStrings == Seq(Nat)

\* What holds of 0 and passes from each number to the next holds up to n.
LEMMA FromZero ==
  ASSUME NEW n \in Nat, NEW T, 0 \in T, \A k \in 1 .. n : k - 1 \in T => k \in T
  PROVE  0 .. n \subseteq T
<1>. DEFINE R == OpToRel(<, Nat)
           missing == (0 .. n) \ T
<1>. SUFFICES ASSUME missing # {} PROVE FALSE
  OBVIOUS
<1>0. IsWellFoundedOn(R, Nat)
  BY NatLessThanWellFounded
<1>1. IsWellFoundedOn(R, Nat) /\ missing \subseteq Nat
  <2>. HIDE DEF R
  <2>. QED
    BY <1>0
<1>2. PICK x \in missing : \A y \in missing : <<y, x>> \notin R
  <2>. HIDE DEF R, missing
  <2>. QED
    BY <1>1, WFMin
<1>3. x \in 1 .. n /\ x - 1 \in Nat /\ x - 1 \in 0 .. n
  OBVIOUS
<1>4. x - 1 \in missing
  BY <1>3
<1>5. <<x - 1, x>> \in R
  <2>1. x \in Nat /\ x - 1 < x
    BY <1>3
  <2>. HIDE DEF missing
  <2>. QED
    BY <1>3, <2>1 DEF OpToRel
<1>. QED
  BY <1>2, <1>4, <1>5

\* A function defined by recursion on the numbers up to n.
Steps(S, n) == [1 .. n -> [S -> S]]
\* A value for each number up to n, each made of the one before it.
Runs(S, n, base, step) ==
  {f \in [0 .. n -> S] : f[0] = base /\ \A k \in 1 .. n : f[k] = step[k][f[k - 1]]}

\* A function that is defined on 0 .. n by the value before is what it is defined as.
LEMMA UpTo ==
  ASSUME NEW S, NEW n \in Nat, NEW base \in S, NEW step \in Steps(S, n)
  PROVE  Runs(S, n, base, step) # {}
<1>. USE DEF Steps
<1>. DEFINE So(k, f) == f \in [0 .. k -> S] /\ f[0] = base /\ \A i \in 1 .. k : f[i] = step[i][f[i - 1]]
           T == {k \in 0 .. n : \E f : So(k, f)}
<1>1. 0 \in T
  <2>1. So(0, [i \in 0 .. 0 |-> base])
    OBVIOUS
  <2>. HIDE DEF So
  <2>. QED
    BY <2>1
<1>2. ASSUME NEW k \in 1 .. n, k - 1 \in T PROVE k \in T
  <2>1. PICK f : So(k - 1, f)
    BY <1>2
  <2>. DEFINE g == [i \in 0 .. k |-> IF i < k THEN f[i] ELSE step[k][f[k - 1]]]
  <2>2. \A i \in 0 .. k : g[i] = IF i < k THEN f[i] ELSE step[k][f[k - 1]]
    OBVIOUS
  <2>3. f[k - 1] \in S /\ step[k] \in [S -> S]
    BY <2>1
  <2>4. g \in [0 .. k -> S]
    BY <2>1, <2>3
  <2>. HIDE DEF g
  <2>5. g[0] = base /\ \A i \in 1 .. k : g[i] = step[i][g[i - 1]]
    BY <2>1, <2>2
  <2>6. So(k, g)
    BY <2>4, <2>5
  <2>. HIDE DEF So
  <2>. QED
    BY <2>6
<1>3. n \in T
  <2>1. 0 .. n \subseteq T
    <3>. HIDE DEF T
    <3>. QED
      BY <1>1, <1>2, FromZero
  <2>. HIDE DEF T
  <2>. QED
    BY <2>1
<1>4. PICK f : So(n, f)
  <2>. HIDE DEF So
  <2>. QED
    BY <1>3
<1>. QED
  BY <1>4 DEF Runs

\* What FlattenSeq computes, piece by piece.
LEMMA Joined ==
  ASSUME NEW p \in Seq(ByteStrings)
  PROVE  \E f \in [0 .. Len(p) -> ByteStrings] :
           /\ f[0] = << >>
           /\ \A i \in 1 .. Len(p) : f[i] = f[i - 1] \o p[i]
           /\ Codec!FlattenSeq(p) = f[Len(p)]
<1>. DEFINE n == Len(p)
           E(f) == [i \in 1 .. n |-> IF i = 1 THEN p[i] ELSE f[i - 1] \o p[i]]
           flat == CHOOSE f : f = E(f)
           step == [k \in 1 .. n |-> [s \in ByteStrings |-> s \o p[k]]]
<1>1. n \in Nat /\ << >> \in ByteStrings /\ \A i \in 1 .. n : p[i] \in ByteStrings
  BY DEF ByteStrings
<1>2. step \in Steps(ByteStrings, n)
  BY <1>1 DEF ByteStrings, Steps
<1>3. PICK f \in [0 .. n -> ByteStrings] : f[0] = << >> /\ \A k \in 1 .. n : f[k] = step[k][f[k - 1]]
  <2>1. PICK none \in ByteStrings : none = << >>
    BY <1>1
  <2>2. Runs(ByteStrings, n, none, step) # {}
    <3>. HIDE DEF n, step
    <3>. QED
      BY <1>1, <1>2, UpTo
  <2>. HIDE DEF n, step
  <2>. QED
    BY <2>1, <2>2 DEF Runs
<1>4. ASSUME NEW k \in 1 .. n PROVE f[k] = f[k - 1] \o p[k]
  <2>1. f[k] = step[k][f[k - 1]] /\ f[k - 1] \in ByteStrings
    <3>. HIDE DEF step, n
    <3>. QED
      BY <1>1, <1>3
  <2>2. step[k] = [s \in ByteStrings |-> s \o p[k]]
    OBVIOUS
  <2>. HIDE DEF step, n
  <2>. QED
    BY <2>1, <2>2
<1>5. n # 0 => f[1] = p[1]
  <2>1. n # 0 => f[1] = << >> \o p[1]
    <3>1. n # 0 => 1 \in 1 .. n
      BY <1>1
    <3>2. n # 0 => f[1] = f[0] \o p[1]
      BY <1>4, <3>1
    <3>. HIDE DEF n, step, flat
    <3>. QED
      BY <1>3, <3>2
  <2>2. \A s \in ByteStrings : << >> \o s = s
    BY DEF ByteStrings
  <2>3. n # 0 => p[1] \in ByteStrings
    BY <1>1
  <2>. HIDE DEF n
  <2>. QED
    BY <2>1, <2>2, <2>3
<1>. DEFINE h == [i \in 1 .. n |-> f[i]]
<1>6. h = E(h)
  <2>1. ASSUME NEW i \in 1 .. n PROVE f[i] = IF i = 1 THEN p[i] ELSE h[i - 1] \o p[i]
    <3>1. CASE i = 1
      BY <1>1, <1>5, <3>1
    <3>2. CASE i # 1
      <4>1. i - 1 \in 1 .. n /\ h[i - 1] = f[i - 1]
        BY <1>1, <3>2
      <4>. QED
        BY <1>4, <3>2, <4>1
    <3>. QED
      BY <3>1, <3>2
  <2>. QED
    BY <2>1
<1>7. flat = E(flat)
  <2>. HIDE DEF E, h
  <2>. QED
    BY <1>6
<1>8. Codec!FlattenSeq(p) = IF n = 0 THEN p ELSE flat[n]
  BY <1>1 DEF Codec!FlattenSeq
<1>9. \A i \in 1 .. n : flat[i] = IF i = 1 THEN p[i] ELSE flat[i - 1] \o p[i]
  <2>1. \A i \in 1 .. n : E(flat)[i] = IF i = 1 THEN p[i] ELSE flat[i - 1] \o p[i]
    <3>. HIDE DEF flat
    <3>. QED
      OBVIOUS
  <2>. HIDE DEF flat, E
  <2>. QED
    BY <1>7, <2>1
<1>. HIDE DEF flat, E, h
<1>10. n # 0 => flat[n] = f[n]
  <2>. DEFINE Same == {k \in 0 .. n : k = 0 \/ flat[k] = f[k]}
  <2>1. ASSUME NEW k \in 1 .. n, k - 1 \in Same PROVE k \in Same
    <3>1. flat[k] = f[k]
      <4>1. CASE k = 1
        BY <1>1, <1>5, <1>9, <4>1
      <4>2. CASE k # 1
        <5>1. flat[k - 1] = f[k - 1]
          BY <2>1, <4>2
        <5>2. flat[k] = flat[k - 1] \o p[k]
          BY <1>9, <4>2
        <5>. QED
          BY <1>4, <5>1, <5>2
      <4>. QED
        BY <4>1, <4>2
    <3>. QED
      BY <1>1, <3>1
  <2>2. 0 \in Same
    BY <1>1
  <2>3. 0 .. n \subseteq Same
    <3>. HIDE DEF Same, n
    <3>. QED
      BY <1>1, <2>1, <2>2, FromZero
  <2>. QED
    BY <1>1, <2>3
<1>11. n = 0 => p = << >>
  OBVIOUS
<1>. HIDE DEF n
<1>12. Codec!FlattenSeq(p) = f[n]
  BY <1>1, <1>3, <1>8, <1>10, <1>11
<1>. QED
  BY <1>3, <1>4, <1>12 DEF n

-----------------------------------------------------------------------------
(* WireCodec: numbers and their bytes.                                     *)

\* What w bytes can hold.
Capacity(w) ==
  LET power[k \in 0 .. w] == IF k = 0 THEN 1 ELSE power[k - 1] * Base
  IN power[w]
\* A number fits w bytes.
Fits(n, w) == n \in Nat /\ n < Capacity(w)

\* Division by the base leaves a digit and a smaller number.
LEMMA DivisionBy ==
  ASSUME NEW x \in Nat, NEW b \in Nat, b > 0
  PROVE  /\ x \div b \in Nat /\ x % b \in Nat /\ x % b < b
         /\ x = (x \div b) * b + (x % b)
         /\ \A c \in Nat : x < c * b => x \div b < c
<1>1. /\ x \div b \in Nat /\ x % b \in Nat /\ x % b < b
      /\ x = (x \div b) * b + (x % b)
  OBVIOUS
<1>2. ASSUME NEW c \in Nat, x < c * b, ~(x \div b < c) PROVE FALSE
  <2>. DEFINE q == x \div b
  <2>1. q \in Nat /\ q >= c
    BY <1>1, <1>2
  <2>2. q * b >= c * b
    <3>. HIDE DEF q
    <3>1. PICK d \in Nat : q = c + d
      <4>1. q - c \in Nat /\ q = c + (q - c)
        BY <2>1
      <4>. QED
        BY <4>1
    <3>2. q * b = c * b + d * b /\ d * b \in Nat
      BY <3>1
    <3>3. q * b \in Nat /\ c * b \in Nat
      BY <2>1
    <3>. HIDE DEF q
    <3>. QED
      BY <3>2, <3>3
  <2>3. x >= q * b
    BY <1>1
  <2>4. x \in Nat /\ c * b \in Nat /\ q * b \in Nat
    BY <1>1
  <2>. HIDE DEF q
  <2>. QED
    BY <1>2, <2>2, <2>3, <2>4
<1>. QED
  BY <1>1, <1>2

\* The capacity grows with the bytes.
LEMMA Powers ==
  ASSUME NEW w \in Nat
  PROVE  \E c \in [0 .. w -> Nat] :
           c[0] = 1 /\ (\A k \in 1 .. w : c[k] = c[k - 1] * Base) /\ Capacity(w) = c[w]
<1>. DEFINE E(f) == [k \in 0 .. w |-> IF k = 0 THEN 1 ELSE f[k - 1] * Base]
           power == CHOOSE f : f = E(f)
           step == [k \in 1 .. w |-> [x \in Nat |-> x * Base]]
<1>1. step \in Steps(Nat, w)
  BY StoresAssumption DEF Steps
<1>2. PICK f \in [0 .. w -> Nat] : f[0] = 1 /\ \A k \in 1 .. w : f[k] = step[k][f[k - 1]]
  <2>1. Runs(Nat, w, 1, step) # {}
    <3>. HIDE DEF step
    <3>. QED
      BY <1>1, UpTo
  <2>. HIDE DEF step
  <2>. QED
    BY <2>1 DEF Runs
<1>3. ASSUME NEW k \in 1 .. w PROVE f[k] = f[k - 1] * Base
  <2>1. step[k] = [x \in Nat |-> x * Base]
    OBVIOUS
  <2>. HIDE DEF step, power
  <2>. QED
    BY <1>2, <2>1
<1>4. f = E(f)
  BY <1>2, <1>3
<1>5. power = E(power)
  <2>. HIDE DEF E
  <2>. QED
    BY <1>4
<1>6. Capacity(w) = power[w]
  BY DEF Capacity
<1>7. power[0] = 1 /\ \A k \in 1 .. w : power[k] = power[k - 1] * Base
  <2>1. E(power)[0] = 1 /\ \A k \in 1 .. w : E(power)[k] = power[k - 1] * Base
    <3>. HIDE DEF power
    <3>. QED
      OBVIOUS
  <2>. HIDE DEF power, E
  <2>. QED
    BY <1>5, <2>1
<1>. HIDE DEF power, E, step
<1>8. power[w] = f[w]
  <2>. DEFINE Same == {k \in 0 .. w : power[k] = f[k]}
  <2>1. ASSUME NEW k \in 1 .. w, k - 1 \in Same PROVE k \in Same
    BY <1>3, <1>7, <2>1
  <2>2. 0 \in Same
    BY <1>2, <1>7
  <2>3. 0 .. w \subseteq Same
    <3>. HIDE DEF Same
    <3>. QED
      BY <2>1, <2>2, FromZero
  <2>. QED
    BY <2>3
<1>. QED
  BY <1>2, <1>3, <1>6, <1>8

\* The bytes of a number: what is left of it after every byte.
LEMMA Rests ==
  ASSUME NEW n \in Nat, NEW w \in Nat
  PROVE  \E rest \in [0 .. w -> Nat] :
           /\ rest[0] = n
           /\ \A k \in 1 .. w : rest[k] = rest[k - 1] \div Base
           /\ Codec!Bytes(n, w) = [i \in 1 .. w |-> rest[w - i] % Base]
<1>. DEFINE E(f) == [k \in 0 .. w |-> IF k = 0 THEN n ELSE f[k - 1] \div Base]
           left == CHOOSE f : f = E(f)
           step == [k \in 1 .. w |-> [x \in Nat |-> x \div Base]]
<1>0. \A x \in Nat : x \div Base \in Nat
  BY StoresAssumption, DivisionBy
<1>1. step \in Steps(Nat, w)
  BY <1>0 DEF Steps
<1>2. PICK f \in [0 .. w -> Nat] : f[0] = n /\ \A k \in 1 .. w : f[k] = step[k][f[k - 1]]
  <2>1. Runs(Nat, w, n, step) # {}
    <3>. HIDE DEF step
    <3>. QED
      BY <1>1, UpTo
  <2>. HIDE DEF step
  <2>. QED
    BY <2>1 DEF Runs
<1>3. ASSUME NEW k \in 1 .. w PROVE f[k] = f[k - 1] \div Base
  <2>1. step[k] = [x \in Nat |-> x \div Base]
    OBVIOUS
  <2>. HIDE DEF step, left
  <2>. QED
    BY <1>2, <2>1
<1>4. f = E(f)
  BY <1>2, <1>3
<1>5. left = E(left)
  <2>. HIDE DEF E
  <2>. QED
    BY <1>4
<1>6. Codec!Bytes(n, w) = [i \in 1 .. w |-> left[w - i] % Base]
  BY DEF Codec!Bytes
<1>7. left[0] = n /\ \A k \in 1 .. w : left[k] = left[k - 1] \div Base
  <2>1. E(left)[0] = n /\ \A k \in 1 .. w : E(left)[k] = left[k - 1] \div Base
    <3>. HIDE DEF left
    <3>. QED
      OBVIOUS
  <2>. HIDE DEF left, E
  <2>. QED
    BY <1>5, <2>1
<1>. HIDE DEF left, E, step
<1>8. \A k \in 0 .. w : left[k] = f[k]
  <2>. DEFINE Same == {k \in 0 .. w : left[k] = f[k]}
  <2>1. ASSUME NEW k \in 1 .. w, k - 1 \in Same PROVE k \in Same
    BY <1>3, <1>7, <2>1
  <2>2. 0 \in Same
    BY <1>2, <1>7
  <2>3. 0 .. w \subseteq Same
    <3>. HIDE DEF Same
    <3>. QED
      BY <2>1, <2>2, FromZero
  <2>. QED
    BY <2>3
<1>9. Codec!Bytes(n, w) = [i \in 1 .. w |-> f[w - i] % Base]
  <2>1. \A i \in 1 .. w : left[w - i] = f[w - i]
    BY <1>8
  <2>. QED
    BY <1>6, <2>1
<1>. QED
  BY <1>2, <1>3, <1>9

\* A number that fits is read back from its bytes.
LEMMA NumberOfBytes ==
  ASSUME NEW w \in Nat, NEW n, Fits(n, w)
  PROVE  /\ Codec!Bytes(n, w) \in ByteStrings
         /\ Len(Codec!Bytes(n, w)) = w
         /\ Codec!Number(Codec!Bytes(n, w)) = n
<1>1. Base \in Nat /\ Base > 0 /\ n \in Nat
  BY StoresAssumption DEF Fits
<1>2. PICK rest \in [0 .. w -> Nat] :
        /\ rest[0] = n
        /\ \A k \in 1 .. w : rest[k] = rest[k - 1] \div Base
        /\ Codec!Bytes(n, w) = [i \in 1 .. w |-> rest[w - i] % Base]
  BY <1>1, Rests
<1>3. PICK c \in [0 .. w -> Nat] :
        c[0] = 1 /\ (\A k \in 1 .. w : c[k] = c[k - 1] * Base) /\ Capacity(w) = c[w]
  BY Powers
<1>4. rest[w] = 0
  <2>. DEFINE T == {k \in 0 .. w : rest[k] < c[w - k]}
  <2>1. 0 \in T
    BY <1>2, <1>3 DEF Fits
  <2>2. ASSUME NEW k \in 1 .. w, k - 1 \in T PROVE k \in T
    <3>1. w - k \in 0 .. w /\ w - (k - 1) \in 1 .. w /\ (w - (k - 1)) - 1 = w - k
      OBVIOUS
    <3>2. c[w - (k - 1)] = c[w - k] * Base /\ c[w - k] \in Nat
      BY <1>3, <3>1
    <3>3. rest[k - 1] < c[w - k] * Base /\ rest[k - 1] \in Nat
      BY <1>2, <2>2, <3>2
    <3>4. rest[k - 1] \div Base < c[w - k]
      BY <1>1, <3>2, <3>3, DivisionBy
    <3>. QED
      BY <1>2, <3>4
  <2>3. 0 .. w \subseteq T
    <3>. HIDE DEF T
    <3>. QED
      BY <2>1, <2>2, FromZero
  <2>4. rest[w] < c[w - w] /\ rest[w] \in Nat
    BY <1>2, <2>3
  <2>5. w - w = 0
    OBVIOUS
  <2>. QED
    BY <1>3, <2>4, <2>5
<1>. DEFINE b == Codec!Bytes(n, w)
<1>5. ASSUME NEW i \in 1 .. w PROVE rest[w - i] \in Nat /\ b[i] = rest[w - i] % Base /\ b[i] \in Nat
  <2>1. rest[w - i] \in Nat
    BY <1>2
  <2>2. b[i] = rest[w - i] % Base
    BY <1>2
  <2>. QED
    BY <1>1, <2>1, <2>2, DivisionBy
<1>6. b \in [1 .. w -> Nat]
  <2>1. b = [i \in 1 .. w |-> rest[w - i] % Base]
    BY <1>2
  <2>. HIDE DEF b
  <2>. QED
    BY <1>5, <2>1
<1>. HIDE DEF b
<1>7. b \in ByteStrings /\ Len(b) = w
  BY <1>6 DEF ByteStrings
<1>. DEFINE E(f) == [k \in 0 .. Len(b) |-> IF k = 0 THEN 0 ELSE f[k - 1] * Base + b[k]]
           upTo == CHOOSE f : f = E(f)
           up == [k \in 0 .. w |-> rest[w - k]]
<1>8. up[0] = 0 /\ \A k \in 1 .. w : up[k] = up[k - 1] * Base + b[k]
  <2>1. up[0] = 0
    BY <1>4
  <2>2. ASSUME NEW k \in 1 .. w PROVE up[k] = up[k - 1] * Base + b[k]
    <3>1. w - (k - 1) \in 1 .. w /\ (w - (k - 1)) - 1 = w - k /\ k - 1 \in 0 .. w /\ k \in 0 .. w
      OBVIOUS
    <3>2. rest[w - (k - 1)] = rest[w - k] \div Base
      BY <1>2, <3>1
    <3>3. up[k] = rest[w - k] /\ up[k - 1] = rest[w - k] \div Base
      BY <3>1, <3>2
    <3>4. rest[w - k] \in Nat /\ b[k] = rest[w - k] % Base
      BY <1>5
    <3>5. rest[w - k] = (rest[w - k] \div Base) * Base + (rest[w - k] % Base)
      BY <1>1, <3>4, DivisionBy
    <3>. HIDE DEF up, upTo, E
    <3>. QED
      BY <3>3, <3>4, <3>5
  <2>. QED
    BY <2>1, <2>2
<1>9. up = E(up)
  <2>1. up = [k \in 0 .. w |-> up[k]]
    OBVIOUS
  <2>2. \A k \in 0 .. w : up[k] = IF k = 0 THEN 0 ELSE up[k - 1] * Base + b[k]
    <3>. HIDE DEF up, upTo, E
    <3>. QED
      BY <1>8
  <2>3. E(up) = [k \in 0 .. w |-> IF k = 0 THEN 0 ELSE up[k - 1] * Base + b[k]]
    <3>. HIDE DEF up
    <3>. QED
      BY <1>7
  <2>. HIDE DEF up, E, upTo
  <2>. QED
    BY <2>1, <2>2, <2>3
<1>10. upTo = E(upTo)
  <2>. HIDE DEF E, up
  <2>. QED
    BY <1>9
<1>11. Codec!Number(b) = upTo[w]
  BY <1>7 DEF Codec!Number
<1>12. upTo[0] = 0 /\ \A k \in 1 .. w : upTo[k] = upTo[k - 1] * Base + b[k]
  <2>1. E(upTo)[0] = 0 /\ \A k \in 1 .. w : E(upTo)[k] = upTo[k - 1] * Base + b[k]
    <3>. HIDE DEF upTo
    <3>. QED
      BY <1>7
  <2>. HIDE DEF upTo, E
  <2>. QED
    BY <1>10, <2>1
<1>13. up[w] = n
  <2>1. w - w = 0
    OBVIOUS
  <2>. QED
    BY <1>2, <2>1
<1>. HIDE DEF upTo, E, up
<1>14. upTo[w] = up[w]
  <2>. DEFINE Same == {k \in 0 .. w : upTo[k] = up[k]}
  <2>1. ASSUME NEW k \in 1 .. w, k - 1 \in Same PROVE k \in Same
    BY <1>8, <1>12, <2>1
  <2>2. 0 \in Same
    BY <1>8, <1>12
  <2>3. 0 .. w \subseteq Same
    <3>. HIDE DEF Same
    <3>. QED
      BY <2>1, <2>2, FromZero
  <2>. QED
    BY <2>3
<1>15. Codec!Number(b) = n
  BY <1>11, <1>13, <1>14
<1>. QED
  BY <1>7, <1>15 DEF b

-----------------------------------------------------------------------------
(* Pieces of a stream.                                                     *)

\* A stream has these bytes behind a position.
Holds(data, at, piece) ==
  /\ data \in ByteStrings /\ at \in Nat /\ piece \in ByteStrings
  /\ at + Len(piece) <= Len(data)
  /\ \A i \in 1 .. Len(piece) : data[at + i] = piece[i]

\* Of two pieces in one, each is held in its place.
LEMMA HoldsBoth ==
  ASSUME NEW data, NEW at, NEW s \in ByteStrings, NEW t \in ByteStrings, Holds(data, at, s \o t)
  PROVE  Holds(data, at, s) /\ Holds(data, at + Len(s), t) /\ at + Len(s \o t) = (at + Len(s)) + Len(t)
<1>1. Len(s) \in Nat /\ Len(t) \in Nat /\ Len(s \o t) = Len(s) + Len(t) /\ at \in Nat /\ data \in ByteStrings
      /\ Len(data) \in Nat
  BY DEF ByteStrings, Holds
<1>2. ASSUME NEW i \in 1 .. Len(s) PROVE data[at + i] = s[i]
  <2>1. (s \o t)[i] = s[i] /\ i \in 1 .. Len(s \o t)
    BY <1>1 DEF ByteStrings
  <2>. QED
    BY <2>1 DEF Holds
<1>3. ASSUME NEW i \in 1 .. Len(t) PROVE data[(at + Len(s)) + i] = t[i]
  <2>1. (s \o t)[Len(s) + i] = t[i] /\ Len(s) + i \in 1 .. Len(s \o t)
    BY <1>1 DEF ByteStrings
  <2>2. data[at + (Len(s) + i)] = t[i]
    BY <2>1 DEF Holds
  <2>3. at + (Len(s) + i) = (at + Len(s)) + i
    BY <1>1
  <2>. QED
    BY <2>2, <2>3
<1>4. at + (Len(s) + Len(t)) <= Len(data)
  BY <1>1 DEF Holds
<1>. QED
  BY <1>1, <1>2, <1>3, <1>4 DEF Holds

\* Mid gives back a piece that is held.
LEMMA MidOfHeld ==
  ASSUME NEW data, NEW at, NEW s, Holds(data, at, s)
  PROVE  Codec!Mid(data, at, Len(s)) = s
<1>1. /\ Len(s) \in Nat /\ at \in Nat /\ data \in Seq(Nat) /\ Len(data) \in Nat /\ s \in Seq(Nat)
      /\ at + Len(s) <= Len(data)
  BY DEF ByteStrings, Holds
<1>. DEFINE m == SubSeq(data, at + 1, at + Len(s))
<1>2. Codec!Mid(data, at, Len(s)) = m
  BY <1>1 DEF Codec!Mid
<1>3. m \in Seq(Nat) /\ Len(m) = Len(s)
  BY <1>1
<1>4. ASSUME NEW i \in 1 .. Len(s) PROVE m[i] = s[i]
  <2>1. m[i] = data[(at + 1) + i - 1]
    BY <1>1
  <2>2. (at + 1) + i - 1 = at + i
    BY <1>1
  <2>. QED
    BY <2>1, <2>2 DEF Holds
<1>. HIDE DEF m
<1>5. m = s
  <2>1. m = [i \in 1 .. Len(s) |-> m[i]] /\ s = [i \in 1 .. Len(s) |-> s[i]]
    BY <1>1, <1>3
  <2>. QED
    BY <1>4, <2>1
<1>. QED
  BY <1>2, <1>5

\* Numbers and texts are read where they are held.
LEMMA NumberHeld ==
  ASSUME NEW n, NEW w \in Nat, Fits(n, w), NEW data, NEW at, Holds(data, at, Codec!Bytes(n, w))
  PROVE  Codec!ReadNumber(data, at, w) = Codec!Got(n, at + w)
<1>1. Len(Codec!Bytes(n, w)) = w /\ Codec!Number(Codec!Bytes(n, w)) = n
  BY NumberOfBytes
<1>2. at \in Nat /\ at + w <= Len(data) /\ Len(data) \in Nat
  BY <1>1 DEF Holds, ByteStrings
<1>3. Codec!Mid(data, at, w) = Codec!Bytes(n, w)
  BY <1>1, MidOfHeld
<1>. QED
  BY <1>1, <1>2, <1>3 DEF Codec!ReadNumber

\* A text behind its length.
Framed(x, w) == Codec!Bytes(Len(x), w) \o x

\* A text that is held is read, by readers that skip it and by those that do not.
LEMMA TextHeld ==
  ASSUME NEW x \in ByteStrings, NEW w \in Nat, Fits(Len(x), w), NEW data, NEW at,
         Holds(data, at, Framed(x, w))
  PROVE  /\ Codec!ReadText(data, at, w, TRUE) = Codec!Got(x, at + Len(Framed(x, w)))
         /\ Codec!ReadText(data, at, w, FALSE) = Codec!Got(x, at + w)
         /\ Len(Framed(x, w)) = w + Len(x)
<1>. DEFINE b == Codec!Bytes(Len(x), w)
<1>1. b \in ByteStrings /\ Len(b) = w
  BY NumberOfBytes
<1>2. Holds(data, at, b) /\ Holds(data, at + w, x) /\ at + Len(Framed(x, w)) = (at + w) + Len(x)
      /\ Len(Framed(x, w)) = w + Len(x)
  <2>1. Holds(data, at, b \o x)
    BY DEF Framed
  <2>2. Len(b \o x) = Len(b) + Len(x)
    BY <1>1 DEF ByteStrings
  <2>. HIDE DEF b
  <2>. QED
    BY <1>1, <2>1, <2>2, HoldsBoth DEF Framed, b
<1>3. Codec!ReadNumber(data, at, w) = Codec!Got(Len(x), at + w)
  BY <1>2, NumberHeld
<1>4. Codec!Mid(data, at + w, Len(x)) = x
  BY <1>2, MidOfHeld
<1>5. (at + w) + Len(x) <= Len(data) /\ Len(data) \in Nat /\ Len(x) \in Nat /\ at \in Nat
  BY <1>2 DEF Holds, ByteStrings
<1>6. /\ Codec!ReadNumber(data, at, w).at = at + w
      /\ Codec!ReadNumber(data, at, w).value = Len(x)
  BY <1>3 DEF Codec!Got
<1>7. ~((at + w) + Len(x) > Len(data))
  BY <1>5
<1>. QED
  BY <1>2, <1>4, <1>6, <1>7 DEF Codec!ReadText

\* The pieces of a stream lie one behind the other.
LEMMA PiecesHeld ==
  ASSUME NEW p \in Seq(ByteStrings), NEW data, NEW start, Holds(data, start, Codec!FlattenSeq(p))
  PROVE  \E at \in [0 .. Len(p) -> Nat] :
           /\ at[0] = start /\ at[Len(p)] = start + Len(Codec!FlattenSeq(p))
           /\ \A k \in 1 .. Len(p) : at[k] = at[k - 1] + Len(p[k]) /\ Holds(data, at[k - 1], p[k])
<1>. DEFINE n == Len(p)
<1>1. PICK f \in [0 .. n -> ByteStrings] :
        /\ f[0] = << >>
        /\ \A i \in 1 .. n : f[i] = f[i - 1] \o p[i]
        /\ Codec!FlattenSeq(p) = f[n]
  BY Joined
<1>2. n \in Nat /\ \A i \in 1 .. n : p[i] \in ByteStrings
  OBVIOUS
<1>3. start \in Nat /\ Holds(data, start, f[n])
  BY <1>1 DEF Holds
<1>. DEFINE at == [k \in 0 .. n |-> start + Len(f[k])]
<1>. HIDE DEF n
<1>4. at \in [0 .. n -> Nat] /\ at[0] = start /\ at[n] = start + Len(f[n])
  <2>1. \A k \in 0 .. n : Len(f[k]) \in Nat
    BY <1>1 DEF ByteStrings
  <2>2. Len(f[0]) = 0
    BY <1>1
  <2>. QED
    BY <1>2, <1>3, <2>1, <2>2
<1>5. \A k \in 0 .. n : Holds(data, start, f[k])
  <2>. DEFINE T == {k \in 0 .. n : Holds(data, start, f[n - k])}
  <2>1. 0 \in T
    BY <1>2, <1>3
  <2>2. ASSUME NEW k \in 1 .. n, k - 1 \in T PROVE k \in T
    <3>1. n - (k - 1) \in 1 .. n /\ (n - (k - 1)) - 1 = n - k /\ n - k \in 0 .. n
      BY <1>2
    <3>2. f[n - (k - 1)] = f[n - k] \o p[n - (k - 1)]
      BY <1>1, <3>1
    <3>3. Holds(data, start, f[n - k] \o p[n - (k - 1)])
      BY <2>2, <3>2
    <3>4. f[n - k] \in ByteStrings /\ p[n - (k - 1)] \in ByteStrings
      BY <1>1, <1>2, <3>1
    <3>5. Holds(data, start, f[n - k])
      BY <3>3, <3>4, HoldsBoth
    <3>. QED
      BY <1>2, <3>5
  <2>3. 0 .. n \subseteq T
    <3>. HIDE DEF T
    <3>. QED
      BY <1>2, <2>1, <2>2, FromZero
  <2>4. ASSUME NEW k \in 0 .. n PROVE Holds(data, start, f[k])
    <3>1. n - k \in 0 .. n /\ n - (n - k) = k
      BY <1>2
    <3>. QED
      BY <2>3, <3>1
  <2>. QED
    BY <2>4
<1>6. ASSUME NEW k \in 1 .. n PROVE at[k] = at[k - 1] + Len(p[k]) /\ Holds(data, at[k - 1], p[k])
  <2>1. k \in 0 .. n /\ k - 1 \in 0 .. n
    BY <1>2
  <2>2. f[k - 1] \in ByteStrings /\ p[k] \in ByteStrings /\ f[k] = f[k - 1] \o p[k]
    BY <1>1, <1>2, <2>1
  <2>3. Holds(data, start, f[k - 1] \o p[k])
    BY <1>5, <2>1, <2>2
  <2>4. at[k] = start + Len(f[k - 1] \o p[k]) /\ at[k - 1] = start + Len(f[k - 1])
    BY <2>1, <2>2
  <2>5. /\ Holds(data, start + Len(f[k - 1]), p[k])
        /\ start + Len(f[k - 1] \o p[k]) = (start + Len(f[k - 1])) + Len(p[k])
    <3>. DEFINE s == f[k - 1]
               t == p[k]
    <3>1. s \in ByteStrings /\ t \in ByteStrings /\ Holds(data, start, s \o t)
      BY <2>2, <2>3
    <3>. HIDE DEF s, t
    <3>2. Holds(data, start + Len(s), t) /\ start + Len(s \o t) = (start + Len(s)) + Len(t)
      <4>1. Len(s) \in Nat /\ Len(t) \in Nat /\ Len(s \o t) = Len(s) + Len(t) /\ start \in Nat
        BY <1>3, <3>1 DEF ByteStrings
      <4>2. Holds(data, start + Len(s), t)
        BY <3>1, HoldsBoth
      <4>. QED
        BY <4>1, <4>2
    <3>. QED
      BY <3>2 DEF s, t
  <2>. HIDE DEF at
  <2>. QED
    BY <2>4, <2>5
<1>. HIDE DEF at
<1>. QED
  BY <1>1, <1>4, <1>6 DEF n

\* Pieces put together are a stream.
LEMMA FlatTyped ==
  ASSUME NEW p \in Seq(ByteStrings)
  PROVE  Codec!FlattenSeq(p) \in ByteStrings
<1>1. PICK f \in [0 .. Len(p) -> ByteStrings] : Codec!FlattenSeq(p) = f[Len(p)]
  BY Joined
<1>2. Len(p) \in 0 .. Len(p)
  OBVIOUS
<1>. QED
  BY <1>1, <1>2

-----------------------------------------------------------------------------
(* Layouts are read like they are written, field after field.  There are   *)
(* five kinds: a record of plain fields, a list of those, an element that  *)
(* may hold such lists, a list of elements, and a payload.  An operator    *)
(* cannot be a parameter of a lemma here, so each kind has lemmas of its   *)
(* own, one like the other.                                                *)

\* A sequence, of whatever elements.
IsList(s) == Len(s) \in Nat /\ s = [i \in 1 .. Len(s) |-> s[i]]
\* A value has a place for every field of its layout.
Alike(layout, value) == IsList(layout) /\ IsList(value) /\ Len(value) = Len(layout)

\* The lists in a message, as a layout of equal fields.
EncodeInners(layouts, value) == Codec!PutAll(Codec!EncodeInner, layouts, value)
\* The readers of these lists.
ReadInners(layouts, data, start) == Codec!GetAll(Codec!ReadInner, layouts, data, start)
\* The same, one level further out.
EncodeElements(layouts, value) == Codec!PutAll(Codec!EncodeElement, layouts, value)
\* Their readers.
ReadElements(layouts, data, start) == Codec!GetAll(Codec!ReadElement, layouts, data, start)

\* One more value read makes the list of values longer by it.
LEMMA Longer ==
  ASSUME NEW v, NEW k \in Nat, k > 0
  PROVE  Append([i \in 1 .. k - 1 |-> v[i]], v[k]) = [i \in 1 .. k |-> v[i]]
<1>. DEFINE S == {v[i] : i \in 1 .. k}
           s == [i \in 1 .. k - 1 |-> v[i]]
<1>1. s \in Seq(S) /\ Len(s) = k - 1 /\ v[k] \in S
  OBVIOUS
<1>2. Append(s, v[k]) \in Seq(S) /\ Len(Append(s, v[k])) = k
  BY <1>1
<1>3. ASSUME NEW i \in 1 .. k PROVE Append(s, v[k])[i] = v[i]
  <2>1. CASE i < k
    <3>1. i \in 1 .. Len(s) /\ s[i] = v[i]
      BY <1>1, <2>1
    <3>. HIDE DEF s, S
    <3>. QED
      BY <1>1, <3>1
  <2>2. CASE i = k
    <3>. HIDE DEF s, S
    <3>. QED
      BY <1>1, <2>2
  <2>. QED
    BY <2>1, <2>2
<1>. DEFINE t == Append(s, v[k])
<1>4. t = [i \in 1 .. k |-> t[i]]
  <2>. HIDE DEF t
  <2>1. t \in Seq(S) /\ Len(t) = k
    BY <1>2 DEF t
  <2>. QED
    BY <2>1
<1>5. \A i \in 1 .. k : t[i] = v[i]
  BY <1>3
<1>. HIDE DEF t, s
<1>6. t = [i \in 1 .. k |-> v[i]]
  BY <1>4, <1>5
<1>. QED
  BY <1>6 DEF t, s

\* The positions at which the parts of a record of plain fields are read.
LEMMA InnerReadAlong ==
  ASSUME NEW layout, NEW value, Alike(layout, value), NEW data, NEW pos,
         \A k \in 1 .. Len(layout) : Codec!GetInner(layout[k], data, pos[k - 1]) = Codec!Got(value[k], pos[k])
  PROVE  Codec!ReadInner(layout, data, pos[0]) = Codec!Got(value, pos[Len(layout)])
<1>. DEFINE n == Len(layout)
           start == pos[0]
           W == [k \in 0 .. n |-> Codec!Got([i \in 1 .. k |-> value[i]], pos[k])]
           E(f) == [k \in 0 .. n |->
                      IF k = 0 THEN Codec!Got(<< >>, start)
                      ELSE Codec!Then(f[k - 1], Codec!GetInner(layout[k], data, f[k - 1].at))]
           upTo == CHOOSE f : f = E(f)
<1>1. n \in Nat /\ layout = [i \in 1 .. n |-> layout[i]] /\ value = [i \in 1 .. n |-> value[i]] /\ Len(value) = n
  BY DEF Alike, IsList
<1>2. \A k \in 1 .. n : Codec!GetInner(layout[k], data, pos[k - 1]) = Codec!Got(value[k], pos[k])
  OBVIOUS
<1>3. W[0] = Codec!Got(<< >>, start) /\ pos[0] = start
  <2>1. pos[0] = start
    OBVIOUS
  <2>2. [i \in 1 .. 0 |-> value[i]] = << >>
    OBVIOUS
  <2>3. W[0] = Codec!Got([i \in 1 .. 0 |-> value[i]], pos[0])
    BY <1>1
  <2>. HIDE DEF W, start
  <2>. QED
    BY <2>1, <2>2, <2>3
<1>4. ASSUME NEW k \in 1 .. n
      PROVE  W[k] = Codec!Then(W[k - 1], Codec!GetInner(layout[k], data, W[k - 1].at))
  <2>1. W[k - 1] = Codec!Got([i \in 1 .. k - 1 |-> value[i]], pos[k - 1])
    BY <1>1
  <2>2. W[k] = Codec!Got([i \in 1 .. k |-> value[i]], pos[k])
    BY <1>1
  <2>. HIDE DEF W, start
  <2>3. W[k - 1].at = pos[k - 1] /\ W[k - 1].value = [i \in 1 .. k - 1 |-> value[i]]
    BY <2>1 DEF Codec!Got
  <2>4. Codec!GetInner(layout[k], data, W[k - 1].at) = Codec!Got(value[k], pos[k])
    BY <1>2, <2>3
  <2>5. Append([i \in 1 .. k - 1 |-> value[i]], value[k]) = [i \in 1 .. k |-> value[i]]
    BY <1>1, Longer
  <2>6. Codec!Then(W[k - 1], Codec!Got(value[k], pos[k]))
          = Codec!Got(Append(W[k - 1].value, value[k]), pos[k])
    BY DEF Codec!Then, Codec!Got
  <2>. QED
    BY <2>2, <2>3, <2>4, <2>5, <2>6
<1>5. W = E(W)
  <2>1. W = [k \in 0 .. n |-> W[k]]
    OBVIOUS
  <2>. HIDE DEF W, n, start
  <2>2. \A k \in 0 .. n : W[k] = IF k = 0 THEN Codec!Got(<< >>, start)
                                 ELSE Codec!Then(W[k - 1], Codec!GetInner(layout[k], data, W[k - 1].at))
    BY <1>1, <1>3, <1>4
  <2>. QED
    BY <2>1, <2>2
<1>6. upTo = E(upTo)
  <2>. HIDE DEF E, W
  <2>. QED
    BY <1>5, Zenon
<1>7. Codec!ReadInner(layout, data, start) = upTo[n]
  BY DEF Codec!GetAll, Codec!ReadInner
<1>8. upTo[0] = Codec!Got(<< >>, start)
       /\ \A k \in 1 .. n : upTo[k] = Codec!Then(upTo[k - 1], Codec!GetInner(layout[k], data, upTo[k - 1].at))
  <2>1. E(upTo)[0] = Codec!Got(<< >>, start)
        /\ \A k \in 1 .. n : E(upTo)[k]
             = Codec!Then(upTo[k - 1], Codec!GetInner(layout[k], data, upTo[k - 1].at))
    <3>. HIDE DEF upTo, n
    <3>. QED
      BY <1>1
  <2>. HIDE DEF upTo, E
  <2>. QED
    BY <1>6, <2>1
<1>. HIDE DEF upTo, E, W, n
<1>9. upTo[n] = W[n]
  <2>. DEFINE Same == {k \in 0 .. n : upTo[k] = W[k]}
  <2>1. ASSUME NEW k \in 1 .. n, k - 1 \in Same PROVE k \in Same
    BY <1>1, <1>4, <1>8, <2>1
  <2>2. 0 \in Same
    BY <1>1, <1>3, <1>8
  <2>3. 0 .. n \subseteq Same
    <3>. HIDE DEF Same
    <3>. QED
      BY <1>1, <2>1, <2>2, FromZero
  <2>. QED
    BY <1>1, <2>3
<1>10. W[n] = Codec!Got(value, pos[n])
  <2>1. W[n] = Codec!Got([i \in 1 .. n |-> value[i]], pos[n])
    <3>. QED
      BY <1>1 DEF W
  <2>. QED
    BY <1>1, <2>1
<1>. QED
  BY <1>7, <1>9, <1>10 DEF n, start

\* Each part of a record of plain fields is read back where it is held.
InnerReadable(layout, value, data) ==
  \A k \in 1 .. Len(layout) :
    /\ Codec!PutInner(layout[k], value[k]) \in ByteStrings
    /\ \A pos \in Nat :
         Holds(data, pos, Codec!PutInner(layout[k], value[k])) =>
           \E a : /\ Codec!GetInner(layout[k], data, pos) = Codec!Got(value[k], a)
                  /\ k < Len(layout) => a = pos + Len(Codec!PutInner(layout[k], value[k]))

\* Then a record of plain fields is read back whole.
LEMMA InnerRead ==
  ASSUME NEW layout, NEW value, Alike(layout, value), NEW data, NEW start,
         Holds(data, start, Codec!EncodeInner(layout, value)),
         InnerReadable(layout, value, data)
  PROVE  \E a : /\ Codec!ReadInner(layout, data, start) = Codec!Got(value, a)
                /\ Len(layout) = 0 => a = start + Len(Codec!EncodeInner(layout, value))
                /\ Len(layout) # 0 =>
                     \E pos \in Nat :
                       LET k == Len(layout)
                       IN /\ Holds(data, pos, Codec!PutInner(layout[k], value[k]))
                          /\ pos + Len(Codec!PutInner(layout[k], value[k]))
                               = start + Len(Codec!EncodeInner(layout, value))
                          /\ Codec!GetInner(layout[k], data, pos) = Codec!Got(value[k], a)
<1>. DEFINE n == Len(layout)
           p == [k \in 1 .. n |-> Codec!PutInner(layout[k], value[k])]
           all == Codec!EncodeInner(layout, value)
<1>1. n \in Nat /\ layout = [i \in 1 .. n |-> layout[i]] /\ value = [i \in 1 .. n |-> value[i]] /\ Len(value) = n
  BY DEF Alike, IsList
<1>2. p \in Seq(ByteStrings) /\ Len(p) = n
  BY <1>1 DEF InnerReadable
<1>3. all = Codec!FlattenSeq(p)
  <2>1. DOMAIN layout = 1 .. n
    BY <1>1
  <2>. QED
    BY <2>1 DEF Codec!PutAll, Codec!EncodeInner
<1>4. PICK at \in [0 .. n -> Nat] :
        /\ at[0] = start /\ at[n] = start + Len(all)
        /\ \A k \in 1 .. n : at[k] = at[k - 1] + Len(p[k]) /\ Holds(data, at[k - 1], p[k])
  <2>. HIDE DEF p, n, all
  <2>1. Holds(data, start, Codec!FlattenSeq(p))
    BY <1>3 DEF all
  <2>2. \E at \in [0 .. Len(p) -> Nat] :
          /\ at[0] = start /\ at[Len(p)] = start + Len(Codec!FlattenSeq(p))
          /\ \A k \in 1 .. Len(p) : at[k] = at[k - 1] + Len(p[k]) /\ Holds(data, at[k - 1], p[k])
    BY <1>2, <2>1, PiecesHeld
  <2>. QED
    BY <1>2, <1>3, <2>2
<1>5. ASSUME NEW k \in 1 .. n
      PROVE  \E a : /\ Codec!GetInner(layout[k], data, at[k - 1]) = Codec!Got(value[k], a)
                    /\ k < n => a = at[k]
  <2>1. at[k - 1] \in Nat
    BY <1>1, <1>4
  <2>2. p[k] = Codec!PutInner(layout[k], value[k])
    OBVIOUS
  <2>3. /\ Holds(data, at[k - 1], Codec!PutInner(layout[k], value[k]))
        /\ at[k] = at[k - 1] + Len(Codec!PutInner(layout[k], value[k]))
    <3>. HIDE DEF p
    <3>. QED
      BY <1>4, <2>2
  <2>. HIDE DEF p, all
  <2>. QED
    BY <2>1, <2>3 DEF InnerReadable
<1>. DEFINE last == CHOOSE a : Codec!GetInner(layout[n], data, at[n - 1]) = Codec!Got(value[n], a)
           pos == [k \in 0 .. n |-> IF k = n /\ n # 0 THEN last ELSE at[k]]
<1>6. ASSUME NEW k \in 1 .. n
      PROVE  Codec!GetInner(layout[k], data, at[k - 1]) = Codec!Got(value[k], pos[k]) /\ pos[k - 1] = at[k - 1]
  <2>1. n # 0 /\ n \in 1 .. n
    BY <1>1
  <2>2. \E a : Codec!GetInner(layout[n], data, at[n - 1]) = Codec!Got(value[n], a)
    BY <1>5, <2>1
  <2>3. Codec!GetInner(layout[n], data, at[n - 1]) = Codec!Got(value[n], last)
    BY <2>2, Zenon
  <2>. HIDE DEF last
  <2>4. pos[n] = last
    BY <1>1, <2>1
  <2>5. pos[k - 1] = at[k - 1]
    BY <1>1
  <2>6. CASE k = n
    BY <2>3, <2>4, <2>5, <2>6
  <2>7. CASE k # n
    <3>1. pos[k] = at[k] /\ k < n
      BY <1>1, <2>7
    <3>. HIDE DEF pos
    <3>. QED
      BY <1>5, <2>3, <2>4, <2>5, <3>1
  <2>. QED
    BY <2>6, <2>7
<1>. HIDE DEF p, last, all
<1>7. pos[0] = start
  BY <1>1, <1>4, <1>6
<1>8. n = 0 => pos[n] = start + Len(all)
  <2>1. n = 0 => pos[0] = start /\ at[0] = at[n]
    BY <1>7
  <2>. HIDE DEF pos
  <2>. QED
    BY <1>4, <2>1
<1>9. ASSUME n # 0
       PROVE  /\ at[n - 1] \in Nat
              /\ Holds(data, at[n - 1], Codec!PutInner(layout[n], value[n]))
              /\ at[n - 1] + Len(Codec!PutInner(layout[n], value[n])) = start + Len(all)
              /\ Codec!GetInner(layout[n], data, at[n - 1]) = Codec!Got(value[n], pos[n])
  <2>1. n \in 1 .. n /\ n - 1 \in 0 .. n
    BY <1>1, <1>9
  <2>2. p[n] = Codec!PutInner(layout[n], value[n])
    BY <2>1 DEF p
  <2>. HIDE DEF pos
  <2>. QED
    BY <1>4, <1>6, <2>1, <2>2
<1>. HIDE DEF pos
<1>10. Codec!ReadInner(layout, data, start) = Codec!Got(value, pos[n])
  <2>1. \A k \in 1 .. n : Codec!GetInner(layout[k], data, pos[k - 1]) = Codec!Got(value[k], pos[k])
    BY <1>6
  <2>2. Codec!ReadInner(layout, data, pos[0]) = Codec!Got(value, pos[Len(layout)])
    BY <2>1, InnerReadAlong DEF n
  <2>. QED
    BY <1>7, <2>2 DEF n
<1>. QED
  BY <1>8, <1>9, <1>10 DEF all, n

\* And no byte of the stream is left behind it.
LEMMA InnerReadExactly ==
  ASSUME NEW layout, NEW value, Alike(layout, value), NEW data, NEW start,
         Holds(data, start, Codec!EncodeInner(layout, value)),
         \A k \in 1 .. Len(layout) :
           /\ Codec!PutInner(layout[k], value[k]) \in ByteStrings
           /\ \A pos \in Nat : Holds(data, pos, Codec!PutInner(layout[k], value[k])) =>
                Codec!GetInner(layout[k], data, pos)
                  = Codec!Got(value[k], pos + Len(Codec!PutInner(layout[k], value[k])))
  PROVE  Codec!ReadInner(layout, data, start) = Codec!Got(value, start + Len(Codec!EncodeInner(layout, value)))
<1>0. InnerReadable(layout, value, data)
  BY DEF InnerReadable
<1>1. PICK a :
        /\ Codec!ReadInner(layout, data, start) = Codec!Got(value, a)
        /\ Len(layout) = 0 => a = start + Len(Codec!EncodeInner(layout, value))
        /\ Len(layout) # 0 =>
             \E pos \in Nat :
               LET k == Len(layout)
               IN /\ Holds(data, pos, Codec!PutInner(layout[k], value[k]))
                  /\ pos + Len(Codec!PutInner(layout[k], value[k]))
                       = start + Len(Codec!EncodeInner(layout, value))
                  /\ Codec!GetInner(layout[k], data, pos) = Codec!Got(value[k], a)
  BY <1>0, InnerRead
<1>2. ASSUME Len(layout) # 0 PROVE a = start + Len(Codec!EncodeInner(layout, value))
  <2>1. Len(layout) \in 1 .. Len(layout)
    BY <1>2 DEF Alike, IsList
  <2>. DEFINE k == Len(layout)
  <2>2. PICK pos \in Nat :
          /\ Holds(data, pos, Codec!PutInner(layout[k], value[k]))
          /\ pos + Len(Codec!PutInner(layout[k], value[k]))
               = start + Len(Codec!EncodeInner(layout, value))
          /\ Codec!GetInner(layout[k], data, pos) = Codec!Got(value[k], a)
    BY <1>1, <1>2
  <2>3. Codec!Got(value[k], a) = Codec!Got(value[k], pos + Len(Codec!PutInner(layout[k], value[k])))
    BY <2>1, <2>2
  <2>. QED
    BY <2>2, <2>3 DEF Codec!Got
<1>. QED
  BY <1>1, <1>2

\* The positions at which the parts of a list of such records are read.
LEMMA InnersReadAlong ==
  ASSUME NEW layout, NEW value, Alike(layout, value), NEW data, NEW pos,
         \A k \in 1 .. Len(layout) : Codec!ReadInner(layout[k], data, pos[k - 1]) = Codec!Got(value[k], pos[k])
  PROVE  ReadInners(layout, data, pos[0]) = Codec!Got(value, pos[Len(layout)])
<1>. DEFINE n == Len(layout)
           start == pos[0]
           W == [k \in 0 .. n |-> Codec!Got([i \in 1 .. k |-> value[i]], pos[k])]
           E(f) == [k \in 0 .. n |->
                      IF k = 0 THEN Codec!Got(<< >>, start)
                      ELSE Codec!Then(f[k - 1], Codec!ReadInner(layout[k], data, f[k - 1].at))]
           upTo == CHOOSE f : f = E(f)
<1>1. n \in Nat /\ layout = [i \in 1 .. n |-> layout[i]] /\ value = [i \in 1 .. n |-> value[i]] /\ Len(value) = n
  BY DEF Alike, IsList
<1>2. \A k \in 1 .. n : Codec!ReadInner(layout[k], data, pos[k - 1]) = Codec!Got(value[k], pos[k])
  OBVIOUS
<1>3. W[0] = Codec!Got(<< >>, start) /\ pos[0] = start
  <2>1. pos[0] = start
    OBVIOUS
  <2>2. [i \in 1 .. 0 |-> value[i]] = << >>
    OBVIOUS
  <2>3. W[0] = Codec!Got([i \in 1 .. 0 |-> value[i]], pos[0])
    BY <1>1
  <2>. HIDE DEF W, start
  <2>. QED
    BY <2>1, <2>2, <2>3
<1>4. ASSUME NEW k \in 1 .. n
      PROVE  W[k] = Codec!Then(W[k - 1], Codec!ReadInner(layout[k], data, W[k - 1].at))
  <2>1. W[k - 1] = Codec!Got([i \in 1 .. k - 1 |-> value[i]], pos[k - 1])
    BY <1>1
  <2>2. W[k] = Codec!Got([i \in 1 .. k |-> value[i]], pos[k])
    BY <1>1
  <2>. HIDE DEF W, start
  <2>3. W[k - 1].at = pos[k - 1] /\ W[k - 1].value = [i \in 1 .. k - 1 |-> value[i]]
    BY <2>1 DEF Codec!Got
  <2>4. Codec!ReadInner(layout[k], data, W[k - 1].at) = Codec!Got(value[k], pos[k])
    BY <1>2, <2>3
  <2>5. Append([i \in 1 .. k - 1 |-> value[i]], value[k]) = [i \in 1 .. k |-> value[i]]
    BY <1>1, Longer
  <2>6. Codec!Then(W[k - 1], Codec!Got(value[k], pos[k]))
          = Codec!Got(Append(W[k - 1].value, value[k]), pos[k])
    BY DEF Codec!Then, Codec!Got
  <2>. QED
    BY <2>2, <2>3, <2>4, <2>5, <2>6
<1>5. W = E(W)
  <2>1. W = [k \in 0 .. n |-> W[k]]
    OBVIOUS
  <2>. HIDE DEF W, n, start
  <2>2. \A k \in 0 .. n : W[k] = IF k = 0 THEN Codec!Got(<< >>, start)
                                 ELSE Codec!Then(W[k - 1], Codec!ReadInner(layout[k], data, W[k - 1].at))
    BY <1>1, <1>3, <1>4
  <2>. QED
    BY <2>1, <2>2
<1>6. upTo = E(upTo)
  <2>. HIDE DEF E, W
  <2>. QED
    BY <1>5, Zenon
<1>7. ReadInners(layout, data, start) = upTo[n]
  BY DEF Codec!GetAll, ReadInners
<1>8. upTo[0] = Codec!Got(<< >>, start)
       /\ \A k \in 1 .. n : upTo[k] = Codec!Then(upTo[k - 1], Codec!ReadInner(layout[k], data, upTo[k - 1].at))
  <2>1. E(upTo)[0] = Codec!Got(<< >>, start)
        /\ \A k \in 1 .. n : E(upTo)[k]
             = Codec!Then(upTo[k - 1], Codec!ReadInner(layout[k], data, upTo[k - 1].at))
    <3>. HIDE DEF upTo, n
    <3>. QED
      BY <1>1
  <2>. HIDE DEF upTo, E
  <2>. QED
    BY <1>6, <2>1
<1>. HIDE DEF upTo, E, W, n
<1>9. upTo[n] = W[n]
  <2>. DEFINE Same == {k \in 0 .. n : upTo[k] = W[k]}
  <2>1. ASSUME NEW k \in 1 .. n, k - 1 \in Same PROVE k \in Same
    BY <1>1, <1>4, <1>8, <2>1
  <2>2. 0 \in Same
    BY <1>1, <1>3, <1>8
  <2>3. 0 .. n \subseteq Same
    <3>. HIDE DEF Same
    <3>. QED
      BY <1>1, <2>1, <2>2, FromZero
  <2>. QED
    BY <1>1, <2>3
<1>10. W[n] = Codec!Got(value, pos[n])
  <2>1. W[n] = Codec!Got([i \in 1 .. n |-> value[i]], pos[n])
    <3>. QED
      BY <1>1 DEF W
  <2>. QED
    BY <1>1, <2>1
<1>. QED
  BY <1>7, <1>9, <1>10 DEF n, start

\* Each part of a list of such records is read back where it is held.
InnersReadable(layout, value, data) ==
  \A k \in 1 .. Len(layout) :
    /\ Codec!EncodeInner(layout[k], value[k]) \in ByteStrings
    /\ \A pos \in Nat :
         Holds(data, pos, Codec!EncodeInner(layout[k], value[k])) =>
           \E a : /\ Codec!ReadInner(layout[k], data, pos) = Codec!Got(value[k], a)
                  /\ k < Len(layout) => a = pos + Len(Codec!EncodeInner(layout[k], value[k]))

\* Then a list of such records is read back whole.
LEMMA InnersRead ==
  ASSUME NEW layout, NEW value, Alike(layout, value), NEW data, NEW start,
         Holds(data, start, EncodeInners(layout, value)),
         InnersReadable(layout, value, data)
  PROVE  \E a : /\ ReadInners(layout, data, start) = Codec!Got(value, a)
                /\ Len(layout) = 0 => a = start + Len(EncodeInners(layout, value))
                /\ Len(layout) # 0 =>
                     \E pos \in Nat :
                       LET k == Len(layout)
                       IN /\ Holds(data, pos, Codec!EncodeInner(layout[k], value[k]))
                          /\ pos + Len(Codec!EncodeInner(layout[k], value[k]))
                               = start + Len(EncodeInners(layout, value))
                          /\ Codec!ReadInner(layout[k], data, pos) = Codec!Got(value[k], a)
<1>. DEFINE n == Len(layout)
           p == [k \in 1 .. n |-> Codec!EncodeInner(layout[k], value[k])]
           all == EncodeInners(layout, value)
<1>1. n \in Nat /\ layout = [i \in 1 .. n |-> layout[i]] /\ value = [i \in 1 .. n |-> value[i]] /\ Len(value) = n
  BY DEF Alike, IsList
<1>2. p \in Seq(ByteStrings) /\ Len(p) = n
  BY <1>1 DEF InnersReadable
<1>3. all = Codec!FlattenSeq(p)
  <2>1. DOMAIN layout = 1 .. n
    BY <1>1
  <2>. QED
    BY <2>1 DEF Codec!PutAll, EncodeInners
<1>4. PICK at \in [0 .. n -> Nat] :
        /\ at[0] = start /\ at[n] = start + Len(all)
        /\ \A k \in 1 .. n : at[k] = at[k - 1] + Len(p[k]) /\ Holds(data, at[k - 1], p[k])
  <2>. HIDE DEF p, n, all
  <2>1. Holds(data, start, Codec!FlattenSeq(p))
    BY <1>3 DEF all
  <2>2. \E at \in [0 .. Len(p) -> Nat] :
          /\ at[0] = start /\ at[Len(p)] = start + Len(Codec!FlattenSeq(p))
          /\ \A k \in 1 .. Len(p) : at[k] = at[k - 1] + Len(p[k]) /\ Holds(data, at[k - 1], p[k])
    BY <1>2, <2>1, PiecesHeld
  <2>. QED
    BY <1>2, <1>3, <2>2
<1>5. ASSUME NEW k \in 1 .. n
      PROVE  \E a : /\ Codec!ReadInner(layout[k], data, at[k - 1]) = Codec!Got(value[k], a)
                    /\ k < n => a = at[k]
  <2>1. at[k - 1] \in Nat
    BY <1>1, <1>4
  <2>2. p[k] = Codec!EncodeInner(layout[k], value[k])
    OBVIOUS
  <2>3. /\ Holds(data, at[k - 1], Codec!EncodeInner(layout[k], value[k]))
        /\ at[k] = at[k - 1] + Len(Codec!EncodeInner(layout[k], value[k]))
    <3>. HIDE DEF p
    <3>. QED
      BY <1>4, <2>2
  <2>. HIDE DEF p, all
  <2>. QED
    BY <2>1, <2>3 DEF InnersReadable
<1>. DEFINE last == CHOOSE a : Codec!ReadInner(layout[n], data, at[n - 1]) = Codec!Got(value[n], a)
           pos == [k \in 0 .. n |-> IF k = n /\ n # 0 THEN last ELSE at[k]]
<1>6. ASSUME NEW k \in 1 .. n
      PROVE  Codec!ReadInner(layout[k], data, at[k - 1]) = Codec!Got(value[k], pos[k]) /\ pos[k - 1] = at[k - 1]
  <2>1. n # 0 /\ n \in 1 .. n
    BY <1>1
  <2>2. \E a : Codec!ReadInner(layout[n], data, at[n - 1]) = Codec!Got(value[n], a)
    BY <1>5, <2>1
  <2>3. Codec!ReadInner(layout[n], data, at[n - 1]) = Codec!Got(value[n], last)
    BY <2>2, Zenon
  <2>. HIDE DEF last
  <2>4. pos[n] = last
    BY <1>1, <2>1
  <2>5. pos[k - 1] = at[k - 1]
    BY <1>1
  <2>6. CASE k = n
    BY <2>3, <2>4, <2>5, <2>6
  <2>7. CASE k # n
    <3>1. pos[k] = at[k] /\ k < n
      BY <1>1, <2>7
    <3>. HIDE DEF pos
    <3>. QED
      BY <1>5, <2>3, <2>4, <2>5, <3>1
  <2>. QED
    BY <2>6, <2>7
<1>. HIDE DEF p, last, all
<1>7. pos[0] = start
  BY <1>1, <1>4, <1>6
<1>8. n = 0 => pos[n] = start + Len(all)
  <2>1. n = 0 => pos[0] = start /\ at[0] = at[n]
    BY <1>7
  <2>. HIDE DEF pos
  <2>. QED
    BY <1>4, <2>1
<1>9. ASSUME n # 0
       PROVE  /\ at[n - 1] \in Nat
              /\ Holds(data, at[n - 1], Codec!EncodeInner(layout[n], value[n]))
              /\ at[n - 1] + Len(Codec!EncodeInner(layout[n], value[n])) = start + Len(all)
              /\ Codec!ReadInner(layout[n], data, at[n - 1]) = Codec!Got(value[n], pos[n])
  <2>1. n \in 1 .. n /\ n - 1 \in 0 .. n
    BY <1>1, <1>9
  <2>2. p[n] = Codec!EncodeInner(layout[n], value[n])
    BY <2>1 DEF p
  <2>. HIDE DEF pos
  <2>. QED
    BY <1>4, <1>6, <2>1, <2>2
<1>. HIDE DEF pos
<1>10. ReadInners(layout, data, start) = Codec!Got(value, pos[n])
  <2>1. \A k \in 1 .. n : Codec!ReadInner(layout[k], data, pos[k - 1]) = Codec!Got(value[k], pos[k])
    BY <1>6
  <2>2. ReadInners(layout, data, pos[0]) = Codec!Got(value, pos[Len(layout)])
    BY <2>1, InnersReadAlong DEF n
  <2>. QED
    BY <1>7, <2>2 DEF n
<1>. QED
  BY <1>8, <1>9, <1>10 DEF all, n

\* And no byte of the stream is left behind it.
LEMMA InnersReadExactly ==
  ASSUME NEW layout, NEW value, Alike(layout, value), NEW data, NEW start,
         Holds(data, start, EncodeInners(layout, value)),
         \A k \in 1 .. Len(layout) :
           /\ Codec!EncodeInner(layout[k], value[k]) \in ByteStrings
           /\ \A pos \in Nat : Holds(data, pos, Codec!EncodeInner(layout[k], value[k])) =>
                Codec!ReadInner(layout[k], data, pos)
                  = Codec!Got(value[k], pos + Len(Codec!EncodeInner(layout[k], value[k])))
  PROVE  ReadInners(layout, data, start) = Codec!Got(value, start + Len(EncodeInners(layout, value)))
<1>0. InnersReadable(layout, value, data)
  BY DEF InnersReadable
<1>1. PICK a :
        /\ ReadInners(layout, data, start) = Codec!Got(value, a)
        /\ Len(layout) = 0 => a = start + Len(EncodeInners(layout, value))
        /\ Len(layout) # 0 =>
             \E pos \in Nat :
               LET k == Len(layout)
               IN /\ Holds(data, pos, Codec!EncodeInner(layout[k], value[k]))
                  /\ pos + Len(Codec!EncodeInner(layout[k], value[k]))
                       = start + Len(EncodeInners(layout, value))
                  /\ Codec!ReadInner(layout[k], data, pos) = Codec!Got(value[k], a)
  BY <1>0, InnersRead
<1>2. ASSUME Len(layout) # 0 PROVE a = start + Len(EncodeInners(layout, value))
  <2>1. Len(layout) \in 1 .. Len(layout)
    BY <1>2 DEF Alike, IsList
  <2>. DEFINE k == Len(layout)
  <2>2. PICK pos \in Nat :
          /\ Holds(data, pos, Codec!EncodeInner(layout[k], value[k]))
          /\ pos + Len(Codec!EncodeInner(layout[k], value[k]))
               = start + Len(EncodeInners(layout, value))
          /\ Codec!ReadInner(layout[k], data, pos) = Codec!Got(value[k], a)
    BY <1>1, <1>2
  <2>3. Codec!Got(value[k], a) = Codec!Got(value[k], pos + Len(Codec!EncodeInner(layout[k], value[k])))
    BY <2>1, <2>2
  <2>. QED
    BY <2>2, <2>3 DEF Codec!Got
<1>. QED
  BY <1>1, <1>2

\* The positions at which the parts of an element are read.
LEMMA ElementReadAlong ==
  ASSUME NEW layout, NEW value, Alike(layout, value), NEW data, NEW pos,
         \A k \in 1 .. Len(layout) : Codec!GetMiddle(layout[k], data, pos[k - 1]) = Codec!Got(value[k], pos[k])
  PROVE  Codec!ReadElement(layout, data, pos[0]) = Codec!Got(value, pos[Len(layout)])
<1>. DEFINE n == Len(layout)
           start == pos[0]
           W == [k \in 0 .. n |-> Codec!Got([i \in 1 .. k |-> value[i]], pos[k])]
           E(f) == [k \in 0 .. n |->
                      IF k = 0 THEN Codec!Got(<< >>, start)
                      ELSE Codec!Then(f[k - 1], Codec!GetMiddle(layout[k], data, f[k - 1].at))]
           upTo == CHOOSE f : f = E(f)
<1>1. n \in Nat /\ layout = [i \in 1 .. n |-> layout[i]] /\ value = [i \in 1 .. n |-> value[i]] /\ Len(value) = n
  BY DEF Alike, IsList
<1>2. \A k \in 1 .. n : Codec!GetMiddle(layout[k], data, pos[k - 1]) = Codec!Got(value[k], pos[k])
  OBVIOUS
<1>3. W[0] = Codec!Got(<< >>, start) /\ pos[0] = start
  <2>1. pos[0] = start
    OBVIOUS
  <2>2. [i \in 1 .. 0 |-> value[i]] = << >>
    OBVIOUS
  <2>3. W[0] = Codec!Got([i \in 1 .. 0 |-> value[i]], pos[0])
    BY <1>1
  <2>. HIDE DEF W, start
  <2>. QED
    BY <2>1, <2>2, <2>3
<1>4. ASSUME NEW k \in 1 .. n
      PROVE  W[k] = Codec!Then(W[k - 1], Codec!GetMiddle(layout[k], data, W[k - 1].at))
  <2>1. W[k - 1] = Codec!Got([i \in 1 .. k - 1 |-> value[i]], pos[k - 1])
    BY <1>1
  <2>2. W[k] = Codec!Got([i \in 1 .. k |-> value[i]], pos[k])
    BY <1>1
  <2>. HIDE DEF W, start
  <2>3. W[k - 1].at = pos[k - 1] /\ W[k - 1].value = [i \in 1 .. k - 1 |-> value[i]]
    BY <2>1 DEF Codec!Got
  <2>4. Codec!GetMiddle(layout[k], data, W[k - 1].at) = Codec!Got(value[k], pos[k])
    BY <1>2, <2>3
  <2>5. Append([i \in 1 .. k - 1 |-> value[i]], value[k]) = [i \in 1 .. k |-> value[i]]
    BY <1>1, Longer
  <2>6. Codec!Then(W[k - 1], Codec!Got(value[k], pos[k]))
          = Codec!Got(Append(W[k - 1].value, value[k]), pos[k])
    BY DEF Codec!Then, Codec!Got
  <2>. QED
    BY <2>2, <2>3, <2>4, <2>5, <2>6
<1>5. W = E(W)
  <2>1. W = [k \in 0 .. n |-> W[k]]
    OBVIOUS
  <2>. HIDE DEF W, n, start
  <2>2. \A k \in 0 .. n : W[k] = IF k = 0 THEN Codec!Got(<< >>, start)
                                 ELSE Codec!Then(W[k - 1], Codec!GetMiddle(layout[k], data, W[k - 1].at))
    BY <1>1, <1>3, <1>4
  <2>. QED
    BY <2>1, <2>2
<1>6. upTo = E(upTo)
  <2>. HIDE DEF E, W
  <2>. QED
    BY <1>5, Zenon
<1>7. Codec!ReadElement(layout, data, start) = upTo[n]
  BY DEF Codec!GetAll, Codec!ReadElement
<1>8. upTo[0] = Codec!Got(<< >>, start)
       /\ \A k \in 1 .. n : upTo[k] = Codec!Then(upTo[k - 1], Codec!GetMiddle(layout[k], data, upTo[k - 1].at))
  <2>1. E(upTo)[0] = Codec!Got(<< >>, start)
        /\ \A k \in 1 .. n : E(upTo)[k]
             = Codec!Then(upTo[k - 1], Codec!GetMiddle(layout[k], data, upTo[k - 1].at))
    <3>. HIDE DEF upTo, n
    <3>. QED
      BY <1>1
  <2>. HIDE DEF upTo, E
  <2>. QED
    BY <1>6, <2>1
<1>. HIDE DEF upTo, E, W, n
<1>9. upTo[n] = W[n]
  <2>. DEFINE Same == {k \in 0 .. n : upTo[k] = W[k]}
  <2>1. ASSUME NEW k \in 1 .. n, k - 1 \in Same PROVE k \in Same
    BY <1>1, <1>4, <1>8, <2>1
  <2>2. 0 \in Same
    BY <1>1, <1>3, <1>8
  <2>3. 0 .. n \subseteq Same
    <3>. HIDE DEF Same
    <3>. QED
      BY <1>1, <2>1, <2>2, FromZero
  <2>. QED
    BY <1>1, <2>3
<1>10. W[n] = Codec!Got(value, pos[n])
  <2>1. W[n] = Codec!Got([i \in 1 .. n |-> value[i]], pos[n])
    <3>. QED
      BY <1>1 DEF W
  <2>. QED
    BY <1>1, <2>1
<1>. QED
  BY <1>7, <1>9, <1>10 DEF n, start

\* Each part of an element is read back where it is held.
ElementReadable(layout, value, data) ==
  \A k \in 1 .. Len(layout) :
    /\ Codec!PutMiddle(layout[k], value[k]) \in ByteStrings
    /\ \A pos \in Nat :
         Holds(data, pos, Codec!PutMiddle(layout[k], value[k])) =>
           \E a : /\ Codec!GetMiddle(layout[k], data, pos) = Codec!Got(value[k], a)
                  /\ k < Len(layout) => a = pos + Len(Codec!PutMiddle(layout[k], value[k]))

\* Then an element is read back whole.
LEMMA ElementRead ==
  ASSUME NEW layout, NEW value, Alike(layout, value), NEW data, NEW start,
         Holds(data, start, Codec!EncodeElement(layout, value)),
         ElementReadable(layout, value, data)
  PROVE  \E a : /\ Codec!ReadElement(layout, data, start) = Codec!Got(value, a)
                /\ Len(layout) = 0 => a = start + Len(Codec!EncodeElement(layout, value))
                /\ Len(layout) # 0 =>
                     \E pos \in Nat :
                       LET k == Len(layout)
                       IN /\ Holds(data, pos, Codec!PutMiddle(layout[k], value[k]))
                          /\ pos + Len(Codec!PutMiddle(layout[k], value[k]))
                               = start + Len(Codec!EncodeElement(layout, value))
                          /\ Codec!GetMiddle(layout[k], data, pos) = Codec!Got(value[k], a)
<1>. DEFINE n == Len(layout)
           p == [k \in 1 .. n |-> Codec!PutMiddle(layout[k], value[k])]
           all == Codec!EncodeElement(layout, value)
<1>1. n \in Nat /\ layout = [i \in 1 .. n |-> layout[i]] /\ value = [i \in 1 .. n |-> value[i]] /\ Len(value) = n
  BY DEF Alike, IsList
<1>2. p \in Seq(ByteStrings) /\ Len(p) = n
  BY <1>1 DEF ElementReadable
<1>3. all = Codec!FlattenSeq(p)
  <2>1. DOMAIN layout = 1 .. n
    BY <1>1
  <2>. QED
    BY <2>1 DEF Codec!PutAll, Codec!EncodeElement
<1>4. PICK at \in [0 .. n -> Nat] :
        /\ at[0] = start /\ at[n] = start + Len(all)
        /\ \A k \in 1 .. n : at[k] = at[k - 1] + Len(p[k]) /\ Holds(data, at[k - 1], p[k])
  <2>. HIDE DEF p, n, all
  <2>1. Holds(data, start, Codec!FlattenSeq(p))
    BY <1>3 DEF all
  <2>2. \E at \in [0 .. Len(p) -> Nat] :
          /\ at[0] = start /\ at[Len(p)] = start + Len(Codec!FlattenSeq(p))
          /\ \A k \in 1 .. Len(p) : at[k] = at[k - 1] + Len(p[k]) /\ Holds(data, at[k - 1], p[k])
    BY <1>2, <2>1, PiecesHeld
  <2>. QED
    BY <1>2, <1>3, <2>2
<1>5. ASSUME NEW k \in 1 .. n
      PROVE  \E a : /\ Codec!GetMiddle(layout[k], data, at[k - 1]) = Codec!Got(value[k], a)
                    /\ k < n => a = at[k]
  <2>1. at[k - 1] \in Nat
    BY <1>1, <1>4
  <2>2. p[k] = Codec!PutMiddle(layout[k], value[k])
    OBVIOUS
  <2>3. /\ Holds(data, at[k - 1], Codec!PutMiddle(layout[k], value[k]))
        /\ at[k] = at[k - 1] + Len(Codec!PutMiddle(layout[k], value[k]))
    <3>. HIDE DEF p
    <3>. QED
      BY <1>4, <2>2
  <2>. HIDE DEF p, all
  <2>. QED
    BY <2>1, <2>3 DEF ElementReadable
<1>. DEFINE last == CHOOSE a : Codec!GetMiddle(layout[n], data, at[n - 1]) = Codec!Got(value[n], a)
           pos == [k \in 0 .. n |-> IF k = n /\ n # 0 THEN last ELSE at[k]]
<1>6. ASSUME NEW k \in 1 .. n
      PROVE  Codec!GetMiddle(layout[k], data, at[k - 1]) = Codec!Got(value[k], pos[k]) /\ pos[k - 1] = at[k - 1]
  <2>1. n # 0 /\ n \in 1 .. n
    BY <1>1
  <2>2. \E a : Codec!GetMiddle(layout[n], data, at[n - 1]) = Codec!Got(value[n], a)
    BY <1>5, <2>1
  <2>3. Codec!GetMiddle(layout[n], data, at[n - 1]) = Codec!Got(value[n], last)
    BY <2>2, Zenon
  <2>. HIDE DEF last
  <2>4. pos[n] = last
    BY <1>1, <2>1
  <2>5. pos[k - 1] = at[k - 1]
    BY <1>1
  <2>6. CASE k = n
    BY <2>3, <2>4, <2>5, <2>6
  <2>7. CASE k # n
    <3>1. pos[k] = at[k] /\ k < n
      BY <1>1, <2>7
    <3>. HIDE DEF pos
    <3>. QED
      BY <1>5, <2>3, <2>4, <2>5, <3>1
  <2>. QED
    BY <2>6, <2>7
<1>. HIDE DEF p, last, all
<1>7. pos[0] = start
  BY <1>1, <1>4, <1>6
<1>8. n = 0 => pos[n] = start + Len(all)
  <2>1. n = 0 => pos[0] = start /\ at[0] = at[n]
    BY <1>7
  <2>. HIDE DEF pos
  <2>. QED
    BY <1>4, <2>1
<1>9. ASSUME n # 0
       PROVE  /\ at[n - 1] \in Nat
              /\ Holds(data, at[n - 1], Codec!PutMiddle(layout[n], value[n]))
              /\ at[n - 1] + Len(Codec!PutMiddle(layout[n], value[n])) = start + Len(all)
              /\ Codec!GetMiddle(layout[n], data, at[n - 1]) = Codec!Got(value[n], pos[n])
  <2>1. n \in 1 .. n /\ n - 1 \in 0 .. n
    BY <1>1, <1>9
  <2>2. p[n] = Codec!PutMiddle(layout[n], value[n])
    BY <2>1 DEF p
  <2>. HIDE DEF pos
  <2>. QED
    BY <1>4, <1>6, <2>1, <2>2
<1>. HIDE DEF pos
<1>10. Codec!ReadElement(layout, data, start) = Codec!Got(value, pos[n])
  <2>1. \A k \in 1 .. n : Codec!GetMiddle(layout[k], data, pos[k - 1]) = Codec!Got(value[k], pos[k])
    BY <1>6
  <2>2. Codec!ReadElement(layout, data, pos[0]) = Codec!Got(value, pos[Len(layout)])
    BY <2>1, ElementReadAlong DEF n
  <2>. QED
    BY <1>7, <2>2 DEF n
<1>. QED
  BY <1>8, <1>9, <1>10 DEF all, n

\* And no byte of the stream is left behind it.
LEMMA ElementReadExactly ==
  ASSUME NEW layout, NEW value, Alike(layout, value), NEW data, NEW start,
         Holds(data, start, Codec!EncodeElement(layout, value)),
         \A k \in 1 .. Len(layout) :
           /\ Codec!PutMiddle(layout[k], value[k]) \in ByteStrings
           /\ \A pos \in Nat : Holds(data, pos, Codec!PutMiddle(layout[k], value[k])) =>
                Codec!GetMiddle(layout[k], data, pos)
                  = Codec!Got(value[k], pos + Len(Codec!PutMiddle(layout[k], value[k])))
  PROVE  Codec!ReadElement(layout, data, start) = Codec!Got(value, start + Len(Codec!EncodeElement(layout, value)))
<1>0. ElementReadable(layout, value, data)
  BY DEF ElementReadable
<1>1. PICK a :
        /\ Codec!ReadElement(layout, data, start) = Codec!Got(value, a)
        /\ Len(layout) = 0 => a = start + Len(Codec!EncodeElement(layout, value))
        /\ Len(layout) # 0 =>
             \E pos \in Nat :
               LET k == Len(layout)
               IN /\ Holds(data, pos, Codec!PutMiddle(layout[k], value[k]))
                  /\ pos + Len(Codec!PutMiddle(layout[k], value[k]))
                       = start + Len(Codec!EncodeElement(layout, value))
                  /\ Codec!GetMiddle(layout[k], data, pos) = Codec!Got(value[k], a)
  BY <1>0, ElementRead
<1>2. ASSUME Len(layout) # 0 PROVE a = start + Len(Codec!EncodeElement(layout, value))
  <2>1. Len(layout) \in 1 .. Len(layout)
    BY <1>2 DEF Alike, IsList
  <2>. DEFINE k == Len(layout)
  <2>2. PICK pos \in Nat :
          /\ Holds(data, pos, Codec!PutMiddle(layout[k], value[k]))
          /\ pos + Len(Codec!PutMiddle(layout[k], value[k]))
               = start + Len(Codec!EncodeElement(layout, value))
          /\ Codec!GetMiddle(layout[k], data, pos) = Codec!Got(value[k], a)
    BY <1>1, <1>2
  <2>3. Codec!Got(value[k], a) = Codec!Got(value[k], pos + Len(Codec!PutMiddle(layout[k], value[k])))
    BY <2>1, <2>2
  <2>. QED
    BY <2>2, <2>3 DEF Codec!Got
<1>. QED
  BY <1>1, <1>2

\* The positions at which the parts of a list of elements are read.
LEMMA ElementsReadAlong ==
  ASSUME NEW layout, NEW value, Alike(layout, value), NEW data, NEW pos,
         \A k \in 1 .. Len(layout) : Codec!ReadElement(layout[k], data, pos[k - 1]) = Codec!Got(value[k], pos[k])
  PROVE  ReadElements(layout, data, pos[0]) = Codec!Got(value, pos[Len(layout)])
<1>. DEFINE n == Len(layout)
           start == pos[0]
           W == [k \in 0 .. n |-> Codec!Got([i \in 1 .. k |-> value[i]], pos[k])]
           E(f) == [k \in 0 .. n |->
                      IF k = 0 THEN Codec!Got(<< >>, start)
                      ELSE Codec!Then(f[k - 1], Codec!ReadElement(layout[k], data, f[k - 1].at))]
           upTo == CHOOSE f : f = E(f)
<1>1. n \in Nat /\ layout = [i \in 1 .. n |-> layout[i]] /\ value = [i \in 1 .. n |-> value[i]] /\ Len(value) = n
  BY DEF Alike, IsList
<1>2. \A k \in 1 .. n : Codec!ReadElement(layout[k], data, pos[k - 1]) = Codec!Got(value[k], pos[k])
  OBVIOUS
<1>3. W[0] = Codec!Got(<< >>, start) /\ pos[0] = start
  <2>1. pos[0] = start
    OBVIOUS
  <2>2. [i \in 1 .. 0 |-> value[i]] = << >>
    OBVIOUS
  <2>3. W[0] = Codec!Got([i \in 1 .. 0 |-> value[i]], pos[0])
    BY <1>1
  <2>. HIDE DEF W, start
  <2>. QED
    BY <2>1, <2>2, <2>3
<1>4. ASSUME NEW k \in 1 .. n
      PROVE  W[k] = Codec!Then(W[k - 1], Codec!ReadElement(layout[k], data, W[k - 1].at))
  <2>1. W[k - 1] = Codec!Got([i \in 1 .. k - 1 |-> value[i]], pos[k - 1])
    BY <1>1
  <2>2. W[k] = Codec!Got([i \in 1 .. k |-> value[i]], pos[k])
    BY <1>1
  <2>. HIDE DEF W, start
  <2>3. W[k - 1].at = pos[k - 1] /\ W[k - 1].value = [i \in 1 .. k - 1 |-> value[i]]
    BY <2>1 DEF Codec!Got
  <2>4. Codec!ReadElement(layout[k], data, W[k - 1].at) = Codec!Got(value[k], pos[k])
    BY <1>2, <2>3
  <2>5. Append([i \in 1 .. k - 1 |-> value[i]], value[k]) = [i \in 1 .. k |-> value[i]]
    BY <1>1, Longer
  <2>6. Codec!Then(W[k - 1], Codec!Got(value[k], pos[k]))
          = Codec!Got(Append(W[k - 1].value, value[k]), pos[k])
    BY DEF Codec!Then, Codec!Got
  <2>. QED
    BY <2>2, <2>3, <2>4, <2>5, <2>6
<1>5. W = E(W)
  <2>1. W = [k \in 0 .. n |-> W[k]]
    OBVIOUS
  <2>. HIDE DEF W, n, start
  <2>2. \A k \in 0 .. n : W[k] = IF k = 0 THEN Codec!Got(<< >>, start)
                                 ELSE Codec!Then(W[k - 1], Codec!ReadElement(layout[k], data, W[k - 1].at))
    BY <1>1, <1>3, <1>4
  <2>. QED
    BY <2>1, <2>2
<1>6. upTo = E(upTo)
  <2>. HIDE DEF E, W
  <2>. QED
    BY <1>5, Zenon
<1>7. ReadElements(layout, data, start) = upTo[n]
  BY DEF Codec!GetAll, ReadElements
<1>8. upTo[0] = Codec!Got(<< >>, start)
       /\ \A k \in 1 .. n : upTo[k] = Codec!Then(upTo[k - 1], Codec!ReadElement(layout[k], data, upTo[k - 1].at))
  <2>1. E(upTo)[0] = Codec!Got(<< >>, start)
        /\ \A k \in 1 .. n : E(upTo)[k]
             = Codec!Then(upTo[k - 1], Codec!ReadElement(layout[k], data, upTo[k - 1].at))
    <3>. HIDE DEF upTo, n
    <3>. QED
      BY <1>1
  <2>. HIDE DEF upTo, E
  <2>. QED
    BY <1>6, <2>1
<1>. HIDE DEF upTo, E, W, n
<1>9. upTo[n] = W[n]
  <2>. DEFINE Same == {k \in 0 .. n : upTo[k] = W[k]}
  <2>1. ASSUME NEW k \in 1 .. n, k - 1 \in Same PROVE k \in Same
    BY <1>1, <1>4, <1>8, <2>1
  <2>2. 0 \in Same
    BY <1>1, <1>3, <1>8
  <2>3. 0 .. n \subseteq Same
    <3>. HIDE DEF Same
    <3>. QED
      BY <1>1, <2>1, <2>2, FromZero
  <2>. QED
    BY <1>1, <2>3
<1>10. W[n] = Codec!Got(value, pos[n])
  <2>1. W[n] = Codec!Got([i \in 1 .. n |-> value[i]], pos[n])
    <3>. QED
      BY <1>1 DEF W
  <2>. QED
    BY <1>1, <2>1
<1>. QED
  BY <1>7, <1>9, <1>10 DEF n, start

\* Each part of a list of elements is read back where it is held.
ElementsReadable(layout, value, data) ==
  \A k \in 1 .. Len(layout) :
    /\ Codec!EncodeElement(layout[k], value[k]) \in ByteStrings
    /\ \A pos \in Nat :
         Holds(data, pos, Codec!EncodeElement(layout[k], value[k])) =>
           \E a : /\ Codec!ReadElement(layout[k], data, pos) = Codec!Got(value[k], a)
                  /\ k < Len(layout) => a = pos + Len(Codec!EncodeElement(layout[k], value[k]))

\* Then a list of elements is read back whole.
LEMMA ElementsRead ==
  ASSUME NEW layout, NEW value, Alike(layout, value), NEW data, NEW start,
         Holds(data, start, EncodeElements(layout, value)),
         ElementsReadable(layout, value, data)
  PROVE  \E a : /\ ReadElements(layout, data, start) = Codec!Got(value, a)
                /\ Len(layout) = 0 => a = start + Len(EncodeElements(layout, value))
                /\ Len(layout) # 0 =>
                     \E pos \in Nat :
                       LET k == Len(layout)
                       IN /\ Holds(data, pos, Codec!EncodeElement(layout[k], value[k]))
                          /\ pos + Len(Codec!EncodeElement(layout[k], value[k]))
                               = start + Len(EncodeElements(layout, value))
                          /\ Codec!ReadElement(layout[k], data, pos) = Codec!Got(value[k], a)
<1>. DEFINE n == Len(layout)
           p == [k \in 1 .. n |-> Codec!EncodeElement(layout[k], value[k])]
           all == EncodeElements(layout, value)
<1>1. n \in Nat /\ layout = [i \in 1 .. n |-> layout[i]] /\ value = [i \in 1 .. n |-> value[i]] /\ Len(value) = n
  BY DEF Alike, IsList
<1>2. p \in Seq(ByteStrings) /\ Len(p) = n
  BY <1>1 DEF ElementsReadable
<1>3. all = Codec!FlattenSeq(p)
  <2>1. DOMAIN layout = 1 .. n
    BY <1>1
  <2>. QED
    BY <2>1 DEF Codec!PutAll, EncodeElements
<1>4. PICK at \in [0 .. n -> Nat] :
        /\ at[0] = start /\ at[n] = start + Len(all)
        /\ \A k \in 1 .. n : at[k] = at[k - 1] + Len(p[k]) /\ Holds(data, at[k - 1], p[k])
  <2>. HIDE DEF p, n, all
  <2>1. Holds(data, start, Codec!FlattenSeq(p))
    BY <1>3 DEF all
  <2>2. \E at \in [0 .. Len(p) -> Nat] :
          /\ at[0] = start /\ at[Len(p)] = start + Len(Codec!FlattenSeq(p))
          /\ \A k \in 1 .. Len(p) : at[k] = at[k - 1] + Len(p[k]) /\ Holds(data, at[k - 1], p[k])
    BY <1>2, <2>1, PiecesHeld
  <2>. QED
    BY <1>2, <1>3, <2>2
<1>5. ASSUME NEW k \in 1 .. n
      PROVE  \E a : /\ Codec!ReadElement(layout[k], data, at[k - 1]) = Codec!Got(value[k], a)
                    /\ k < n => a = at[k]
  <2>1. at[k - 1] \in Nat
    BY <1>1, <1>4
  <2>2. p[k] = Codec!EncodeElement(layout[k], value[k])
    OBVIOUS
  <2>3. /\ Holds(data, at[k - 1], Codec!EncodeElement(layout[k], value[k]))
        /\ at[k] = at[k - 1] + Len(Codec!EncodeElement(layout[k], value[k]))
    <3>. HIDE DEF p
    <3>. QED
      BY <1>4, <2>2
  <2>. HIDE DEF p, all
  <2>. QED
    BY <2>1, <2>3 DEF ElementsReadable
<1>. DEFINE last == CHOOSE a : Codec!ReadElement(layout[n], data, at[n - 1]) = Codec!Got(value[n], a)
           pos == [k \in 0 .. n |-> IF k = n /\ n # 0 THEN last ELSE at[k]]
<1>6. ASSUME NEW k \in 1 .. n
      PROVE  Codec!ReadElement(layout[k], data, at[k - 1]) = Codec!Got(value[k], pos[k]) /\ pos[k - 1] = at[k - 1]
  <2>1. n # 0 /\ n \in 1 .. n
    BY <1>1
  <2>2. \E a : Codec!ReadElement(layout[n], data, at[n - 1]) = Codec!Got(value[n], a)
    BY <1>5, <2>1
  <2>3. Codec!ReadElement(layout[n], data, at[n - 1]) = Codec!Got(value[n], last)
    BY <2>2, Zenon
  <2>. HIDE DEF last
  <2>4. pos[n] = last
    BY <1>1, <2>1
  <2>5. pos[k - 1] = at[k - 1]
    BY <1>1
  <2>6. CASE k = n
    BY <2>3, <2>4, <2>5, <2>6
  <2>7. CASE k # n
    <3>1. pos[k] = at[k] /\ k < n
      BY <1>1, <2>7
    <3>. HIDE DEF pos
    <3>. QED
      BY <1>5, <2>3, <2>4, <2>5, <3>1
  <2>. QED
    BY <2>6, <2>7
<1>. HIDE DEF p, last, all
<1>7. pos[0] = start
  BY <1>1, <1>4, <1>6
<1>8. n = 0 => pos[n] = start + Len(all)
  <2>1. n = 0 => pos[0] = start /\ at[0] = at[n]
    BY <1>7
  <2>. HIDE DEF pos
  <2>. QED
    BY <1>4, <2>1
<1>9. ASSUME n # 0
       PROVE  /\ at[n - 1] \in Nat
              /\ Holds(data, at[n - 1], Codec!EncodeElement(layout[n], value[n]))
              /\ at[n - 1] + Len(Codec!EncodeElement(layout[n], value[n])) = start + Len(all)
              /\ Codec!ReadElement(layout[n], data, at[n - 1]) = Codec!Got(value[n], pos[n])
  <2>1. n \in 1 .. n /\ n - 1 \in 0 .. n
    BY <1>1, <1>9
  <2>2. p[n] = Codec!EncodeElement(layout[n], value[n])
    BY <2>1 DEF p
  <2>. HIDE DEF pos
  <2>. QED
    BY <1>4, <1>6, <2>1, <2>2
<1>. HIDE DEF pos
<1>10. ReadElements(layout, data, start) = Codec!Got(value, pos[n])
  <2>1. \A k \in 1 .. n : Codec!ReadElement(layout[k], data, pos[k - 1]) = Codec!Got(value[k], pos[k])
    BY <1>6
  <2>2. ReadElements(layout, data, pos[0]) = Codec!Got(value, pos[Len(layout)])
    BY <2>1, ElementsReadAlong DEF n
  <2>. QED
    BY <1>7, <2>2 DEF n
<1>. QED
  BY <1>8, <1>9, <1>10 DEF all, n

\* And no byte of the stream is left behind it.
LEMMA ElementsReadExactly ==
  ASSUME NEW layout, NEW value, Alike(layout, value), NEW data, NEW start,
         Holds(data, start, EncodeElements(layout, value)),
         \A k \in 1 .. Len(layout) :
           /\ Codec!EncodeElement(layout[k], value[k]) \in ByteStrings
           /\ \A pos \in Nat : Holds(data, pos, Codec!EncodeElement(layout[k], value[k])) =>
                Codec!ReadElement(layout[k], data, pos)
                  = Codec!Got(value[k], pos + Len(Codec!EncodeElement(layout[k], value[k])))
  PROVE  ReadElements(layout, data, start) = Codec!Got(value, start + Len(EncodeElements(layout, value)))
<1>0. ElementsReadable(layout, value, data)
  BY DEF ElementsReadable
<1>1. PICK a :
        /\ ReadElements(layout, data, start) = Codec!Got(value, a)
        /\ Len(layout) = 0 => a = start + Len(EncodeElements(layout, value))
        /\ Len(layout) # 0 =>
             \E pos \in Nat :
               LET k == Len(layout)
               IN /\ Holds(data, pos, Codec!EncodeElement(layout[k], value[k]))
                  /\ pos + Len(Codec!EncodeElement(layout[k], value[k]))
                       = start + Len(EncodeElements(layout, value))
                  /\ Codec!ReadElement(layout[k], data, pos) = Codec!Got(value[k], a)
  BY <1>0, ElementsRead
<1>2. ASSUME Len(layout) # 0 PROVE a = start + Len(EncodeElements(layout, value))
  <2>1. Len(layout) \in 1 .. Len(layout)
    BY <1>2 DEF Alike, IsList
  <2>. DEFINE k == Len(layout)
  <2>2. PICK pos \in Nat :
          /\ Holds(data, pos, Codec!EncodeElement(layout[k], value[k]))
          /\ pos + Len(Codec!EncodeElement(layout[k], value[k]))
               = start + Len(EncodeElements(layout, value))
          /\ Codec!ReadElement(layout[k], data, pos) = Codec!Got(value[k], a)
    BY <1>1, <1>2
  <2>3. Codec!Got(value[k], a) = Codec!Got(value[k], pos + Len(Codec!EncodeElement(layout[k], value[k])))
    BY <2>1, <2>2
  <2>. QED
    BY <2>2, <2>3 DEF Codec!Got
<1>. QED
  BY <1>1, <1>2

\* The positions at which the parts of a payload are read.
LEMMA PayloadReadAlong ==
  ASSUME NEW layout, NEW value, Alike(layout, value), NEW data, NEW pos,
         \A k \in 1 .. Len(layout) : Codec!GetOuter(layout[k], data, pos[k - 1]) = Codec!Got(value[k], pos[k])
  PROVE  Codec!ReadFrom(layout, data, pos[0]) = Codec!Got(value, pos[Len(layout)])
<1>. DEFINE n == Len(layout)
           start == pos[0]
           W == [k \in 0 .. n |-> Codec!Got([i \in 1 .. k |-> value[i]], pos[k])]
           E(f) == [k \in 0 .. n |->
                      IF k = 0 THEN Codec!Got(<< >>, start)
                      ELSE Codec!Then(f[k - 1], Codec!GetOuter(layout[k], data, f[k - 1].at))]
           upTo == CHOOSE f : f = E(f)
<1>1. n \in Nat /\ layout = [i \in 1 .. n |-> layout[i]] /\ value = [i \in 1 .. n |-> value[i]] /\ Len(value) = n
  BY DEF Alike, IsList
<1>2. \A k \in 1 .. n : Codec!GetOuter(layout[k], data, pos[k - 1]) = Codec!Got(value[k], pos[k])
  OBVIOUS
<1>3. W[0] = Codec!Got(<< >>, start) /\ pos[0] = start
  <2>1. pos[0] = start
    OBVIOUS
  <2>2. [i \in 1 .. 0 |-> value[i]] = << >>
    OBVIOUS
  <2>3. W[0] = Codec!Got([i \in 1 .. 0 |-> value[i]], pos[0])
    BY <1>1
  <2>. HIDE DEF W, start
  <2>. QED
    BY <2>1, <2>2, <2>3
<1>4. ASSUME NEW k \in 1 .. n
      PROVE  W[k] = Codec!Then(W[k - 1], Codec!GetOuter(layout[k], data, W[k - 1].at))
  <2>1. W[k - 1] = Codec!Got([i \in 1 .. k - 1 |-> value[i]], pos[k - 1])
    BY <1>1
  <2>2. W[k] = Codec!Got([i \in 1 .. k |-> value[i]], pos[k])
    BY <1>1
  <2>. HIDE DEF W, start
  <2>3. W[k - 1].at = pos[k - 1] /\ W[k - 1].value = [i \in 1 .. k - 1 |-> value[i]]
    BY <2>1 DEF Codec!Got
  <2>4. Codec!GetOuter(layout[k], data, W[k - 1].at) = Codec!Got(value[k], pos[k])
    BY <1>2, <2>3
  <2>5. Append([i \in 1 .. k - 1 |-> value[i]], value[k]) = [i \in 1 .. k |-> value[i]]
    BY <1>1, Longer
  <2>6. Codec!Then(W[k - 1], Codec!Got(value[k], pos[k]))
          = Codec!Got(Append(W[k - 1].value, value[k]), pos[k])
    BY DEF Codec!Then, Codec!Got
  <2>. QED
    BY <2>2, <2>3, <2>4, <2>5, <2>6
<1>5. W = E(W)
  <2>1. W = [k \in 0 .. n |-> W[k]]
    OBVIOUS
  <2>. HIDE DEF W, n, start
  <2>2. \A k \in 0 .. n : W[k] = IF k = 0 THEN Codec!Got(<< >>, start)
                                 ELSE Codec!Then(W[k - 1], Codec!GetOuter(layout[k], data, W[k - 1].at))
    BY <1>1, <1>3, <1>4
  <2>. QED
    BY <2>1, <2>2
<1>6. upTo = E(upTo)
  <2>. HIDE DEF E, W
  <2>. QED
    BY <1>5, Zenon
<1>7. Codec!ReadFrom(layout, data, start) = upTo[n]
  BY DEF Codec!GetAll, Codec!ReadFrom
<1>8. upTo[0] = Codec!Got(<< >>, start)
       /\ \A k \in 1 .. n : upTo[k] = Codec!Then(upTo[k - 1], Codec!GetOuter(layout[k], data, upTo[k - 1].at))
  <2>1. E(upTo)[0] = Codec!Got(<< >>, start)
        /\ \A k \in 1 .. n : E(upTo)[k]
             = Codec!Then(upTo[k - 1], Codec!GetOuter(layout[k], data, upTo[k - 1].at))
    <3>. HIDE DEF upTo, n
    <3>. QED
      BY <1>1
  <2>. HIDE DEF upTo, E
  <2>. QED
    BY <1>6, <2>1
<1>. HIDE DEF upTo, E, W, n
<1>9. upTo[n] = W[n]
  <2>. DEFINE Same == {k \in 0 .. n : upTo[k] = W[k]}
  <2>1. ASSUME NEW k \in 1 .. n, k - 1 \in Same PROVE k \in Same
    BY <1>1, <1>4, <1>8, <2>1
  <2>2. 0 \in Same
    BY <1>1, <1>3, <1>8
  <2>3. 0 .. n \subseteq Same
    <3>. HIDE DEF Same
    <3>. QED
      BY <1>1, <2>1, <2>2, FromZero
  <2>. QED
    BY <1>1, <2>3
<1>10. W[n] = Codec!Got(value, pos[n])
  <2>1. W[n] = Codec!Got([i \in 1 .. n |-> value[i]], pos[n])
    <3>. QED
      BY <1>1 DEF W
  <2>. QED
    BY <1>1, <2>1
<1>. QED
  BY <1>7, <1>9, <1>10 DEF n, start

\* Each part of a payload is read back where it is held.
PayloadReadable(layout, value, data) ==
  \A k \in 1 .. Len(layout) :
    /\ Codec!PutOuter(layout[k], value[k]) \in ByteStrings
    /\ \A pos \in Nat :
         Holds(data, pos, Codec!PutOuter(layout[k], value[k])) =>
           \E a : /\ Codec!GetOuter(layout[k], data, pos) = Codec!Got(value[k], a)
                  /\ k < Len(layout) => a = pos + Len(Codec!PutOuter(layout[k], value[k]))

\* Then a payload is read back whole.
LEMMA PayloadRead ==
  ASSUME NEW layout, NEW value, Alike(layout, value), NEW data, NEW start,
         Holds(data, start, Codec!Encode(layout, value)),
         PayloadReadable(layout, value, data)
  PROVE  \E a : /\ Codec!ReadFrom(layout, data, start) = Codec!Got(value, a)
                /\ Len(layout) = 0 => a = start + Len(Codec!Encode(layout, value))
                /\ Len(layout) # 0 =>
                     \E pos \in Nat :
                       LET k == Len(layout)
                       IN /\ Holds(data, pos, Codec!PutOuter(layout[k], value[k]))
                          /\ pos + Len(Codec!PutOuter(layout[k], value[k]))
                               = start + Len(Codec!Encode(layout, value))
                          /\ Codec!GetOuter(layout[k], data, pos) = Codec!Got(value[k], a)
<1>. DEFINE n == Len(layout)
           p == [k \in 1 .. n |-> Codec!PutOuter(layout[k], value[k])]
           all == Codec!Encode(layout, value)
<1>1. n \in Nat /\ layout = [i \in 1 .. n |-> layout[i]] /\ value = [i \in 1 .. n |-> value[i]] /\ Len(value) = n
  BY DEF Alike, IsList
<1>2. p \in Seq(ByteStrings) /\ Len(p) = n
  BY <1>1 DEF PayloadReadable
<1>3. all = Codec!FlattenSeq(p)
  <2>1. DOMAIN layout = 1 .. n
    BY <1>1
  <2>. QED
    BY <2>1 DEF Codec!PutAll, Codec!Encode
<1>4. PICK at \in [0 .. n -> Nat] :
        /\ at[0] = start /\ at[n] = start + Len(all)
        /\ \A k \in 1 .. n : at[k] = at[k - 1] + Len(p[k]) /\ Holds(data, at[k - 1], p[k])
  <2>. HIDE DEF p, n, all
  <2>1. Holds(data, start, Codec!FlattenSeq(p))
    BY <1>3 DEF all
  <2>2. \E at \in [0 .. Len(p) -> Nat] :
          /\ at[0] = start /\ at[Len(p)] = start + Len(Codec!FlattenSeq(p))
          /\ \A k \in 1 .. Len(p) : at[k] = at[k - 1] + Len(p[k]) /\ Holds(data, at[k - 1], p[k])
    BY <1>2, <2>1, PiecesHeld
  <2>. QED
    BY <1>2, <1>3, <2>2
<1>5. ASSUME NEW k \in 1 .. n
      PROVE  \E a : /\ Codec!GetOuter(layout[k], data, at[k - 1]) = Codec!Got(value[k], a)
                    /\ k < n => a = at[k]
  <2>1. at[k - 1] \in Nat
    BY <1>1, <1>4
  <2>2. p[k] = Codec!PutOuter(layout[k], value[k])
    OBVIOUS
  <2>3. /\ Holds(data, at[k - 1], Codec!PutOuter(layout[k], value[k]))
        /\ at[k] = at[k - 1] + Len(Codec!PutOuter(layout[k], value[k]))
    <3>. HIDE DEF p
    <3>. QED
      BY <1>4, <2>2
  <2>. HIDE DEF p, all
  <2>. QED
    BY <2>1, <2>3 DEF PayloadReadable
<1>. DEFINE last == CHOOSE a : Codec!GetOuter(layout[n], data, at[n - 1]) = Codec!Got(value[n], a)
           pos == [k \in 0 .. n |-> IF k = n /\ n # 0 THEN last ELSE at[k]]
<1>6. ASSUME NEW k \in 1 .. n
      PROVE  Codec!GetOuter(layout[k], data, at[k - 1]) = Codec!Got(value[k], pos[k]) /\ pos[k - 1] = at[k - 1]
  <2>1. n # 0 /\ n \in 1 .. n
    BY <1>1
  <2>2. \E a : Codec!GetOuter(layout[n], data, at[n - 1]) = Codec!Got(value[n], a)
    BY <1>5, <2>1
  <2>3. Codec!GetOuter(layout[n], data, at[n - 1]) = Codec!Got(value[n], last)
    BY <2>2, Zenon
  <2>. HIDE DEF last
  <2>4. pos[n] = last
    BY <1>1, <2>1
  <2>5. pos[k - 1] = at[k - 1]
    BY <1>1
  <2>6. CASE k = n
    BY <2>3, <2>4, <2>5, <2>6
  <2>7. CASE k # n
    <3>1. pos[k] = at[k] /\ k < n
      BY <1>1, <2>7
    <3>. HIDE DEF pos
    <3>. QED
      BY <1>5, <2>3, <2>4, <2>5, <3>1
  <2>. QED
    BY <2>6, <2>7
<1>. HIDE DEF p, last, all
<1>7. pos[0] = start
  BY <1>1, <1>4, <1>6
<1>8. n = 0 => pos[n] = start + Len(all)
  <2>1. n = 0 => pos[0] = start /\ at[0] = at[n]
    BY <1>7
  <2>. HIDE DEF pos
  <2>. QED
    BY <1>4, <2>1
<1>9. ASSUME n # 0
       PROVE  /\ at[n - 1] \in Nat
              /\ Holds(data, at[n - 1], Codec!PutOuter(layout[n], value[n]))
              /\ at[n - 1] + Len(Codec!PutOuter(layout[n], value[n])) = start + Len(all)
              /\ Codec!GetOuter(layout[n], data, at[n - 1]) = Codec!Got(value[n], pos[n])
  <2>1. n \in 1 .. n /\ n - 1 \in 0 .. n
    BY <1>1, <1>9
  <2>2. p[n] = Codec!PutOuter(layout[n], value[n])
    BY <2>1 DEF p
  <2>. HIDE DEF pos
  <2>. QED
    BY <1>4, <1>6, <2>1, <2>2
<1>. HIDE DEF pos
<1>10. Codec!ReadFrom(layout, data, start) = Codec!Got(value, pos[n])
  <2>1. \A k \in 1 .. n : Codec!GetOuter(layout[k], data, pos[k - 1]) = Codec!Got(value[k], pos[k])
    BY <1>6
  <2>2. Codec!ReadFrom(layout, data, pos[0]) = Codec!Got(value, pos[Len(layout)])
    BY <2>1, PayloadReadAlong DEF n
  <2>. QED
    BY <1>7, <2>2 DEF n
<1>. QED
  BY <1>8, <1>9, <1>10 DEF all, n

\* And no byte of the stream is left behind it.
LEMMA PayloadReadExactly ==
  ASSUME NEW layout, NEW value, Alike(layout, value), NEW data, NEW start,
         Holds(data, start, Codec!Encode(layout, value)),
         \A k \in 1 .. Len(layout) :
           /\ Codec!PutOuter(layout[k], value[k]) \in ByteStrings
           /\ \A pos \in Nat : Holds(data, pos, Codec!PutOuter(layout[k], value[k])) =>
                Codec!GetOuter(layout[k], data, pos)
                  = Codec!Got(value[k], pos + Len(Codec!PutOuter(layout[k], value[k])))
  PROVE  Codec!ReadFrom(layout, data, start) = Codec!Got(value, start + Len(Codec!Encode(layout, value)))
<1>0. PayloadReadable(layout, value, data)
  BY DEF PayloadReadable
<1>1. PICK a :
        /\ Codec!ReadFrom(layout, data, start) = Codec!Got(value, a)
        /\ Len(layout) = 0 => a = start + Len(Codec!Encode(layout, value))
        /\ Len(layout) # 0 =>
             \E pos \in Nat :
               LET k == Len(layout)
               IN /\ Holds(data, pos, Codec!PutOuter(layout[k], value[k]))
                  /\ pos + Len(Codec!PutOuter(layout[k], value[k]))
                       = start + Len(Codec!Encode(layout, value))
                  /\ Codec!GetOuter(layout[k], data, pos) = Codec!Got(value[k], a)
  BY <1>0, PayloadRead
<1>2. ASSUME Len(layout) # 0 PROVE a = start + Len(Codec!Encode(layout, value))
  <2>1. Len(layout) \in 1 .. Len(layout)
    BY <1>2 DEF Alike, IsList
  <2>. DEFINE k == Len(layout)
  <2>2. PICK pos \in Nat :
          /\ Holds(data, pos, Codec!PutOuter(layout[k], value[k]))
          /\ pos + Len(Codec!PutOuter(layout[k], value[k]))
               = start + Len(Codec!Encode(layout, value))
          /\ Codec!GetOuter(layout[k], data, pos) = Codec!Got(value[k], a)
    BY <1>1, <1>2
  <2>3. Codec!Got(value[k], a) = Codec!Got(value[k], pos + Len(Codec!PutOuter(layout[k], value[k])))
    BY <2>1, <2>2
  <2>. QED
    BY <2>2, <2>3 DEF Codec!Got
<1>. QED
  BY <1>1, <1>2

-----------------------------------------------------------------------------
(* What fits, from the inside out.                                         *)

\* The values a field can carry.  A number fits its bytes, a text its length.  A text
\* the reader does not skip is like any other when it is empty.
TextFits(f, x) == x \in ByteStrings /\ f.arg \in Nat /\ Fits(Len(x), f.arg)
\* A field without a list and a value it can carry.
PlainFits(f, x) ==
  \/ f.kind = "number" /\ f.arg \in Nat /\ Fits(x, f.arg)
  \/ f.kind = "text" /\ TextFits(f, x)
  \/ f.kind = "unskipped" /\ TextFits(f, x) /\ Len(x) = 0
\* A value of a layout whose fields are plain.
InnerFits(layout, value) ==
  Alike(layout, value) /\ \A k \in 1 .. Len(layout) : PlainFits(layout[k], value[k])

\* A plain value, or a list of such records.
MiddleFits(f, x) ==
  \/ PlainFits(f, x)
  \/ /\ f.kind = "many" /\ IsList(x) /\ Fits(Len(x), 4)
     /\ \A i \in 1 .. Len(x) : InnerFits(f.arg, x[i])
\* A value of a layout that may have lists of plain records.
ElementFits(layout, value) ==
  Alike(layout, value) /\ \A k \in 1 .. Len(layout) : MiddleFits(layout[k], value[k])
\* At the end of the stream the reader may stay in front of a text.
LastElementFits(layout, value) ==
  /\ Alike(layout, value)
  /\ \A k \in 1 .. Len(layout) :
       \/ MiddleFits(layout[k], value[k])
       \/ k = Len(layout) /\ layout[k].kind = "unskipped" /\ TextFits(layout[k], value[k])

\* A plain value, or a list of elements, whose elements may end unskipped if there is but one.
OuterFits(f, x) ==
  \/ PlainFits(f, x)
  \/ /\ f.kind = "many" /\ IsList(x) /\ Fits(Len(x), 4)
     /\ \A i \in 1 .. Len(x) : ElementFits(f.arg, x[i])
\* The last field may be unskipped, or one that is read only if the stream goes on.
LastFits(f, x) ==
  \/ OuterFits(f, x)
  \/ f.kind \in {"unskipped", "newer"} /\ TextFits(f, x) /\ f.arg > 0
  \/ /\ f.kind = "many" /\ IsList(x) /\ Fits(Len(x), 4)
     /\ \A i \in 1 .. Len(x) : ElementFits(f.arg, x[i]) \/ (i = Len(x) /\ LastElementFits(f.arg, x[i]))
\* A value of the layout of a payload.
PayloadFits(layout, value) ==
  /\ Alike(layout, value)
  /\ \A k \in 1 .. Len(layout) :
       OuterFits(layout[k], value[k]) \/ (k = Len(layout) /\ LastFits(layout[k], value[k]))

-----------------------------------------------------------------------------
\* A field that is no list.
\* What a plain field puts into the stream.
Piece(f, x) == IF f.kind = "number" THEN Codec!Bytes(x, f.arg) ELSE Framed(x, f.arg)

\* At every level a plain field is written as its piece.
LEMMA PieceWritten ==
  ASSUME NEW f, NEW x, f.kind # "many"
  PROVE  Codec!PutInner(f, x) = Piece(f, x) /\ Codec!PutMiddle(f, x) = Piece(f, x)
         /\ Codec!PutOuter(f, x) = Piece(f, x)
<1>1. Codec!PutInner(f, x) = Piece(f, x)
  BY DEF Codec!PutInner, Codec!PutWith, Piece, Framed
<1>2. Codec!PutMiddle(f, x) = Piece(f, x)
  BY DEF Codec!PutMiddle, Codec!PutWith, Piece, Framed
<1>3. Codec!PutOuter(f, x) = Piece(f, x)
  BY DEF Codec!PutOuter, Codec!PutWith, Piece, Framed
<1>. QED
  BY <1>1, <1>2, <1>3

\* A text behind its length is a stream.
LEMMA FramedTyped ==
  ASSUME NEW f, NEW x, TextFits(f, x)
  PROVE  Framed(x, f.arg) \in ByteStrings /\ Len(Framed(x, f.arg)) = f.arg + Len(x)
<1>1. Codec!Bytes(Len(x), f.arg) \in ByteStrings /\ Len(Codec!Bytes(Len(x), f.arg)) = f.arg
  BY NumberOfBytes DEF TextFits
<1>. QED
  BY <1>1 DEF Framed, ByteStrings, TextFits

\* So is every piece.
LEMMA PieceTyped ==
  ASSUME NEW f, NEW x, PlainFits(f, x)
  PROVE  Piece(f, x) \in ByteStrings /\ f.kind # "many"
<1>1. CASE f.kind = "number" /\ f.arg \in Nat /\ Fits(x, f.arg)
  BY <1>1, NumberOfBytes DEF Piece
<1>2. CASE f.kind \in {"text", "unskipped"} /\ TextFits(f, x)
  BY <1>2, FramedTyped DEF Piece
<1>. QED
  BY <1>1, <1>2 DEF PlainFits

\* TextHeld for the width a field gives.
LEMMA FieldHeld ==
  ASSUME NEW f, NEW x, TextFits(f, x), NEW data, NEW at, Holds(data, at, Framed(x, f.arg))
  PROVE  /\ Codec!ReadText(data, at, f.arg, TRUE) = Codec!Got(x, at + Len(Framed(x, f.arg)))
         /\ Codec!ReadText(data, at, f.arg, FALSE) = Codec!Got(x, at + f.arg)
         /\ Len(Framed(x, f.arg)) = f.arg + Len(x)
<1>. DEFINE w == f.arg
<1>1. x \in ByteStrings /\ w \in Nat /\ Fits(Len(x), w) /\ Holds(data, at, Framed(x, w))
  BY DEF TextFits
<1>. HIDE DEF w
<1>2. /\ Codec!ReadText(data, at, w, TRUE) = Codec!Got(x, at + Len(Framed(x, w)))
      /\ Codec!ReadText(data, at, w, FALSE) = Codec!Got(x, at + w)
      /\ Len(Framed(x, w)) = w + Len(x)
  BY <1>1, TextHeld
<1>. QED
  BY <1>2 DEF w

\* At every level a plain field is read from its piece.
LEMMA PieceRead ==
  ASSUME NEW f, NEW x, PlainFits(f, x), NEW data, NEW at, Holds(data, at, Piece(f, x))
  PROVE  /\ Codec!GetInner(f, data, at) = Codec!Got(x, at + Len(Piece(f, x)))
         /\ Codec!GetMiddle(f, data, at) = Codec!Got(x, at + Len(Piece(f, x)))
         /\ Codec!GetOuter(f, data, at) = Codec!Got(x, at + Len(Piece(f, x)))
<1>1. CASE f.kind = "number" /\ f.arg \in Nat /\ Fits(x, f.arg)
  <2>1. Codec!ReadNumber(data, at, f.arg) = Codec!Got(x, at + Len(Piece(f, x)))
    <3>1. Piece(f, x) = Codec!Bytes(x, f.arg)
      BY <1>1 DEF Piece
    <3>. QED
      BY <1>1, <3>1, NumberHeld, NumberOfBytes
  <2>2. Codec!GetInner(f, data, at) = Codec!ReadNumber(data, at, f.arg)
    BY <1>1 DEF Codec!GetInner, Codec!GetWith
  <2>3. Codec!GetMiddle(f, data, at) = Codec!ReadNumber(data, at, f.arg)
    BY <1>1 DEF Codec!GetMiddle, Codec!GetWith
  <2>4. Codec!GetOuter(f, data, at) = Codec!ReadNumber(data, at, f.arg)
    BY <1>1 DEF Codec!GetOuter, Codec!GetWith
  <2>. QED
    BY <2>1, <2>2, <2>3, <2>4
<1>2. CASE f.kind = "text" /\ TextFits(f, x)
  <2>1. Codec!ReadText(data, at, f.arg, TRUE) = Codec!Got(x, at + Len(Piece(f, x)))
    <3>1. Piece(f, x) = Framed(x, f.arg)
      BY <1>2 DEF Piece
    <3>2. Holds(data, at, Framed(x, f.arg))
      BY <3>1
    <3>3. Codec!ReadText(data, at, f.arg, TRUE) = Codec!Got(x, at + Len(Framed(x, f.arg)))
      BY <1>2, <3>2, FieldHeld
    <3>. QED
      BY <3>1, <3>3
  <2>2. Codec!GetInner(f, data, at) = Codec!ReadText(data, at, f.arg, TRUE)
    BY <1>2 DEF Codec!GetInner, Codec!GetWith
  <2>3. Codec!GetMiddle(f, data, at) = Codec!ReadText(data, at, f.arg, TRUE)
    BY <1>2 DEF Codec!GetMiddle, Codec!GetWith
  <2>4. Codec!GetOuter(f, data, at) = Codec!ReadText(data, at, f.arg, TRUE)
    BY <1>2 DEF Codec!GetOuter, Codec!GetWith
  <2>. QED
    BY <2>1, <2>2, <2>3, <2>4
<1>3. CASE f.kind = "unskipped" /\ TextFits(f, x) /\ Len(x) = 0
  <2>1. Codec!ReadText(data, at, f.arg, FALSE) = Codec!Got(x, at + Len(Piece(f, x)))
    <3>1. Piece(f, x) = Framed(x, f.arg)
      BY <1>3 DEF Piece
    <3>2. Codec!ReadText(data, at, f.arg, FALSE) = Codec!Got(x, at + f.arg)
          /\ Len(Framed(x, f.arg)) = f.arg + Len(x)
      <4>1. Holds(data, at, Framed(x, f.arg))
        BY <3>1
      <4>. QED
        BY <1>3, <4>1, FieldHeld
    <3>3. f.arg + Len(x) = f.arg
      BY <1>3 DEF TextFits
    <3>. QED
      BY <3>1, <3>2, <3>3
  <2>2. Codec!GetInner(f, data, at) = Codec!ReadText(data, at, f.arg, FALSE)
    BY <1>3 DEF Codec!GetInner, Codec!GetWith
  <2>3. Codec!GetMiddle(f, data, at) = Codec!ReadText(data, at, f.arg, FALSE)
    BY <1>3 DEF Codec!GetMiddle, Codec!GetWith
  <2>4. Codec!GetOuter(f, data, at) = Codec!ReadText(data, at, f.arg, FALSE)
    BY <1>3 DEF Codec!GetOuter, Codec!GetWith
  <2>. QED
    BY <2>1, <2>2, <2>3, <2>4
<1>. QED
  BY <1>1, <1>2, <1>3 DEF PlainFits

-----------------------------------------------------------------------------
\* Records without lists.
LEMMA InnerTyped ==
  ASSUME NEW layout, NEW value, InnerFits(layout, value)
  PROVE  Codec!EncodeInner(layout, value) \in ByteStrings
<1>. DEFINE p == [k \in 1 .. Len(layout) |-> Codec!PutInner(layout[k], value[k])]
<1>1. ASSUME NEW k \in 1 .. Len(layout) PROVE Codec!PutInner(layout[k], value[k]) \in ByteStrings
  BY PieceTyped, PieceWritten DEF InnerFits
<1>2. Len(layout) \in Nat /\ DOMAIN layout = 1 .. Len(layout)
  BY DEF InnerFits, Alike, IsList
<1>3. p \in Seq(ByteStrings)
  BY <1>1, <1>2
<1>4. Codec!EncodeInner(layout, value) = Codec!FlattenSeq(p)
  BY <1>2 DEF Codec!EncodeInner, Codec!PutAll
<1>. HIDE DEF p
<1>. QED
  BY <1>3, <1>4, FlatTyped

\* A record of plain fields is read back from the stream that holds it.
LEMMA InnerHeld ==
  ASSUME NEW layout, NEW value, InnerFits(layout, value), NEW data, NEW at,
         Holds(data, at, Codec!EncodeInner(layout, value))
  PROVE  Codec!ReadInner(layout, data, at)
           = Codec!Got(value, at + Len(Codec!EncodeInner(layout, value)))
<1>1. ASSUME NEW k \in 1 .. Len(layout)
      PROVE  /\ Codec!PutInner(layout[k], value[k]) \in ByteStrings
             /\ \A pos \in Nat : Holds(data, pos, Codec!PutInner(layout[k], value[k])) =>
                  Codec!GetInner(layout[k], data, pos)
                    = Codec!Got(value[k], pos + Len(Codec!PutInner(layout[k], value[k])))
  <2>1. PlainFits(layout[k], value[k])
    BY DEF InnerFits
  <2>2. Codec!PutInner(layout[k], value[k]) = Piece(layout[k], value[k])
        /\ Piece(layout[k], value[k]) \in ByteStrings
    BY <2>1, PieceTyped, PieceWritten
  <2>. QED
    BY <2>1, <2>2, PieceRead
<1>2. Alike(layout, value)
  BY DEF InnerFits
<1>. QED
  BY <1>1, <1>2, InnerReadExactly

-----------------------------------------------------------------------------
\* Lists are read element by element.
LEMMA BothTyped ==
  ASSUME NEW s \in ByteStrings, NEW t \in ByteStrings
  PROVE  s \o t \in ByteStrings /\ Len(s \o t) = Len(s) + Len(t)
BY DEF ByteStrings

\* A list of plain records is a stream.
LEMMA InnersTyped ==
  ASSUME NEW x, IsList(x), NEW of, \A i \in 1 .. Len(x) : Codec!EncodeInner(of, x[i]) \in ByteStrings
  PROVE  /\ Alike(Codec!Repeated(of, Len(x)), x)
         /\ \A i \in 1 .. Len(x) : Codec!Repeated(of, Len(x))[i] = of
         /\ EncodeInners(Codec!Repeated(of, Len(x)), x) \in ByteStrings
<1>. DEFINE layout == Codec!Repeated(of, Len(x))
           p == [k \in 1 .. Len(x) |-> Codec!EncodeInner(of, x[k])]
<1>1. Len(x) \in Nat /\ layout = [i \in 1 .. Len(x) |-> of]
  BY DEF IsList, Codec!Repeated
<1>2. Len(layout) = Len(x) /\ DOMAIN layout = 1 .. Len(x) /\ \A i \in 1 .. Len(x) : layout[i] = of
  <2>. HIDE DEF layout
  <2>. QED
    BY <1>1
<1>3. Alike(layout, x)
  <2>. HIDE DEF layout
  <2>. QED
    BY <1>1, <1>2 DEF Alike, IsList
<1>4. p \in Seq(ByteStrings)
  BY <1>1
<1>5. EncodeInners(layout, x) = Codec!FlattenSeq(p)
  <2>1. [i \in DOMAIN layout |-> Codec!EncodeInner(layout[i], x[i])] = p
    <3>. HIDE DEF layout
    <3>. QED
      BY <1>2
  <2>. HIDE DEF p, layout
  <2>. QED
    BY <2>1 DEF EncodeInners, Codec!PutAll
<1>6. EncodeInners(layout, x) \in ByteStrings
  <2>. HIDE DEF p, layout
  <2>. QED
    BY <1>4, <1>5, FlatTyped
<1>. QED
  BY <1>2, <1>3, <1>6

\* A list behind its count.
LEMMA InnersCounted ==
  ASSUME NEW f, NEW x, f.kind = "many", IsList(x), Fits(Len(x), 4),
         \A i \in 1 .. Len(x) : Codec!EncodeInner(f.arg, x[i]) \in ByteStrings
  PROVE  LET list == EncodeInners(Codec!Repeated(f.arg, Len(x)), x)
         IN /\ Codec!PutMiddle(f, x) \in ByteStrings /\ list \in ByteStrings
            /\ Len(Codec!PutMiddle(f, x)) = 4 + Len(list)
            /\ \A data, at : Holds(data, at, Codec!PutMiddle(f, x)) =>
                 /\ Holds(data, at + 4, list)
                 /\ Codec!GetMiddle(f, data, at) = ReadInners(Codec!Repeated(f.arg, Len(x)), data, at + 4)
                 /\ at + Len(Codec!PutMiddle(f, x)) = (at + 4) + Len(list)
<1>. DEFINE list == EncodeInners(Codec!Repeated(f.arg, Len(x)), x)
           count == Codec!Bytes(Len(x), 4)
<1>1. list \in ByteStrings
  BY InnersTyped
<1>2. count \in ByteStrings /\ Len(count) = 4
  BY NumberOfBytes
<1>3. Codec!PutMiddle(f, x) = count \o list
  BY DEF Codec!PutMiddle, Codec!PutWith, EncodeInners
<1>4. Codec!PutMiddle(f, x) \in ByteStrings /\ Len(Codec!PutMiddle(f, x)) = 4 + Len(list)
  <2>. HIDE DEF list, count
  <2>. QED
    BY <1>1, <1>2, <1>3, BothTyped
<1>5. ASSUME NEW data, NEW at, Holds(data, at, Codec!PutMiddle(f, x))
      PROVE  /\ Holds(data, at + 4, list)
             /\ Codec!GetMiddle(f, data, at) = ReadInners(Codec!Repeated(f.arg, Len(x)), data, at + 4)
             /\ at + Len(Codec!PutMiddle(f, x)) = (at + 4) + Len(list)
  <2>1. Holds(data, at, count \o list)
    BY <1>3, <1>5
  <2>2. Holds(data, at, count) /\ Holds(data, at + 4, list)
    <3>. HIDE DEF list, count
    <3>. QED
      BY <1>1, <1>2, <2>1, HoldsBoth
  <2>3. Codec!ReadNumber(data, at, 4) = Codec!Got(Len(x), at + 4)
    BY <2>2, NumberHeld
  <2>4. Codec!GetMiddle(f, data, at)
          = ReadInners(Codec!Repeated(f.arg, Codec!ReadNumber(data, at, 4).value), data,
                     Codec!ReadNumber(data, at, 4).at)
    BY DEF Codec!GetMiddle, Codec!GetWith, ReadInners
  <2>5. Codec!ReadNumber(data, at, 4).value = Len(x) /\ Codec!ReadNumber(data, at, 4).at = at + 4
    BY <2>3 DEF Codec!Got
  <2>6. at \in Nat /\ Len(list) \in Nat
    BY <1>1, <2>1 DEF Holds, ByteStrings
  <2>. QED
    BY <1>4, <2>2, <2>4, <2>5, <2>6
<1>. QED
  BY <1>1, <1>4, <1>5

\* A list of plain records is read back, element by element.
LEMMA InnersHeld ==
  ASSUME NEW f, NEW x, f.kind = "many", IsList(x), Fits(Len(x), 4),
         \A i \in 1 .. Len(x) : InnerFits(f.arg, x[i]), NEW data, NEW at, Holds(data, at, Codec!PutMiddle(f, x))
  PROVE  Codec!GetMiddle(f, data, at) = Codec!Got(x, at + Len(Codec!PutMiddle(f, x)))
<1>. DEFINE layout == Codec!Repeated(f.arg, Len(x))
           list == EncodeInners(layout, x)
<1>1. \A i \in 1 .. Len(x) : Codec!EncodeInner(f.arg, x[i]) \in ByteStrings
  BY InnerTyped
<1>2. Alike(layout, x) /\ \A i \in 1 .. Len(x) : layout[i] = f.arg
  BY <1>1, InnersTyped
<1>3. /\ Holds(data, at + 4, list)
      /\ Codec!GetMiddle(f, data, at) = ReadInners(layout, data, at + 4)
      /\ at + Len(Codec!PutMiddle(f, x)) = (at + 4) + Len(list)
  BY <1>1, InnersCounted
<1>. HIDE DEF layout
<1>4. ASSUME NEW k \in 1 .. Len(layout)
      PROVE  /\ Codec!EncodeInner(layout[k], x[k]) \in ByteStrings
             /\ \A pos \in Nat : Holds(data, pos, Codec!EncodeInner(layout[k], x[k])) =>
                  Codec!ReadInner(layout[k], data, pos)
                    = Codec!Got(x[k], pos + Len(Codec!EncodeInner(layout[k], x[k])))
  <2>1. k \in 1 .. Len(x) /\ layout[k] = f.arg
    BY <1>2 DEF Alike
  <2>2. InnerFits(layout[k], x[k])
    BY <2>1
  <2>. QED
    BY <2>2, InnerTyped, InnerHeld
<1>5. ReadInners(layout, data, at + 4) = Codec!Got(x, (at + 4) + Len(list))
  BY <1>2, <1>3, <1>4, InnersReadExactly
<1>. QED
  BY <1>3, <1>5

-----------------------------------------------------------------------------
\* Records with lists of records.
LEMMA MiddleTyped ==
  ASSUME NEW f, NEW x, MiddleFits(f, x)
  PROVE  Codec!PutMiddle(f, x) \in ByteStrings
<1>1. CASE PlainFits(f, x)
  BY <1>1, PieceTyped, PieceWritten
<1>2. CASE /\ f.kind = "many" /\ IsList(x) /\ Fits(Len(x), 4)
           /\ \A i \in 1 .. Len(x) : InnerFits(f.arg, x[i])
  <2>1. \A i \in 1 .. Len(x) : Codec!EncodeInner(f.arg, x[i]) \in ByteStrings
    BY <1>2, InnerTyped
  <2>. QED
    BY <1>2, <2>1, InnersCounted
<1>. QED
  BY <1>1, <1>2 DEF MiddleFits

\* A field that may hold a list of plain records is read back.
LEMMA MiddleHeld ==
  ASSUME NEW f, NEW x, MiddleFits(f, x), NEW data, NEW at, Holds(data, at, Codec!PutMiddle(f, x))
  PROVE  Codec!GetMiddle(f, data, at) = Codec!Got(x, at + Len(Codec!PutMiddle(f, x)))
<1>1. CASE PlainFits(f, x)
  <2>1. Codec!PutMiddle(f, x) = Piece(f, x)
    BY <1>1, PieceTyped, PieceWritten
  <2>2. Holds(data, at, Piece(f, x))
    BY <2>1
  <2>3. Codec!GetMiddle(f, data, at) = Codec!Got(x, at + Len(Piece(f, x)))
    BY <1>1, <2>2, PieceRead
  <2>. QED
    BY <2>1, <2>3
<1>2. CASE /\ f.kind = "many" /\ IsList(x) /\ Fits(Len(x), 4)
           /\ \A i \in 1 .. Len(x) : InnerFits(f.arg, x[i])
  BY <1>2, InnersHeld
<1>. QED
  BY <1>1, <1>2 DEF MiddleFits

\* The element that ends unskipped is a stream.
LEMMA LastElementTyped ==
  ASSUME NEW layout, NEW value, LastElementFits(layout, value)
  PROVE  /\ Codec!EncodeElement(layout, value) \in ByteStrings
         /\ \A k \in 1 .. Len(layout) : Codec!PutMiddle(layout[k], value[k]) \in ByteStrings
<1>. DEFINE p == [k \in 1 .. Len(layout) |-> Codec!PutMiddle(layout[k], value[k])]
<1>1. ASSUME NEW k \in 1 .. Len(layout) PROVE Codec!PutMiddle(layout[k], value[k]) \in ByteStrings
  <2>1. CASE MiddleFits(layout[k], value[k])
    BY <2>1, MiddleTyped
  <2>2. CASE layout[k].kind = "unskipped" /\ TextFits(layout[k], value[k])
    BY <2>2, PieceWritten, FramedTyped DEF Piece
  <2>. QED
    BY <2>1, <2>2 DEF LastElementFits
<1>2. Len(layout) \in Nat /\ DOMAIN layout = 1 .. Len(layout)
  BY DEF LastElementFits, Alike, IsList
<1>3. p \in Seq(ByteStrings)
  BY <1>1, <1>2
<1>4. Codec!EncodeElement(layout, value) = Codec!FlattenSeq(p)
  BY <1>2 DEF Codec!EncodeElement, Codec!PutAll
<1>. HIDE DEF p
<1>. QED
  BY <1>1, <1>3, <1>4, FlatTyped

\* So is every other element.
LEMMA ElementTyped ==
  ASSUME NEW layout, NEW value, ElementFits(layout, value)
  PROVE  Codec!EncodeElement(layout, value) \in ByteStrings
BY LastElementTyped DEF ElementFits, LastElementFits

\* An element is read back.
LEMMA ElementHeld ==
  ASSUME NEW layout, NEW value, ElementFits(layout, value), NEW data, NEW at,
         Holds(data, at, Codec!EncodeElement(layout, value))
  PROVE  Codec!ReadElement(layout, data, at)
           = Codec!Got(value, at + Len(Codec!EncodeElement(layout, value)))
<1>1. ASSUME NEW k \in 1 .. Len(layout)
      PROVE  /\ Codec!PutMiddle(layout[k], value[k]) \in ByteStrings
             /\ \A pos \in Nat : Holds(data, pos, Codec!PutMiddle(layout[k], value[k])) =>
                  Codec!GetMiddle(layout[k], data, pos)
                    = Codec!Got(value[k], pos + Len(Codec!PutMiddle(layout[k], value[k])))
  <2>1. MiddleFits(layout[k], value[k])
    BY DEF ElementFits
  <2>. QED
    BY <2>1, MiddleTyped, MiddleHeld
<1>2. Alike(layout, value)
  BY DEF ElementFits
<1>. QED
  BY <1>1, <1>2, ElementReadExactly

\* The last element of a list at the end of the stream.
LEMMA LastElementHeld ==
  ASSUME NEW layout, NEW value, LastElementFits(layout, value), NEW data, NEW start,
         Holds(data, start, Codec!EncodeElement(layout, value))
  PROVE  \E a : Codec!ReadElement(layout, data, start) = Codec!Got(value, a)
<1>1. ElementReadable(layout, value, data)
  <2>. SUFFICES ASSUME NEW k \in 1 .. Len(layout)
       PROVE  /\ Codec!PutMiddle(layout[k], value[k]) \in ByteStrings
              /\ \A pos \in Nat : Holds(data, pos, Codec!PutMiddle(layout[k], value[k])) =>
                   \E a : /\ Codec!GetMiddle(layout[k], data, pos) = Codec!Got(value[k], a)
                          /\ k < Len(layout) => a = pos + Len(Codec!PutMiddle(layout[k], value[k]))
    BY DEF ElementReadable
  <2>1. Codec!PutMiddle(layout[k], value[k]) \in ByteStrings
    BY LastElementTyped
  <2>2. ASSUME NEW pos \in Nat, Holds(data, pos, Codec!PutMiddle(layout[k], value[k]))
        PROVE  \E a : /\ Codec!GetMiddle(layout[k], data, pos) = Codec!Got(value[k], a)
                      /\ k < Len(layout) => a = pos + Len(Codec!PutMiddle(layout[k], value[k]))
    <3>1. CASE MiddleFits(layout[k], value[k])
      BY <2>2, <3>1, MiddleHeld
    <3>2. CASE k = Len(layout) /\ layout[k].kind = "unskipped" /\ TextFits(layout[k], value[k])
      <4>1. Codec!PutMiddle(layout[k], value[k]) = Framed(value[k], layout[k].arg)
        BY <3>2, PieceWritten DEF Piece
      <4>2. Codec!ReadText(data, pos, layout[k].arg, FALSE) = Codec!Got(value[k], pos + layout[k].arg)
        <5>. DEFINE f == layout[k]
                   x == value[k]
        <5>1. TextFits(f, x) /\ Holds(data, pos, Framed(x, f.arg))
          BY <2>2, <3>2, <4>1
        <5>. HIDE DEF f, x
        <5>2. Codec!ReadText(data, pos, f.arg, FALSE) = Codec!Got(x, pos + f.arg)
          BY <5>1, FieldHeld
        <5>. QED
          BY <5>2 DEF f, x
      <4>3. Codec!GetMiddle(layout[k], data, pos) = Codec!ReadText(data, pos, layout[k].arg, FALSE)
        BY <3>2 DEF Codec!GetMiddle, Codec!GetWith
      <4>4. ~(k < Len(layout))
        BY <3>2
      <4>. QED
        BY <4>2, <4>3, <4>4
    <3>. QED
      BY <3>1, <3>2 DEF LastElementFits
  <2>. QED
    BY <2>1, <2>2
<1>2. Alike(layout, value)
  BY DEF LastElementFits
<1>3. \E a : /\ Codec!ReadElement(layout, data, start) = Codec!Got(value, a)
             /\ Len(layout) = 0 => a = start + Len(Codec!EncodeElement(layout, value))
             /\ Len(layout) # 0 =>
                  \E pos \in Nat :
                    LET k == Len(layout)
                    IN /\ Holds(data, pos, Codec!PutMiddle(layout[k], value[k]))
                       /\ pos + Len(Codec!PutMiddle(layout[k], value[k]))
                            = start + Len(Codec!EncodeElement(layout, value))
                       /\ Codec!GetMiddle(layout[k], data, pos) = Codec!Got(value[k], a)
  BY <1>1, <1>2, ElementRead
<1>. QED
  BY <1>3

\* A list of elements is a stream.
LEMMA ElementsTyped ==
  ASSUME NEW x, IsList(x), NEW of, \A i \in 1 .. Len(x) : Codec!EncodeElement(of, x[i]) \in ByteStrings
  PROVE  /\ Alike(Codec!Repeated(of, Len(x)), x)
         /\ \A i \in 1 .. Len(x) : Codec!Repeated(of, Len(x))[i] = of
         /\ EncodeElements(Codec!Repeated(of, Len(x)), x) \in ByteStrings
<1>. DEFINE layout == Codec!Repeated(of, Len(x))
           p == [k \in 1 .. Len(x) |-> Codec!EncodeElement(of, x[k])]
<1>1. Len(x) \in Nat /\ layout = [i \in 1 .. Len(x) |-> of]
  BY DEF IsList, Codec!Repeated
<1>2. Len(layout) = Len(x) /\ DOMAIN layout = 1 .. Len(x) /\ \A i \in 1 .. Len(x) : layout[i] = of
  <2>. HIDE DEF layout
  <2>. QED
    BY <1>1
<1>3. Alike(layout, x)
  <2>. HIDE DEF layout
  <2>. QED
    BY <1>1, <1>2 DEF Alike, IsList
<1>4. p \in Seq(ByteStrings)
  BY <1>1
<1>5. EncodeElements(layout, x) = Codec!FlattenSeq(p)
  <2>1. [i \in DOMAIN layout |-> Codec!EncodeElement(layout[i], x[i])] = p
    <3>. HIDE DEF layout
    <3>. QED
      BY <1>2
  <2>. HIDE DEF p, layout
  <2>. QED
    BY <2>1 DEF EncodeElements, Codec!PutAll
<1>6. EncodeElements(layout, x) \in ByteStrings
  <2>. HIDE DEF p, layout
  <2>. QED
    BY <1>4, <1>5, FlatTyped
<1>. QED
  BY <1>2, <1>3, <1>6

\* A list behind its count.
LEMMA ElementsCounted ==
  ASSUME NEW f, NEW x, f.kind = "many", IsList(x), Fits(Len(x), 4),
         \A i \in 1 .. Len(x) : Codec!EncodeElement(f.arg, x[i]) \in ByteStrings
  PROVE  LET list == EncodeElements(Codec!Repeated(f.arg, Len(x)), x)
         IN /\ Codec!PutOuter(f, x) \in ByteStrings /\ list \in ByteStrings
            /\ Len(Codec!PutOuter(f, x)) = 4 + Len(list)
            /\ \A data, at : Holds(data, at, Codec!PutOuter(f, x)) =>
                 /\ Holds(data, at + 4, list)
                 /\ Codec!GetOuter(f, data, at) = ReadElements(Codec!Repeated(f.arg, Len(x)), data, at + 4)
                 /\ at + Len(Codec!PutOuter(f, x)) = (at + 4) + Len(list)
<1>. DEFINE list == EncodeElements(Codec!Repeated(f.arg, Len(x)), x)
           count == Codec!Bytes(Len(x), 4)
<1>1. list \in ByteStrings
  BY ElementsTyped
<1>2. count \in ByteStrings /\ Len(count) = 4
  BY NumberOfBytes
<1>3. Codec!PutOuter(f, x) = count \o list
  BY DEF Codec!PutOuter, Codec!PutWith, EncodeElements
<1>4. Codec!PutOuter(f, x) \in ByteStrings /\ Len(Codec!PutOuter(f, x)) = 4 + Len(list)
  <2>. HIDE DEF list, count
  <2>. QED
    BY <1>1, <1>2, <1>3, BothTyped
<1>5. ASSUME NEW data, NEW at, Holds(data, at, Codec!PutOuter(f, x))
      PROVE  /\ Holds(data, at + 4, list)
             /\ Codec!GetOuter(f, data, at) = ReadElements(Codec!Repeated(f.arg, Len(x)), data, at + 4)
             /\ at + Len(Codec!PutOuter(f, x)) = (at + 4) + Len(list)
  <2>1. Holds(data, at, count \o list)
    BY <1>3, <1>5
  <2>2. Holds(data, at, count) /\ Holds(data, at + 4, list)
    <3>. HIDE DEF list, count
    <3>. QED
      BY <1>1, <1>2, <2>1, HoldsBoth
  <2>3. Codec!ReadNumber(data, at, 4) = Codec!Got(Len(x), at + 4)
    BY <2>2, NumberHeld
  <2>4. Codec!GetOuter(f, data, at)
          = ReadElements(Codec!Repeated(f.arg, Codec!ReadNumber(data, at, 4).value), data,
                     Codec!ReadNumber(data, at, 4).at)
    BY DEF Codec!GetOuter, Codec!GetWith, ReadElements
  <2>5. Codec!ReadNumber(data, at, 4).value = Len(x) /\ Codec!ReadNumber(data, at, 4).at = at + 4
    BY <2>3 DEF Codec!Got
  <2>6. at \in Nat /\ Len(list) \in Nat
    BY <1>1, <2>1 DEF Holds, ByteStrings
  <2>. QED
    BY <1>4, <2>2, <2>4, <2>5, <2>6
<1>. QED
  BY <1>1, <1>4, <1>5

\* A list of elements is read back.
LEMMA ElementsHeld ==
  ASSUME NEW f, NEW x, f.kind = "many", IsList(x), Fits(Len(x), 4),
         \A i \in 1 .. Len(x) : ElementFits(f.arg, x[i]), NEW data, NEW at, Holds(data, at, Codec!PutOuter(f, x))
  PROVE  Codec!GetOuter(f, data, at) = Codec!Got(x, at + Len(Codec!PutOuter(f, x)))
<1>. DEFINE layout == Codec!Repeated(f.arg, Len(x))
           list == EncodeElements(layout, x)
<1>1. \A i \in 1 .. Len(x) : Codec!EncodeElement(f.arg, x[i]) \in ByteStrings
  BY ElementTyped
<1>2. Alike(layout, x) /\ \A i \in 1 .. Len(x) : layout[i] = f.arg
  BY <1>1, ElementsTyped
<1>3. /\ Holds(data, at + 4, list)
      /\ Codec!GetOuter(f, data, at) = ReadElements(layout, data, at + 4)
      /\ at + Len(Codec!PutOuter(f, x)) = (at + 4) + Len(list)
  BY <1>1, ElementsCounted
<1>. HIDE DEF layout
<1>4. ASSUME NEW k \in 1 .. Len(layout)
      PROVE  /\ Codec!EncodeElement(layout[k], x[k]) \in ByteStrings
             /\ \A pos \in Nat : Holds(data, pos, Codec!EncodeElement(layout[k], x[k])) =>
                  Codec!ReadElement(layout[k], data, pos)
                    = Codec!Got(x[k], pos + Len(Codec!EncodeElement(layout[k], x[k])))
  <2>1. k \in 1 .. Len(x) /\ layout[k] = f.arg
    BY <1>2 DEF Alike
  <2>2. ElementFits(layout[k], x[k])
    BY <2>1
  <2>. QED
    BY <2>2, ElementTyped, ElementHeld
<1>5. ReadElements(layout, data, at + 4) = Codec!Got(x, (at + 4) + Len(list))
  BY <1>2, <1>3, <1>4, ElementsReadExactly
<1>. QED
  BY <1>3, <1>5

-----------------------------------------------------------------------------
\* The fields of a payload.
LEMMA OuterTyped ==
  ASSUME NEW f, NEW x, OuterFits(f, x)
  PROVE  Codec!PutOuter(f, x) \in ByteStrings
<1>1. CASE PlainFits(f, x)
  BY <1>1, PieceTyped, PieceWritten
<1>2. CASE /\ f.kind = "many" /\ IsList(x) /\ Fits(Len(x), 4)
           /\ \A i \in 1 .. Len(x) : ElementFits(f.arg, x[i])
  <2>1. \A i \in 1 .. Len(x) : Codec!EncodeElement(f.arg, x[i]) \in ByteStrings
    BY <1>2, ElementTyped
  <2>. QED
    BY <1>2, <2>1, ElementsCounted
<1>. QED
  BY <1>1, <1>2 DEF OuterFits

\* A field of a payload is read back, wherever it lies.
LEMMA OuterHeld ==
  ASSUME NEW f, NEW x, OuterFits(f, x), NEW data, NEW at, Holds(data, at, Codec!PutOuter(f, x))
  PROVE  Codec!GetOuter(f, data, at) = Codec!Got(x, at + Len(Codec!PutOuter(f, x)))
<1>1. CASE PlainFits(f, x)
  <2>1. Codec!PutOuter(f, x) = Piece(f, x)
    BY <1>1, PieceTyped, PieceWritten
  <2>2. Holds(data, at, Piece(f, x))
    BY <2>1
  <2>3. Codec!GetOuter(f, data, at) = Codec!Got(x, at + Len(Piece(f, x)))
    BY <1>1, <2>2, PieceRead
  <2>. QED
    BY <2>1, <2>3
<1>2. CASE /\ f.kind = "many" /\ IsList(x) /\ Fits(Len(x), 4)
           /\ \A i \in 1 .. Len(x) : ElementFits(f.arg, x[i])
  BY <1>2, ElementsHeld
<1>. QED
  BY <1>1, <1>2 DEF OuterFits

\* The last of them.
LEMMA LastTyped ==
  ASSUME NEW f, NEW x, LastFits(f, x)
  PROVE  Codec!PutOuter(f, x) \in ByteStrings
<1>1. CASE OuterFits(f, x)
  BY <1>1, OuterTyped
<1>2. CASE f.kind \in {"unskipped", "newer"} /\ TextFits(f, x)
  BY <1>2, PieceWritten, FramedTyped DEF Piece
<1>3. CASE /\ f.kind = "many" /\ IsList(x) /\ Fits(Len(x), 4)
           /\ \A i \in 1 .. Len(x) : ElementFits(f.arg, x[i]) \/ (i = Len(x) /\ LastElementFits(f.arg, x[i]))
  <2>1. \A i \in 1 .. Len(x) : Codec!EncodeElement(f.arg, x[i]) \in ByteStrings
    BY <1>3, ElementTyped, LastElementTyped
  <2>. QED
    BY <1>3, <2>1, ElementsCounted
<1>. QED
  BY <1>1, <1>2, <1>3 DEF LastFits

\* A list of one element that ends unskipped is read back at the end of a stream.
LEMMA LastListHeld ==
  ASSUME NEW f, NEW x, f.kind = "many", IsList(x), Fits(Len(x), 4),
         \A i \in 1 .. Len(x) : ElementFits(f.arg, x[i]) \/ (i = Len(x) /\ LastElementFits(f.arg, x[i])),
         NEW data, NEW at, Holds(data, at, Codec!PutOuter(f, x))
  PROVE  \E a : Codec!GetOuter(f, data, at) = Codec!Got(x, a)
<1>. DEFINE layout == Codec!Repeated(f.arg, Len(x))
           list == EncodeElements(layout, x)
           start == at + 4
<1>1. \A i \in 1 .. Len(x) : Codec!EncodeElement(f.arg, x[i]) \in ByteStrings
  BY ElementTyped, LastElementTyped
<1>2. Alike(layout, x) /\ \A i \in 1 .. Len(x) : layout[i] = f.arg
  BY <1>1, ElementsTyped
<1>3. Holds(data, start, list) /\ Codec!GetOuter(f, data, at) = ReadElements(layout, data, start)
  BY <1>1, ElementsCounted
<1>. HIDE DEF layout, start
<1>4. ElementsReadable(layout, x, data)
  <2>. SUFFICES ASSUME NEW k \in 1 .. Len(layout)
       PROVE  /\ Codec!EncodeElement(layout[k], x[k]) \in ByteStrings
              /\ \A pos \in Nat : Holds(data, pos, Codec!EncodeElement(layout[k], x[k])) =>
                   \E a : /\ Codec!ReadElement(layout[k], data, pos) = Codec!Got(x[k], a)
                          /\ k < Len(layout) => a = pos + Len(Codec!EncodeElement(layout[k], x[k]))
    BY DEF ElementsReadable
  <2>1. k \in 1 .. Len(x) /\ layout[k] = f.arg /\ Len(x) = Len(layout)
    BY <1>2 DEF Alike
  <2>2. ASSUME NEW pos \in Nat, Holds(data, pos, Codec!EncodeElement(layout[k], x[k]))
        PROVE  \E a : /\ Codec!ReadElement(layout[k], data, pos) = Codec!Got(x[k], a)
                      /\ k < Len(layout) => a = pos + Len(Codec!EncodeElement(layout[k], x[k]))
    <3>1. CASE ElementFits(layout[k], x[k])
      BY <2>2, <3>1, ElementHeld
    <3>2. CASE k = Len(layout) /\ LastElementFits(layout[k], x[k])
      <4>1. \E a : Codec!ReadElement(layout[k], data, pos) = Codec!Got(x[k], a)
        BY <2>2, <3>2, LastElementHeld
      <4>2. ~(k < Len(layout))
        BY <3>2
      <4>. QED
        BY <4>1, <4>2
    <3>. QED
      BY <2>1, <3>1, <3>2
  <2>. QED
    BY <1>1, <2>1, <2>2
<1>5. \E a : /\ ReadElements(layout, data, start) = Codec!Got(x, a)
             /\ Len(layout) = 0 => a = start + Len(EncodeElements(layout, x))
             /\ Len(layout) # 0 =>
                  \E pos \in Nat :
                    LET k == Len(layout)
                    IN /\ Holds(data, pos, Codec!EncodeElement(layout[k], x[k]))
                       /\ pos + Len(Codec!EncodeElement(layout[k], x[k]))
                            = start + Len(EncodeElements(layout, x))
                       /\ Codec!ReadElement(layout[k], data, pos) = Codec!Got(x[k], a)
  BY <1>2, <1>3, <1>4, ElementsRead
<1>. QED
  BY <1>3, <1>5

\* The last field is read back from the end of a stream.
LEMMA LastHeld ==
  ASSUME NEW f, NEW x, LastFits(f, x), NEW data, NEW at, Holds(data, at, Codec!PutOuter(f, x))
  PROVE  \E a : Codec!GetOuter(f, data, at) = Codec!Got(x, a)
<1>1. CASE OuterFits(f, x)
  BY <1>1, OuterHeld
<1>2. CASE f.kind \in {"unskipped", "newer"} /\ TextFits(f, x) /\ f.arg > 0
  <2>1. Codec!PutOuter(f, x) = Framed(x, f.arg)
    BY <1>2, PieceWritten DEF Piece
  <2>2. Holds(data, at, Framed(x, f.arg))
    BY <2>1
  <2>3. /\ Codec!ReadText(data, at, f.arg, TRUE) = Codec!Got(x, at + Len(Framed(x, f.arg)))
        /\ Codec!ReadText(data, at, f.arg, FALSE) = Codec!Got(x, at + f.arg)
        /\ Len(Framed(x, f.arg)) = f.arg + Len(x)
    BY <1>2, <2>2, FieldHeld
  <2>4. CASE f.kind = "unskipped"
    <3>1. Codec!GetOuter(f, data, at) = Codec!ReadText(data, at, f.arg, FALSE)
      BY <2>4 DEF Codec!GetOuter, Codec!GetWith
    <3>. QED
      BY <2>3, <3>1
  <2>5. CASE f.kind = "newer"
    <3>1. at # Len(data)
      BY <1>2, <2>2, <2>3 DEF Holds, ByteStrings, TextFits
    <3>2. Codec!GetOuter(f, data, at) = Codec!ReadText(data, at, f.arg, TRUE)
      BY <2>5, <3>1 DEF Codec!GetOuter, Codec!GetWith
    <3>. QED
      BY <2>3, <3>2
  <2>. QED
    BY <1>2, <2>4, <2>5
<1>3. CASE /\ f.kind = "many" /\ IsList(x) /\ Fits(Len(x), 4)
           /\ \A i \in 1 .. Len(x) : ElementFits(f.arg, x[i]) \/ (i = Len(x) /\ LastElementFits(f.arg, x[i]))
  BY <1>3, LastListHeld
<1>. QED
  BY <1>1, <1>2, <1>3 DEF LastFits

\* Bytes written are held by the stream they are.
LEMMA HoldsItself ==
  ASSUME NEW data \in ByteStrings
  PROVE  Holds(data, 0, data)
BY DEF Holds, ByteStrings

\* A payload is a stream.
LEMMA EncodeTyped ==
  ASSUME NEW layout, NEW value, PayloadFits(layout, value)
  PROVE  /\ Codec!Encode(layout, value) \in ByteStrings
         /\ \A k \in 1 .. Len(layout) : Codec!PutOuter(layout[k], value[k]) \in ByteStrings
<1>. DEFINE p == [k \in 1 .. Len(layout) |-> Codec!PutOuter(layout[k], value[k])]
<1>1. ASSUME NEW k \in 1 .. Len(layout) PROVE Codec!PutOuter(layout[k], value[k]) \in ByteStrings
  BY OuterTyped, LastTyped DEF PayloadFits
<1>2. Len(layout) \in Nat /\ DOMAIN layout = 1 .. Len(layout)
  BY DEF PayloadFits, Alike, IsList
<1>3. p \in Seq(ByteStrings)
  BY <1>1, <1>2
<1>4. Codec!Encode(layout, value) = Codec!FlattenSeq(p)
  BY <1>2 DEF Codec!Encode, Codec!PutAll
<1>. HIDE DEF p
<1>. QED
  BY <1>1, <1>3, <1>4, FlatTyped

\* Every payload whose fields hold what they can carry is read back, whatever its layout.
THEOREM EveryPayloadIsReadBack ==
  ASSUME NEW layout, NEW value, PayloadFits(layout, value)
  PROVE  Codec!Decode(layout, Codec!Encode(layout, value)) = value
<1>. DEFINE data == Codec!Encode(layout, value)
<1>1. data \in ByteStrings /\ \A k \in 1 .. Len(layout) : Codec!PutOuter(layout[k], value[k]) \in ByteStrings
  BY EncodeTyped
<1>2. Holds(data, 0, Codec!Encode(layout, value))
  BY <1>1, HoldsItself
<1>. HIDE DEF data
<1>3. PayloadReadable(layout, value, data)
  <2>. SUFFICES ASSUME NEW k \in 1 .. Len(layout)
       PROVE  \A pos \in Nat : Holds(data, pos, Codec!PutOuter(layout[k], value[k])) =>
                \E a : /\ Codec!GetOuter(layout[k], data, pos) = Codec!Got(value[k], a)
                       /\ k < Len(layout) => a = pos + Len(Codec!PutOuter(layout[k], value[k]))
    BY <1>1 DEF PayloadReadable
  <2>. SUFFICES ASSUME NEW pos \in Nat, Holds(data, pos, Codec!PutOuter(layout[k], value[k]))
       PROVE  \E a : /\ Codec!GetOuter(layout[k], data, pos) = Codec!Got(value[k], a)
                     /\ k < Len(layout) => a = pos + Len(Codec!PutOuter(layout[k], value[k]))
    OBVIOUS
  <2>1. CASE OuterFits(layout[k], value[k])
    BY <2>1, OuterHeld
  <2>2. CASE k = Len(layout) /\ LastFits(layout[k], value[k])
    <3>1. \E a : Codec!GetOuter(layout[k], data, pos) = Codec!Got(value[k], a)
      BY <2>2, LastHeld
    <3>2. ~(k < Len(layout))
      BY <2>2
    <3>. QED
      BY <3>1, <3>2
  <2>. QED
    BY <2>1, <2>2 DEF PayloadFits
<1>4. Alike(layout, value)
  BY DEF PayloadFits
<1>5. \E a : /\ Codec!ReadFrom(layout, data, 0) = Codec!Got(value, a)
             /\ Len(layout) = 0 => a = 0 + Len(Codec!Encode(layout, value))
             /\ Len(layout) # 0 =>
                  \E pos \in Nat :
                    LET k == Len(layout)
                    IN /\ Holds(data, pos, Codec!PutOuter(layout[k], value[k]))
                       /\ pos + Len(Codec!PutOuter(layout[k], value[k]))
                            = 0 + Len(Codec!Encode(layout, value))
                       /\ Codec!GetOuter(layout[k], data, pos) = Codec!Got(value[k], a)
  BY <1>2, <1>3, <1>4, PayloadRead
<1>6. Codec!Decode(layout, data) = value
  BY <1>5 DEF Codec!Decode, Codec!Got
<1>. QED
  BY <1>6 DEF data

-----------------------------------------------------------------------------
\* The numbers and lengths that are sent fit their fields.
LEMMA SmallFits ==
  /\ \A w \in {1, 2, 4, 8} : \A n \in 0 .. 3 : Fits(n, w)
  /\ \A w \in {2, 4, 8} : \A n \in 0 .. Base + 2 : Fits(n, w)
  /\ \A n \in Nat : n < Base => Fits(n, 1)
<1>1. Base \in Nat /\ Base > 3
  BY StoresAssumption
<1>2. \A c \in Nat : c * Base \in Nat /\ c * Base >= c
  <2>. SUFFICES ASSUME NEW c \in Nat PROVE c * Base \in Nat /\ c * Base >= c
    OBVIOUS
  <2>1. c * Base = c + c * (Base - 1) /\ c * (Base - 1) \in Nat
    <3>1. Base - 1 \in Nat
      BY <1>1
    <3>. QED
      BY <1>1, <3>1
  <2>. QED
    BY <1>1, <2>1
<1>3. Base * Base >= Base + 12
  <2>1. Base * Base = 4 * Base + (Base - 4) * Base /\ (Base - 4) * Base \in Nat
    <3>1. Base - 4 \in Nat
      BY <1>1
    <3>. QED
      BY <1>1, <3>1
  <2>. QED
    BY <1>1, <2>1
<1>4. ASSUME NEW w \in {1, 2, 4, 8}
      PROVE  Capacity(w) \in Nat /\ Capacity(w) >= Base /\ (w = 1 \/ Capacity(w) >= Base * Base)
  <2>0. w \in Nat
    OBVIOUS
  <2>1. PICK c \in [0 .. w -> Nat] :
          c[0] = 1 /\ (\A k \in 1 .. w : c[k] = c[k - 1] * Base) /\ Capacity(w) = c[w]
    BY <2>0, Powers
  <2>2. c[1] = Base
    BY <1>1, <2>1
  <2>3. w # 1 => c[2] = Base * Base
    BY <1>1, <2>1, <2>2
  <2>. DEFINE T == {k \in 0 .. w : (k >= 1 => c[k] >= Base) /\ (k >= 2 => c[k] >= Base * Base)}
  <2>4. ASSUME NEW k \in 1 .. w, k - 1 \in T PROVE k \in T
    <3>1. CASE k = 1
      BY <2>2, <3>1, <1>1
    <3>2. CASE k = 2
      <4>1. c[2] = Base * Base /\ Base * Base \in Nat
        BY <1>1, <2>3, <3>2
      <4>. QED
        BY <1>1, <1>3, <3>2, <4>1
    <3>3. CASE k > 2
      <4>1. c[k] = c[k - 1] * Base /\ c[k - 1] \in Nat /\ c[k] \in Nat
        BY <2>1
      <4>2. c[k] >= c[k - 1]
        BY <1>2, <4>1
      <4>3. Base * Base \in Nat
        BY <1>1
      <4>4. c[k - 1] >= Base * Base /\ c[k - 1] >= Base
        BY <2>4, <3>3
      <4>. QED
        BY <1>1, <4>1, <4>2, <4>3, <4>4
    <3>. QED
      BY <3>1, <3>2, <3>3
  <2>5. 0 .. w \subseteq T
    <3>1. 0 \in T
      OBVIOUS
    <3>. HIDE DEF T
    <3>. QED
      BY <2>4, <3>1, FromZero
  <2>6. w \in T
    BY <2>5
  <2>. QED
    BY <2>1, <2>6
<1>5. Base * Base \in Nat
  BY <1>1
<1>6. ASSUME NEW w \in {1, 2, 4, 8}, NEW n \in 0 .. 3 PROVE Fits(n, w)
  BY <1>1, <1>4 DEF Fits
<1>7. ASSUME NEW w \in {2, 4, 8}, NEW n \in 0 .. Base + 2 PROVE Fits(n, w)
  <2>1. Capacity(w) \in Nat /\ Capacity(w) >= Base * Base
    BY <1>4
  <2>. QED
    BY <1>1, <1>3, <1>5, <2>1 DEF Fits
<1>8. ASSUME NEW n \in Nat, n < Base PROVE Fits(n, 1)
  BY <1>1, <1>4, <1>8 DEF Fits
<1>. QED
  BY <1>6, <1>7, <1>8

-----------------------------------------------------------------------------
\* The fields a layout is made of, by the depth they stand at.
PlainField(f) == (f.kind = "number" /\ f.arg \in {1, 2, 4, 8}) \/ (f.kind = "text" /\ f.arg = 4)
\* A field of an element.
MiddleField(f) ==
  PlainField(f) \/ (f.kind = "many" /\ IsList(f.arg) /\ \A k \in 1 .. Len(f.arg) : PlainField(f.arg[k]))
\* A field of a payload.
OuterField(f) ==
  PlainField(f) \/ (f.kind = "many" /\ IsList(f.arg) /\ \A k \in 1 .. Len(f.arg) : MiddleField(f.arg[k]))
\* A field only the last place of a layout may have.
EndingField(f) == f.kind \in {"unskipped", "newer"} /\ f.arg = 4
\* A layout whose values can be read back.
WellFormed(layout) ==
  /\ IsList(layout) /\ Len(layout) > 0
  /\ \A k \in 1 .. Len(layout) : OuterField(layout[k]) \/ (k = Len(layout) /\ EndingField(layout[k]))

\* The constructors of plain fields.
LEMMA PlainFields ==
  ASSUME NEW f
  PROVE  /\ PlainField(Codec!U8(f)) /\ PlainField(Codec!U16(f)) /\ PlainField(Codec!U32(f))
         /\ PlainField(Codec!U64(f)) /\ PlainField(Codec!Flag(f)) /\ PlainField(Codec!Text(f))
BY DEF Codec!U8, Codec!U16, Codec!U32, Codec!U64, Codec!Flag, Codec!Text, Codec!Field, PlainField

\* The constructors of fields for the last place.
LEMMA EndingFields ==
  ASSUME NEW f
  PROVE  EndingField(Codec!TextUnskipped(f)) /\ EndingField(Codec!Newer(f))
BY DEF Codec!TextUnskipped, Codec!Newer, Codec!Field, EndingField

\* The constructors of fields, inside an element.
LEMMA MiddleFields ==
  ASSUME NEW f
  PROVE  /\ MiddleField(Codec!U8(f)) /\ MiddleField(Codec!U16(f)) /\ MiddleField(Codec!U32(f))
         /\ MiddleField(Codec!U64(f)) /\ MiddleField(Codec!Flag(f)) /\ MiddleField(Codec!Text(f))
BY PlainFields DEF MiddleField

\* The constructors of fields, in a payload.
LEMMA OuterFields ==
  ASSUME NEW f
  PROVE  /\ OuterField(Codec!U8(f)) /\ OuterField(Codec!U16(f)) /\ OuterField(Codec!U32(f))
         /\ OuterField(Codec!U64(f)) /\ OuterField(Codec!Flag(f)) /\ OuterField(Codec!Text(f))
BY PlainFields DEF OuterField

\* A list inside an element.
LEMMA ManyMiddle ==
  ASSUME NEW f, NEW layout, IsList(layout), \A k \in 1 .. Len(layout) : PlainField(layout[k])
  PROVE  MiddleField(Codec!Many(f, layout))
BY DEF Codec!Many, Codec!Field, MiddleField

\* A list in a payload.
LEMMA ManyOuter ==
  ASSUME NEW f, NEW layout, IsList(layout), \A k \in 1 .. Len(layout) : MiddleField(layout[k])
  PROVE  OuterField(Codec!Many(f, layout))
BY DEF Codec!Many, Codec!Field, OuterField

\* Every payload of the protocol is well formed, but for the one a reader takes the notes of
\* devices from: it stays in front of each of them.
LEMMA PlainLayouts ==
  /\ WellFormed(Codec!DeviceInfo)
  /\ WellFormed(Codec!MouseEvent)
  /\ WellFormed(Codec!KeyEvent)
  /\ WellFormed(Codec!ScreenFrame)
  /\ WellFormed(Codec!ScreenTile)
  /\ WellFormed(Codec!ScreenAck)
  /\ WellFormed(Codec!ClipboardData)
  /\ WellFormed(Codec!MonitorInfo)
  /\ WellFormed(Codec!ChatMessage)
  /\ WellFormed(Codec!EncryptionKeyExchange)
  /\ WellFormed(Codec!TerminalData)
  /\ WellFormed(Codec!RecordControl)
  /\ WellFormed(Codec!SysInfo)
  /\ WellFormed(Codec!ProcessKillRequest)
  /\ WellFormed(Codec!ProcessKillResponse)
  /\ WellFormed(Codec!ProcessStartRequest)
  /\ WellFormed(Codec!ProcessStartResponse)
  /\ WellFormed(Codec!PrivacyScreen)
  /\ WellFormed(Codec!QualityInfo)
  /\ WellFormed(Codec!QualityRequest)
  /\ WellFormed(Codec!FileRequest)
  /\ WellFormed(Codec!FileData)
  /\ WellFormed(Codec!FileChecksum)
  /\ WellFormed(Codec!FileBrowserRequest)
  /\ WellFormed(Codec!FileOpRequest)
  /\ WellFormed(Codec!FileOpResponse)
  /\ WellFormed(Codec!SyncPair)
  /\ WellFormed(Codec!SyncNotify)
  /\ WellFormed(Codec!Consent)
  /\ WellFormed(Codec!PermissionDenied)
  /\ WellFormed(Codec!PermissionToggleResponse)
  /\ WellFormed(Codec!PermissionToggleRequest)
  /\ WellFormed(Codec!UserMutation)
  /\ WellFormed(Codec!AuditLogResponse)
  /\ WellFormed(Codec!TemporaryGrant)
  /\ WellFormed(Codec!VoiceMessage)
  /\ WellFormed(Codec!VideoMessage)
  /\ WellFormed(Codec!LocationMessage)
  /\ WellFormed(Codec!CardMessage)
  /\ WellFormed(Codec!CallInvite)
  /\ WellFormed(Codec!CallAccept)
  /\ WellFormed(Codec!CallReject)
  /\ WellFormed(Codec!CallEnd)
  /\ WellFormed(Codec!IceCandidate)
  /\ WellFormed(Codec!VideoCallStart)
  /\ WellFormed(Codec!VideoCallStop)
  /\ WellFormed(Codec!VideoCallFrame)
  /\ WellFormed(Codec!ScreenShareStart)
  /\ WellFormed(Codec!ScreenShareStop)
  /\ WellFormed(Codec!ScreenShareFrame)
  /\ WellFormed(Codec!GroupAnnouncement)
  /\ WellFormed(Codec!GroupFile)
  /\ WellFormed(Codec!GroupTodo)
  /\ WellFormed(Codec!SyncRequest)
  /\ WellFormed(Codec!SyncAck)
  /\ WellFormed(Codec!E2EEKeyExchange)
  /\ WellFormed(Codec!E2EEKeyResponse)
  /\ WellFormed(Codec!E2EESessionEstablished)
  /\ WellFormed(Codec!E2EEMessage)
  /\ WellFormed(Codec!E2EEAck)
<1>1. /\ WellFormed(Codec!DeviceInfo)
      /\ WellFormed(Codec!MouseEvent)
      /\ WellFormed(Codec!KeyEvent)
      /\ WellFormed(Codec!ScreenFrame)
      /\ WellFormed(Codec!ScreenTile)
      /\ WellFormed(Codec!ScreenAck)
      /\ WellFormed(Codec!ClipboardData)
      /\ WellFormed(Codec!MonitorInfo)
  BY OuterFields, EndingFields DEF Codec!DeviceInfo, Codec!MouseEvent, Codec!KeyEvent, Codec!ScreenFrame,
     Codec!ScreenTile, Codec!ScreenAck, Codec!ClipboardData, Codec!MonitorInfo, WellFormed, IsList
<1>2. /\ WellFormed(Codec!ChatMessage)
      /\ WellFormed(Codec!EncryptionKeyExchange)
      /\ WellFormed(Codec!TerminalData)
      /\ WellFormed(Codec!RecordControl)
      /\ WellFormed(Codec!SysInfo)
      /\ WellFormed(Codec!ProcessKillRequest)
      /\ WellFormed(Codec!ProcessKillResponse)
      /\ WellFormed(Codec!ProcessStartRequest)
  BY OuterFields, EndingFields DEF Codec!ChatMessage, Codec!EncryptionKeyExchange, Codec!TerminalData,
     Codec!RecordControl, Codec!SysInfo, Codec!ProcessKillRequest, Codec!ProcessKillResponse,
     Codec!ProcessStartRequest, WellFormed, IsList
<1>3. /\ WellFormed(Codec!ProcessStartResponse)
      /\ WellFormed(Codec!PrivacyScreen)
      /\ WellFormed(Codec!QualityInfo)
      /\ WellFormed(Codec!QualityRequest)
      /\ WellFormed(Codec!FileRequest)
      /\ WellFormed(Codec!FileData)
      /\ WellFormed(Codec!FileChecksum)
      /\ WellFormed(Codec!FileBrowserRequest)
  BY OuterFields, EndingFields DEF Codec!ProcessStartResponse, Codec!PrivacyScreen, Codec!QualityInfo,
     Codec!QualityRequest, Codec!FileRequest, Codec!FileData, Codec!FileChecksum, Codec!FileBrowserRequest,
     WellFormed, IsList
<1>4. /\ WellFormed(Codec!FileOpRequest)
      /\ WellFormed(Codec!FileOpResponse)
      /\ WellFormed(Codec!SyncPair)
      /\ WellFormed(Codec!SyncNotify)
      /\ WellFormed(Codec!Consent)
      /\ WellFormed(Codec!PermissionDenied)
      /\ WellFormed(Codec!PermissionToggleResponse)
      /\ WellFormed(Codec!PermissionToggleRequest)
  BY OuterFields, EndingFields DEF Codec!FileOpRequest, Codec!FileOpResponse, Codec!SyncPair,
     Codec!SyncNotify, Codec!Consent, Codec!PermissionDenied, Codec!PermissionToggleResponse,
     Codec!PermissionToggleRequest, WellFormed, IsList
<1>5. /\ WellFormed(Codec!UserMutation)
      /\ WellFormed(Codec!AuditLogResponse)
      /\ WellFormed(Codec!TemporaryGrant)
      /\ WellFormed(Codec!VoiceMessage)
      /\ WellFormed(Codec!VideoMessage)
      /\ WellFormed(Codec!LocationMessage)
      /\ WellFormed(Codec!CardMessage)
      /\ WellFormed(Codec!CallInvite)
  BY OuterFields, EndingFields DEF Codec!UserMutation, Codec!AuditLogResponse, Codec!TemporaryGrant,
     Codec!VoiceMessage, Codec!VideoMessage, Codec!LocationMessage, Codec!CardMessage, Codec!CallInvite,
     WellFormed, IsList
<1>6. /\ WellFormed(Codec!CallAccept)
      /\ WellFormed(Codec!CallReject)
      /\ WellFormed(Codec!CallEnd)
      /\ WellFormed(Codec!IceCandidate)
      /\ WellFormed(Codec!VideoCallStart)
      /\ WellFormed(Codec!VideoCallStop)
      /\ WellFormed(Codec!VideoCallFrame)
      /\ WellFormed(Codec!ScreenShareStart)
  BY OuterFields, EndingFields DEF Codec!CallAccept, Codec!CallReject, Codec!CallEnd, Codec!IceCandidate,
     Codec!VideoCallStart, Codec!VideoCallStop, Codec!VideoCallFrame, Codec!ScreenShareStart, WellFormed,
     IsList
<1>7. /\ WellFormed(Codec!ScreenShareStop)
      /\ WellFormed(Codec!ScreenShareFrame)
      /\ WellFormed(Codec!GroupAnnouncement)
      /\ WellFormed(Codec!GroupFile)
      /\ WellFormed(Codec!GroupTodo)
      /\ WellFormed(Codec!SyncRequest)
      /\ WellFormed(Codec!SyncAck)
      /\ WellFormed(Codec!E2EEKeyExchange)
  BY OuterFields, EndingFields DEF Codec!ScreenShareStop, Codec!ScreenShareFrame, Codec!GroupAnnouncement,
     Codec!GroupFile, Codec!GroupTodo, Codec!SyncRequest, Codec!SyncAck, Codec!E2EEKeyExchange, WellFormed,
     IsList
<1>8. /\ WellFormed(Codec!E2EEKeyResponse)
      /\ WellFormed(Codec!E2EESessionEstablished)
      /\ WellFormed(Codec!E2EEMessage)
      /\ WellFormed(Codec!E2EEAck)
  BY OuterFields, EndingFields DEF Codec!E2EEKeyResponse, Codec!E2EESessionEstablished, Codec!E2EEMessage,
     Codec!E2EEAck, WellFormed, IsList
<1>. QED
  BY <1>1, <1>2, <1>3, <1>4, <1>5, <1>6, <1>7, <1>8

\* The layouts with lists.
LEMMA ListLayouts ==
  /\ WellFormed(Codec!ScreenTileRequest)
  /\ WellFormed(Codec!MonitorList)
  /\ WellFormed(Codec!ProcessListResponse)
  /\ WellFormed(Codec!AnnotationUpdate)
  /\ WellFormed(Codec!FileBrowserResponse)
  /\ WellFormed(Codec!UserListResponse)
  /\ WellFormed(Codec!MergeForwardMessage)
  /\ WellFormed(Codec!GroupMention)
  /\ WellFormed(Codec!GroupVote)
  /\ WellFormed(Codec!GroupAlbum)
  /\ WellFormed(Codec!SyncSnapshot)
<1>1. WellFormed(Codec!ScreenTileRequest)
  <2>1. OuterField(Codec!Many("tiles", << Codec!U32("x"), Codec!U32("y") >>))
    BY MiddleFields, ManyOuter DEF IsList
  <2>. QED
    BY <2>1, OuterFields DEF Codec!ScreenTileRequest, WellFormed, IsList
<1>2. WellFormed(Codec!MonitorList)
  <2>1. OuterField(Codec!Many("monitors", << Codec!Text("info") >>))
    BY MiddleFields, ManyOuter DEF IsList
  <2>. QED
    BY <2>1, OuterFields DEF Codec!MonitorList, WellFormed, IsList
<1>3. WellFormed(Codec!ProcessListResponse)
  <2>1. OuterField(Codec!Many("entries",
                  << Codec!U64("pid"), Codec!Text("name"), Codec!U64("memoryBytes") >>))
    BY MiddleFields, ManyOuter DEF IsList
  <2>. QED
    BY <2>1, OuterFields DEF Codec!ProcessListResponse, WellFormed, IsList
<1>4. WellFormed(Codec!AnnotationUpdate)
  <2>1. MiddleField(Codec!Many("points", << Codec!U32("x"), Codec!U32("y") >>))
    BY PlainFields, ManyMiddle DEF IsList
  <2>2. OuterField(Codec!Many("strokes",
                  << Codec!U32("color"), Codec!U32("width"), Codec!Many("points", <<
                  Codec!U32("x"), Codec!U32("y") >>) >>))
    BY MiddleFields, ManyOuter, <2>1 DEF IsList
  <2>. QED
    BY <2>2, OuterFields DEF Codec!AnnotationUpdate, WellFormed, IsList
<1>5. WellFormed(Codec!FileBrowserResponse)
  <2>1. OuterField(Codec!Many("entries", Codec!FileBrowserEntry))
    BY MiddleFields, ManyOuter DEF IsList, Codec!FileBrowserEntry
  <2>. QED
    BY <2>1, OuterFields DEF Codec!FileBrowserResponse, WellFormed, IsList
<1>6. WellFormed(Codec!UserListResponse)
  <2>1. OuterField(Codec!Many("users",
                  << Codec!Text("username"), Codec!U8("level"), Codec!Flag("enabled"),
                  Codec!U64("lastLogin") >>))
    BY MiddleFields, ManyOuter DEF IsList
  <2>. QED
    BY <2>1, OuterFields DEF Codec!UserListResponse, WellFormed, IsList
<1>7. WellFormed(Codec!MergeForwardMessage)
  <2>1. OuterField(Codec!Many("messages",
                  << Codec!Text("messageId"), Codec!Text("senderId"), Codec!Text("senderName"),
                  Codec!Text("content"), Codec!U64("timestamp"), Codec!U32("msgType") >>))
    BY MiddleFields, ManyOuter DEF IsList
  <2>. QED
    BY <2>1, OuterFields DEF Codec!MergeForwardMessage, WellFormed, IsList
<1>8. WellFormed(Codec!GroupMention)
  <2>1. OuterField(Codec!Many("mentionedMemberIds", << Codec!Text("id") >>))
    BY MiddleFields, ManyOuter DEF IsList
  <2>2. OuterField(Codec!Many("mentionedMemberNames", << Codec!Text("name") >>))
    BY MiddleFields, ManyOuter DEF IsList
  <2>. QED
    BY <2>1, <2>2, OuterFields DEF Codec!GroupMention, WellFormed, IsList
<1>9. WellFormed(Codec!GroupVote)
  <2>1. OuterField(Codec!Many("options", << Codec!Text("opt") >>))
    BY MiddleFields, ManyOuter DEF IsList
  <2>. QED
    BY <2>1, OuterFields DEF Codec!GroupVote, WellFormed, IsList
<1>10. WellFormed(Codec!GroupAlbum)
  <2>1. OuterField(Codec!Many("fileIds", << Codec!Text("id") >>))
    BY MiddleFields, ManyOuter DEF IsList
  <2>2. OuterField(Codec!Many("fileNames", << Codec!Text("name") >>))
    BY MiddleFields, ManyOuter DEF IsList
  <2>. QED
    BY <2>1, <2>2, OuterFields DEF Codec!GroupAlbum, WellFormed, IsList
<1>11. WellFormed(Codec!SyncSnapshot)
  <2>1. OuterField(Codec!Many("devices",
                  << Codec!Text("deviceId"), Codec!Text("name"), Codec!Text("ip"),
                  Codec!U16("port"), Codec!U64("lastSeen"), Codec!U64("updatedAt"),
                  Codec!Flag("isFriend") >>))
    BY MiddleFields, ManyOuter DEF IsList
  <2>2. MiddleField(Codec!Many("memberIds", << Codec!Text("id") >>))
    BY PlainFields, ManyMiddle DEF IsList
  <2>3. MiddleField(Codec!Many("memberNames", << Codec!Text("name") >>))
    BY PlainFields, ManyMiddle DEF IsList
  <2>4. OuterField(Codec!Many("groups",
                  << Codec!Text("groupId"), Codec!Text("name"), Codec!Many("memberIds", <<
                  Codec!Text("id") >>), Codec!Many("memberNames", << Codec!Text("name") >>),
                  Codec!U64("createdAt"), Codec!U64("updatedAt") >>))
    BY MiddleFields, ManyOuter, <2>2, <2>3 DEF IsList
  <2>5. OuterField(Codec!Many("settings",
                  << Codec!Text("key"), Codec!Text("value"), Codec!U64("updatedAt") >>))
    BY MiddleFields, ManyOuter DEF IsList
  <2>6. OuterField(Codec!Many("messages",
                  << Codec!Text("messageId"), Codec!Text("senderId"), Codec!Text("senderName"),
                  Codec!Text("senderIp"), Codec!Text("content"), Codec!U64("timestamp"),
                  Codec!Flag("isFile"), Codec!Text("filePath"), Codec!U64("fileSize"),
                  Codec!Flag("isDirectory"), Codec!Flag("isImage"), Codec!Text("imageFileName"),
                  Codec!Text("replyTo"), Codec!Text("replyContent"), Codec!Text("recallId"),
                  Codec!Flag("isRecalled"), Codec!Text("targetId"), Codec!Flag("isGroup"),
                  Codec!Flag("isRead"), Codec!Text("readBy") >>))
    BY SMTT(30), MiddleFields, ManyOuter DEF IsList
  <2>. QED
    BY <2>1, <2>4, <2>5, <2>6, OuterFields DEF Codec!SyncSnapshot, WellFormed, IsList
<1>. QED
  BY <1>1, <1>2, <1>3, <1>4, <1>5, <1>6, <1>7, <1>8, <1>9, <1>10, <1>11

\* Every layout but that of the device permissions is well formed.
LEMMA EveryLayout ==
  /\ Len(Codec!Layouts) = 72 /\ DOMAIN Codec!Layouts = 1 .. 72
  /\ \A k \in DOMAIN Codec!Layouts :
       WellFormed(Codec!Layouts[k]) \/ Codec!Layouts[k] = Codec!DevicePermissionResponse
BY PlainLayouts, ListLayouts DEF Codec!Layouts

-----------------------------------------------------------------------------
\* The values that are sent fit the fields of their layouts.
EmptyValue(f) == IF f.kind = "number" THEN 0 ELSE << >>

\* The texts that are sent fit their lengths.
LEMMA TextsFit ==
  ASSUME NEW f, f.arg = 4, NEW x, x \in {<< >>, << 1, 2 >>}
  PROVE  TextFits(f, x)
<1>1. x \in ByteStrings /\ Len(x) \in 0 .. 3
  <2>1. CASE x = << >>
    BY <2>1 DEF ByteStrings
  <2>2. CASE x = << 1, 2 >>
    BY <2>2 DEF ByteStrings
  <2>. QED
    BY <2>1, <2>2
<1>2. Fits(Len(x), 4)
  BY <1>1, SmallFits
<1>. QED
  BY <1>1, <1>2 DEF TextFits

\* The values of plain fields fit.
LEMMA PlainFilled ==
  ASSUME NEW f, PlainField(f), NEW x,
         x = EmptyValue(f) \/ x \in Codec!FilledInner(f) \/ x \in Codec!FilledElement(f) \/ x \in Codec!Filled(f)
  PROVE  PlainFits(f, x)
<1>1. CASE f.kind = "number" /\ f.arg \in {1, 2, 4, 8}
  <2>1. x = 0 \/ x = IF f.arg = 1 THEN 1 ELSE Base + 2
    <3>1. x \in Codec!FilledInner(f) => x = IF f.arg = 1 THEN 1 ELSE Base + 2
      BY <1>1 DEF Codec!FilledInner, Codec!FilledWith
    <3>2. x \in Codec!FilledElement(f) => x = IF f.arg = 1 THEN 1 ELSE Base + 2
      BY <1>1 DEF Codec!FilledElement, Codec!FilledWith
    <3>3. x \in Codec!Filled(f) => x = IF f.arg = 1 THEN 1 ELSE Base + 2
      BY <1>1 DEF Codec!Filled, Codec!FilledWith
    <3>. QED
      BY <1>1, <3>1, <3>2, <3>3 DEF EmptyValue
  <2>2. Fits(x, f.arg)
    <3>1. Base + 2 \in 0 .. Base + 2
      BY StoresAssumption
    <3>. QED
      BY <1>1, <2>1, <3>1, SmallFits
  <2>. QED
    BY <1>1, <2>2 DEF PlainFits
<1>2. CASE f.kind = "text" /\ f.arg = 4
  <2>1. x \in {<< >>, << 1, 2 >>}
    <3>1. x \in Codec!FilledInner(f) => x = << 1, 2 >>
      BY <1>2 DEF Codec!FilledInner, Codec!FilledWith
    <3>2. x \in Codec!FilledElement(f) => x = << 1, 2 >>
      BY <1>2 DEF Codec!FilledElement, Codec!FilledWith
    <3>3. x \in Codec!Filled(f) => x = << 1, 2 >>
      BY <1>2 DEF Codec!Filled, Codec!FilledWith
    <3>. QED
      BY <1>2, <3>1, <3>2, <3>3 DEF EmptyValue
  <2>. QED
    BY <1>2, <2>1, TextsFit DEF PlainFits
<1>. QED
  BY <1>1, <1>2 DEF PlainField

\* A record with one field that is not empty.
LEMMA EmptyRecord ==
  ASSUME NEW layout, IsList(layout)
  PROVE  /\ Alike(layout, Codec!EmptyOf(layout))
         /\ Codec!EmptyOf(layout) = [k \in 1 .. Len(layout) |-> EmptyValue(layout[k])]
<1>1. DOMAIN layout = 1 .. Len(layout) /\ Len(layout) \in Nat
  BY DEF IsList
<1>. DEFINE none == [k \in 1 .. Len(layout) |-> EmptyValue(layout[k])]
<1>2. Codec!EmptyOf(layout) = none
  BY <1>1 DEF Codec!EmptyOf, EmptyValue
<1>3. none = [k \in 1 .. Len(layout) |-> none[k]] /\ Len(none) = Len(layout)
  BY <1>1
<1>. HIDE DEF none
<1>4. Alike(layout, none)
  BY <1>1, <1>3 DEF Alike, IsList
<1>. QED
  BY <1>2, <1>4 DEF none

\* A record that has x in one place and nothing in the others.
IsRecord(layout, i, x, e) ==
  /\ Alike(layout, e)
  /\ \A k \in 1 .. Len(layout) : e[k] = IF k = i THEN x ELSE EmptyValue(layout[k])

\* Such a record fits when its parts do.
LEMMA RecordWith ==
  ASSUME NEW layout, IsList(layout), NEW i \in 1 .. Len(layout), NEW x
  PROVE  IsRecord(layout, i, x, [Codec!EmptyOf(layout) EXCEPT ![i] = x])
<1>1. DOMAIN layout = 1 .. Len(layout) /\ Len(layout) \in Nat
  BY DEF IsList
<1>. DEFINE none == [k \in 1 .. Len(layout) |-> EmptyValue(layout[k])]
           e == [none EXCEPT ![i] = x]
           n == Len(layout)
<1>2. e = [Codec!EmptyOf(layout) EXCEPT ![i] = x]
  <2>1. none = Codec!EmptyOf(layout)
    BY EmptyRecord
  <2>. HIDE DEF none
  <2>. QED
    BY <2>1
<1>3. e = [k \in 1 .. n |-> IF k = i THEN x ELSE EmptyValue(layout[k])]
  <2>1. e = [k \in 1 .. n |-> IF k = i THEN x ELSE none[k]]
    <3>1. none = [k \in 1 .. n |-> none[k]]
      OBVIOUS
    <3>. HIDE DEF none, n
    <3>. QED
      BY <3>1
  <2>2. \A k \in 1 .. n : none[k] = EmptyValue(layout[k])
    OBVIOUS
  <2>. HIDE DEF none, n, e
  <2>. QED
    BY <2>1, <2>2
<1>. HIDE DEF e
<1>4. \A k \in 1 .. n : e[k] = IF k = i THEN x ELSE EmptyValue(layout[k])
  BY <1>3
<1>5. e = [k \in 1 .. n |-> e[k]] /\ Len(e) = n
  <2>. HIDE DEF n
  <2>1. n \in Nat
    BY <1>1 DEF n
  <2>. QED
    BY <1>3, <1>4, <2>1
<1>6. Alike(layout, e)
  BY <1>1, <1>5 DEF Alike, IsList
<1>. QED
  BY <1>2, <1>4, <1>6 DEF IsRecord

\* The lists of such records that are sent.
OneOrTwoOf(e, none, x) ==
  IsList(x) /\ Fits(Len(x), 4) /\ Len(x) \in 0 .. 2 /\ \A k \in 1 .. Len(x) : x[k] \in {e, none}

\* A list of one or two has elements of both kinds and no other.
LEMMA OneOrTwo ==
  ASSUME NEW e, NEW none, NEW x, x \in {<< >>, << e >>, << e, none >>, << none, e >>}
  PROVE  OneOrTwoOf(e, none, x)
<1>1. x \in Seq({e, none}) /\ Len(x) \in 0 .. 2
  <2>1. CASE x = << >>
    BY <2>1
  <2>2. CASE x = << e >>
    BY <2>2
  <2>3. CASE x = << e, none >>
    BY <2>3
  <2>4. CASE x = << none, e >>
    BY <2>4
  <2>. QED
    BY <2>1, <2>2, <2>3, <2>4
<1>2. IsList(x) /\ \A i \in 1 .. Len(x) : x[i] \in {e, none}
  BY <1>1 DEF IsList
<1>3. Fits(Len(x), 4)
  <2>1. Len(x) \in 0 .. 3
    BY <1>1
  <2>. QED
    BY <2>1, SmallFits
<1>. QED
  BY <1>1, <1>2, <1>3 DEF OneOrTwoOf

\* The values sent in plain fields of an inner record.
LEMMA InnerFilled ==
  ASSUME NEW layout, IsList(layout), \A k \in 1 .. Len(layout) : PlainField(layout[k]),
         NEW i \in 1 .. Len(layout), NEW x \in Codec!FilledInner(layout[i])
  PROVE  /\ InnerFits(layout, Codec!EmptyOf(layout))
         /\ InnerFits(layout, [Codec!EmptyOf(layout) EXCEPT ![i] = x])
<1>. DEFINE none == Codec!EmptyOf(layout)
           e == [none EXCEPT ![i] = x]
<1>1. Alike(layout, none) /\ \A k \in 1 .. Len(layout) : none[k] = EmptyValue(layout[k])
  BY EmptyRecord
<1>2. Alike(layout, e) /\ \A k \in 1 .. Len(layout) : e[k] = IF k = i THEN x ELSE EmptyValue(layout[k])
  <2>1. IsRecord(layout, i, x, e)
    BY RecordWith
  <2>. HIDE DEF e
  <2>. QED
    BY <2>1 DEF IsRecord
<1>. HIDE DEF none, e
<1>3. ASSUME NEW k \in 1 .. Len(layout) PROVE PlainFits(layout[k], none[k]) /\ PlainFits(layout[k], e[k])
  BY <1>1, <1>2, PlainFilled
<1>. QED
  BY <1>1, <1>2, <1>3 DEF InnerFits, e, none

\* The values sent in the fields of an element.
LEMMA MiddleFilled ==
  ASSUME NEW f, MiddleField(f), NEW x, x = EmptyValue(f) \/ x \in Codec!FilledElement(f)
  PROVE  MiddleFits(f, x)
<1>1. CASE PlainField(f)
  BY <1>1, PlainFilled DEF MiddleFits
<1>2. CASE f.kind = "many" /\ IsList(f.arg) /\ \A k \in 1 .. Len(f.arg) : PlainField(f.arg[k])
  <2>. DEFINE layout == f.arg
             none == Codec!EmptyOf(layout)
  <2>1. CASE x = EmptyValue(f)
    <3>1. x = << >>
      BY <1>2, <2>1 DEF EmptyValue
    <3>2. IsList(x) /\ Fits(Len(x), 4) /\ Len(x) = 0
      BY <3>1, SmallFits DEF IsList
    <3>. QED
      BY <1>2, <3>2 DEF MiddleFits
  <2>2. CASE x \in Codec!FilledElement(f)
    <3>1. PICK i \in DOMAIN layout : \E y \in Codec!FilledInner(layout[i]) :
            LET e == [none EXCEPT ![i] = y] IN x \in {<< e >>, << e, none >>, << none, e >>}
      <4>1. Codec!FilledElement(f)
              = UNION {UNION {LET e == [none EXCEPT ![i] = y] IN {<< e >>, << e, none >>, << none, e >>} :
                                y \in Codec!FilledInner(layout[i])} : i \in DOMAIN layout}
        BY <1>2 DEF Codec!FilledElement, Codec!FilledWith
      <4>. HIDE DEF none, layout
      <4>. QED
        BY <2>2, <4>1
    <3>2. PICK y \in Codec!FilledInner(layout[i]) :
            LET e == [none EXCEPT ![i] = y] IN x \in {<< e >>, << e, none >>, << none, e >>}
      BY <3>1
    <3>. DEFINE e == [none EXCEPT ![i] = y]
    <3>3. IsList(layout) /\ i \in 1 .. Len(layout)
      BY <1>2, <3>1 DEF IsList
    <3>. HIDE DEF layout
    <3>4. InnerFits(layout, none) /\ InnerFits(layout, e)
      <4>1. \A k \in 1 .. Len(layout) : PlainField(layout[k])
        BY <1>2 DEF layout
      <4>. QED
        BY <3>2, <3>3, <4>1, InnerFilled
    <3>5. IsList(x) /\ Fits(Len(x), 4) /\ \A k \in 1 .. Len(x) : x[k] \in {e, none}
      <4>1. x \in {<< >>, << e >>, << e, none >>, << none, e >>}
        BY <3>2
      <4>. HIDE DEF e, none
      <4>2. OneOrTwoOf(e, none, x)
        BY <4>1, OneOrTwo
      <4>. QED
        BY <4>2 DEF OneOrTwoOf
    <3>. HIDE DEF e, none
    <3>6. \A k \in 1 .. Len(x) : InnerFits(f.arg, x[k])
      BY <3>4, <3>5 DEF layout
    <3>. QED
      BY <1>2, <3>5, <3>6 DEF MiddleFits
  <2>. QED
    BY <2>1, <2>2
<1>. QED
  BY <1>1, <1>2 DEF MiddleField

\* The elements that are sent.
LEMMA ElementFilled ==
  ASSUME NEW layout, IsList(layout), \A k \in 1 .. Len(layout) : MiddleField(layout[k]),
         NEW i \in 1 .. Len(layout), NEW x \in Codec!FilledElement(layout[i])
  PROVE  /\ ElementFits(layout, Codec!EmptyOf(layout))
         /\ ElementFits(layout, [Codec!EmptyOf(layout) EXCEPT ![i] = x])
<1>. DEFINE none == Codec!EmptyOf(layout)
           e == [none EXCEPT ![i] = x]
<1>1. Alike(layout, none) /\ \A k \in 1 .. Len(layout) : none[k] = EmptyValue(layout[k])
  BY EmptyRecord
<1>2. Alike(layout, e) /\ \A k \in 1 .. Len(layout) : e[k] = IF k = i THEN x ELSE EmptyValue(layout[k])
  <2>1. IsRecord(layout, i, x, e)
    BY RecordWith
  <2>. HIDE DEF e
  <2>. QED
    BY <2>1 DEF IsRecord
<1>. HIDE DEF none, e
<1>3. ASSUME NEW k \in 1 .. Len(layout) PROVE MiddleFits(layout[k], none[k]) /\ MiddleFits(layout[k], e[k])
  BY <1>1, <1>2, MiddleFilled
<1>. QED
  BY <1>1, <1>2, <1>3 DEF ElementFits, e, none

\* The values sent in the fields of a payload.
LEMMA OuterFilled ==
  ASSUME NEW f, OuterField(f), NEW x, x = EmptyValue(f) \/ x \in Codec!Filled(f)
  PROVE  OuterFits(f, x)
<1>1. CASE PlainField(f)
  BY <1>1, PlainFilled DEF OuterFits
<1>2. CASE f.kind = "many" /\ IsList(f.arg) /\ \A k \in 1 .. Len(f.arg) : MiddleField(f.arg[k])
  <2>. DEFINE layout == f.arg
             none == Codec!EmptyOf(layout)
  <2>1. CASE x = EmptyValue(f)
    <3>1. x = << >>
      BY <1>2, <2>1 DEF EmptyValue
    <3>2. IsList(x) /\ Fits(Len(x), 4) /\ Len(x) = 0
      BY <3>1, SmallFits DEF IsList
    <3>. QED
      BY <1>2, <3>2 DEF OuterFits
  <2>2. CASE x \in Codec!Filled(f)
    <3>1. PICK i \in DOMAIN layout : \E y \in Codec!FilledElement(layout[i]) :
            LET e == [none EXCEPT ![i] = y] IN x \in {<< e >>, << e, none >>, << none, e >>}
      <4>1. Codec!Filled(f)
              = UNION {UNION {LET e == [none EXCEPT ![i] = y] IN {<< e >>, << e, none >>, << none, e >>} :
                                y \in Codec!FilledElement(layout[i])} : i \in DOMAIN layout}
        BY <1>2 DEF Codec!Filled, Codec!FilledWith
      <4>. HIDE DEF none, layout
      <4>. QED
        BY <2>2, <4>1
    <3>2. PICK y \in Codec!FilledElement(layout[i]) :
            LET e == [none EXCEPT ![i] = y] IN x \in {<< e >>, << e, none >>, << none, e >>}
      BY <3>1
    <3>. DEFINE e == [none EXCEPT ![i] = y]
    <3>3. IsList(layout) /\ i \in 1 .. Len(layout)
      BY <1>2, <3>1 DEF IsList
    <3>. HIDE DEF layout
    <3>4. ElementFits(layout, none) /\ ElementFits(layout, e)
      <4>1. \A k \in 1 .. Len(layout) : MiddleField(layout[k])
        BY <1>2 DEF layout
      <4>. QED
        BY <3>2, <3>3, <4>1, ElementFilled
    <3>5. IsList(x) /\ Fits(Len(x), 4) /\ \A k \in 1 .. Len(x) : x[k] \in {e, none}
      <4>1. x \in {<< >>, << e >>, << e, none >>, << none, e >>}
        BY <3>2
      <4>. HIDE DEF e, none
      <4>2. OneOrTwoOf(e, none, x)
        BY <4>1, OneOrTwo
      <4>. QED
        BY <4>2 DEF OneOrTwoOf
    <3>. HIDE DEF e, none
    <3>6. \A k \in 1 .. Len(x) : ElementFits(f.arg, x[k])
      BY <3>4, <3>5 DEF layout
    <3>. QED
      BY <1>2, <3>5, <3>6 DEF OuterFits
  <2>. QED
    BY <2>1, <2>2
<1>. QED
  BY <1>1, <1>2 DEF OuterField

\* The values sent in the last field.
LEMMA EndingFilled ==
  ASSUME NEW f, EndingField(f), NEW x, x = EmptyValue(f) \/ x \in Codec!Filled(f)
  PROVE  LastFits(f, x) /\ TextFits(f, x)
<1>1. f.kind \in {"unskipped", "newer"} /\ f.arg = 4
  BY DEF EndingField
<1>2. x \in Codec!Filled(f) => x = << 1, 2 >>
  BY <1>1 DEF Codec!Filled, Codec!FilledWith
<1>3. x \in {<< >>, << 1, 2 >>}
  BY <1>1, <1>2 DEF EmptyValue
<1>. QED
  BY <1>1, <1>3, TextsFit DEF LastFits

\* What a sample holds at each place.
LEMMA SampleHolds ==
  ASSUME NEW layout, IsList(layout), NEW v \in Codec!Samples(layout)
  PROVE  /\ Alike(layout, v)
         /\ \A k \in 1 .. Len(layout) : v[k] = EmptyValue(layout[k]) \/ v[k] \in Codec!Filled(layout[k])
<1>. DEFINE none == Codec!EmptyOf(layout)
<1>1. PICK i \in DOMAIN layout, j \in DOMAIN layout :
        \E x \in Codec!Filled(layout[i]) : \E y \in Codec!Filled(layout[j]) : v = [none EXCEPT ![i] = x, ![j] = y]
  BY DEF Codec!Samples
<1>2. PICK x \in Codec!Filled(layout[i]) :
        \E y \in Codec!Filled(layout[j]) : v = [none EXCEPT ![i] = x, ![j] = y]
  BY <1>1
<1>3. PICK y \in Codec!Filled(layout[j]) : v = [none EXCEPT ![i] = x, ![j] = y]
  BY <1>2
<1>4. DOMAIN layout = 1 .. Len(layout) /\ Len(layout) \in Nat
  BY DEF IsList
<1>. DEFINE n == Len(layout)
<1>5. none = [k \in 1 .. n |-> none[k]] /\ \A k \in 1 .. n : none[k] = EmptyValue(layout[k])
  BY EmptyRecord
<1>. HIDE DEF none
<1>6. v = [k \in 1 .. n |-> IF k = j THEN y ELSE IF k = i THEN x ELSE none[k]]
  <2>. HIDE DEF n
  <2>. QED
    BY <1>3, <1>4, <1>5 DEF n
<1>7. /\ v = [k \in 1 .. n |-> v[k]] /\ Len(v) = n
      /\ \A k \in 1 .. n : v[k] = IF k = j THEN y ELSE IF k = i THEN x ELSE EmptyValue(layout[k])
  <2>. HIDE DEF n
  <2>1. n \in Nat
    BY <1>4 DEF n
  <2>. QED
    BY <1>5, <1>6, <2>1
<1>8. Alike(layout, v)
  BY <1>4, <1>7 DEF Alike, IsList
<1>. QED
  BY <1>7, <1>8

\* Every value that is sent in a well-formed layout fits it.
LEMMA SampleFits ==
  ASSUME NEW layout, WellFormed(layout), NEW v \in Codec!Samples(layout)
  PROVE  PayloadFits(layout, v)
<1>1. /\ Alike(layout, v)
      /\ \A k \in 1 .. Len(layout) : v[k] = EmptyValue(layout[k]) \/ v[k] \in Codec!Filled(layout[k])
  BY SampleHolds DEF WellFormed
<1>2. ASSUME NEW k \in 1 .. Len(layout)
      PROVE  OuterFits(layout[k], v[k]) \/ (k = Len(layout) /\ LastFits(layout[k], v[k]))
  BY <1>1, OuterFilled, EndingFilled DEF WellFormed
<1>. QED
  BY <1>1, <1>2 DEF PayloadFits

-----------------------------------------------------------------------------
\* The reader of the table of device permissions stays in front of the note of a
\* device: one device is read, of two the second would not be.
LEMMA DevicesFit ==
  ASSUME MaxDevices \in {0, 1},
         NEW v \in Codec!Samples(Codec!DevicePermissionResponse), Codec!Fits(Codec!DevicePermissionResponse, v)
  PROVE  PayloadFits(Codec!DevicePermissionResponse, v)
<1>. DEFINE element ==
             << Codec!Text("deviceId"), Codec!U32("level"), Codec!U32("capMask"), Codec!TextUnskipped("note") >>
           f == Codec!Many("devices", element)
           layout == << f >>
           none == Codec!EmptyOf(element)
<1>1. Codec!DevicePermissionResponse = layout
  BY DEF Codec!DevicePermissionResponse
<1>2. IsList(layout) /\ Len(layout) = 1 /\ layout[1] = f
  BY DEF IsList
<1>3. /\ IsList(element) /\ Len(element) = 4
      /\ \A k \in 1 .. 3 : PlainField(element[k])
      /\ EndingField(element[4]) /\ element[4].kind = "unskipped"
  <2>1. Codec!TextUnskipped("note").kind = "unskipped"
    BY DEF Codec!TextUnskipped, Codec!Field
  <2>. QED
    BY <2>1, PlainFields, EndingFields DEF IsList
<1>4. f.kind = "many" /\ f.arg = element
  BY DEF Codec!Many, Codec!Field
<1>. HIDE DEF element, f, layout
<1>5. /\ Alike(layout, v)
      /\ v[1] = EmptyValue(f) \/ v[1] \in Codec!Filled(f)
  BY <1>1, <1>2, SampleHolds
<1>6. Len(v[1]) <= 1
  BY <1>1 DEF Codec!Fits
<1>7. ASSUME NEW i \in DOMAIN element, NEW y \in Codec!FilledElement(element[i]),
             NEW e, e = [none EXCEPT ![i] = y]
      PROVE  LastElementFits(element, e)
  <2>1. i \in 1 .. 4 /\ i \in 1 .. Len(element)
    BY <1>3 DEF IsList
  <2>2. IsRecord(element, i, y, e)
    BY <1>3, <1>7, <2>1, RecordWith
  <2>3. /\ Alike(element, e)
        /\ \A k \in 1 .. 4 : e[k] = IF k = i THEN y ELSE EmptyValue(element[k])
    BY <1>3, <2>2 DEF IsRecord
  <2>4. ASSUME NEW k \in 1 .. 3 PROVE MiddleFits(element[k], e[k])
    <3>1. e[k] = EmptyValue(element[k]) \/ e[k] \in Codec!FilledElement(element[k])
      BY <2>3
    <3>2. PlainField(element[k])
      BY <1>3
    <3>3. PlainFits(element[k], e[k])
      BY <3>1, <3>2, PlainFilled
    <3>. QED
      BY <3>3 DEF MiddleFits
  <2>5. TextFits(element[4], e[4])
    <3>1. e[4] = EmptyValue(element[4]) \/ e[4] \in Codec!FilledElement(element[4])
      BY <2>3
    <3>2. element[4].kind = "unskipped" /\ element[4].arg = 4
      BY <1>3 DEF EndingField
    <3>3. e[4] \in Codec!FilledElement(element[4]) => e[4] = << 1, 2 >>
      BY <3>2 DEF Codec!FilledElement, Codec!FilledWith
    <3>4. e[4] \in {<< >>, << 1, 2 >>}
      BY <3>1, <3>2, <3>3 DEF EmptyValue
    <3>. QED
      BY <3>2, <3>4, TextsFit
  <2>. QED
    BY <1>3, <2>3, <2>4, <2>5 DEF LastElementFits
<1>8. ASSUME v[1] \in Codec!Filled(f) PROVE LastFits(f, v[1])
  <2>1. Codec!Filled(f)
          = UNION {UNION {LET e == [none EXCEPT ![i] = y] IN {<< e >>, << e, none >>, << none, e >>} :
                            y \in Codec!FilledElement(element[i])} : i \in DOMAIN element}
    BY <1>4 DEF Codec!Filled, Codec!FilledWith
  <2>. HIDE DEF none
  <2>2. PICK i \in DOMAIN element : \E y \in Codec!FilledElement(element[i]) :
          LET e == [none EXCEPT ![i] = y] IN v[1] \in {<< e >>, << e, none >>, << none, e >>}
    BY <1>8, <2>1
  <2>3. PICK y \in Codec!FilledElement(element[i]) :
          LET e == [none EXCEPT ![i] = y] IN v[1] \in {<< e >>, << e, none >>, << none, e >>}
    BY <2>2
  <2>. DEFINE e == [none EXCEPT ![i] = y]
             x == v[1]
  <2>4. LastElementFits(element, e)
    BY <1>7
  <2>5. x \in {<< e >>, << e, none >>, << none, e >>} /\ Len(x) <= 1
    BY <1>6, <2>3
  <2>. HIDE DEF e, x
  <2>6. x = << e >>
    BY <2>5
  <2>7. OneOrTwoOf(e, none, x)
    BY <2>6, OneOrTwo
  <2>8. IsList(x) /\ Fits(Len(x), 4) /\ Len(x) = 1 /\ x[1] = e
    BY <2>6, <2>7 DEF OneOrTwoOf
  <2>9. LastFits(f, x)
    BY <1>4, <2>4, <2>8 DEF LastFits
  <2>. QED
    BY <2>9 DEF x
<1>9. ASSUME v[1] = EmptyValue(f) PROVE LastFits(f, v[1])
  <2>1. v[1] = << >>
    BY <1>4, <1>9 DEF EmptyValue
  <2>2. IsList(v[1]) /\ Fits(Len(v[1]), 4) /\ Len(v[1]) = 0
    BY <2>1, SmallFits DEF IsList
  <2>. QED
    BY <1>4, <2>2 DEF LastFits
<1>10. PayloadFits(layout, v)
  BY <1>2, <1>5, <1>8, <1>9 DEF PayloadFits
<1>. QED
  BY <1>1, <1>10

\* A layout or a value without its last place.
LEMMA FrontOf ==
  ASSUME NEW s, IsList(s), Len(s) > 0
  PROVE  /\ Codec!Last(s) = s[Len(s)]
         /\ Codec!Front(s) = [i \in 1 .. Len(s) - 1 |-> s[i]]
<1>1. PICK S : S = {s[i] : i \in 1 .. Len(s)}
  OBVIOUS
<1>2. s \in Seq(S)
  BY <1>1 DEF IsList
<1>3. SubSeq(s, 1, Len(s) - 1) = [i \in 1 .. Len(s) - 1 |-> s[i]]
  BY <1>2
<1>. QED
  BY <1>3 DEF Codec!Last, Codec!Front

\* The field an older sender does not know.
LEMMA OlderRead ==
  ASSUME NEW layout, WellFormed(layout), NEW v, PayloadFits(layout, v), Codec!IsNewer(Codec!Last(layout))
  PROVE  Codec!Decode(layout, Codec!Encode(Codec!Older(layout), v))
           = [i \in DOMAIN v |-> IF Codec!IsNewer(layout[i]) THEN << >> ELSE v[i]]
<1>. DEFINE n == Len(layout)
           p == [k \in 1 .. n - 1 |-> Codec!PutOuter(layout[k], v[k])]
           data == Codec!FlattenSeq(p)
           w == [k \in 1 .. n |-> IF k = n THEN << >> ELSE v[k]]
<1>1. /\ n \in Nat /\ n > 0 /\ IsList(layout) /\ IsList(v) /\ Len(v) = n
      /\ DOMAIN layout = 1 .. n /\ DOMAIN v = 1 .. n
  BY DEF WellFormed, PayloadFits, Alike, IsList
<1>. HIDE DEF n
<1>2. layout[n].kind = "newer" /\ Codec!Older(layout) = [i \in 1 .. n - 1 |-> layout[i]]
  BY <1>1, FrontOf DEF Codec!IsNewer, Codec!Older, n
<1>3. ASSUME NEW k \in 1 .. n - 1
      PROVE  OuterFits(layout[k], v[k]) /\ ~Codec!IsNewer(layout[k])
  <2>1. k \in 1 .. n /\ k # n
    BY <1>1
  <2>2. OuterField(layout[k])
    BY <2>1 DEF WellFormed, n
  <2>. QED
    BY <2>1, <2>2 DEF PayloadFits, OuterField, PlainField, Codec!IsNewer, n
<1>4. p \in Seq(ByteStrings) /\ Len(p) = n - 1
  BY <1>1, <1>3, OuterTyped
<1>5. Codec!Encode(Codec!Older(layout), v) = data
  <2>. DEFINE older == [i \in 1 .. n - 1 |-> layout[i]]
  <2>1. [i \in DOMAIN older |-> Codec!PutOuter(older[i], v[i])] = p
    OBVIOUS
  <2>. HIDE DEF older, p
  <2>2. Codec!Older(layout) = older
    BY <1>2 DEF older
  <2>. QED
    BY <2>1, <2>2 DEF Codec!Encode, Codec!PutAll
<1>6. data \in ByteStrings
  <2>. HIDE DEF p
  <2>. QED
    BY <1>4, FlatTyped
<1>7. PICK at \in [0 .. n - 1 -> Nat] :
        /\ at[0] = 0 /\ at[n - 1] = Len(data)
        /\ \A k \in 1 .. n - 1 : at[k] = at[k - 1] + Len(p[k]) /\ Holds(data, at[k - 1], p[k])
  <2>1. Holds(data, 0, data) /\ 0 + Len(data) = Len(data)
    BY <1>6, HoldsItself DEF ByteStrings
  <2>. HIDE DEF p, n
  <2>2. \E at \in [0 .. Len(p) -> Nat] :
          /\ at[0] = 0 /\ at[Len(p)] = 0 + Len(Codec!FlattenSeq(p))
          /\ \A k \in 1 .. Len(p) : at[k] = at[k - 1] + Len(p[k]) /\ Holds(data, at[k - 1], p[k])
    BY <1>4, <2>1, PiecesHeld
  <2>. QED
    BY <1>4, <2>1, <2>2
<1>. DEFINE pos == [k \in 0 .. n |-> IF k = n THEN at[n - 1] ELSE at[k]]
<1>8. ASSUME NEW k \in 1 .. n
      PROVE  Codec!GetOuter(layout[k], data, pos[k - 1]) = Codec!Got(w[k], pos[k])
  <2>1. CASE k = n
    <3>1. pos[k - 1] = Len(data) /\ pos[k] = Len(data) /\ w[k] = << >>
      BY <1>1, <1>7, <2>1
    <3>2. Codec!GetOuter(layout[n], data, Len(data)) = Codec!Got(<< >>, Len(data))
      BY <1>2 DEF Codec!GetOuter, Codec!GetWith
    <3>. HIDE DEF pos, w, data
    <3>. QED
      BY <2>1, <3>1, <3>2
  <2>2. CASE k # n
    <3>0. k \in 1 .. n - 1
      BY <1>1, <2>2
    <3>1. pos[k - 1] = at[k - 1] /\ pos[k] = at[k] /\ w[k] = v[k]
      BY <1>1, <2>2
    <3>2. p[k] = Codec!PutOuter(layout[k], v[k])
      BY <3>0
    <3>3. at[k] = at[k - 1] + Len(p[k]) /\ Holds(data, at[k - 1], p[k])
      BY <1>7, <3>0
    <3>. HIDE DEF pos, w, data, p, n
    <3>4. Codec!GetOuter(layout[k], data, at[k - 1])
            = Codec!Got(v[k], at[k - 1] + Len(Codec!PutOuter(layout[k], v[k])))
      BY <1>3, <3>0, <3>2, <3>3, OuterHeld
    <3>. QED
      BY <3>1, <3>2, <3>3, <3>4
  <2>. QED
    BY <2>1, <2>2
<1>9. Alike(layout, w)
  <2>1. w = [k \in 1 .. n |-> w[k]] /\ Len(w) = n
    BY <1>1
  <2>. HIDE DEF w
  <2>. QED
    BY <1>1, <2>1 DEF Alike, IsList, n
<1>10. pos[0] = 0
  BY <1>1, <1>7
<1>11. w = [i \in DOMAIN v |-> IF Codec!IsNewer(layout[i]) THEN << >> ELSE v[i]]
  <2>1. \A i \in 1 .. n : Codec!IsNewer(layout[i]) <=> i = n
    BY <1>1, <1>2, <1>3 DEF Codec!IsNewer
  <2>. QED
    BY <1>1, <2>1
<1>. HIDE DEF w, data, pos
<1>12. Codec!ReadFrom(layout, data, pos[0]) = Codec!Got(w, pos[Len(layout)])
  BY <1>8, <1>9, PayloadReadAlong DEF n
<1>13. Codec!Decode(layout, data) = w
  BY <1>10, <1>12 DEF Codec!Decode, Codec!Got
<1>. QED
  BY <1>5, <1>11, <1>13

\* A payload of this version and of an older one, for each kind of message.
LEMMA PayloadMeant ==
  ASSUME MaxDevices \in {0, 1}, NEW k \in DOMAIN Codec!Layouts, NEW v \in Codec!Samples(Codec!Layouts[k]),
         Codec!Fits(Codec!Layouts[k], v)
  PROVE  LET layout == Codec!Layouts[k]
         IN /\ Codec!Decode(layout, Codec!Encode(layout, v)) = v
            /\ Codec!Decode(layout, Codec!Encode(Codec!Older(layout), v))
                 = [i \in DOMAIN v |-> IF Codec!IsNewer(layout[i]) THEN << >> ELSE v[i]]
<1>. DEFINE layout == Codec!Layouts[k]
<1>1. WellFormed(layout) \/ layout = Codec!DevicePermissionResponse
  BY EveryLayout
<1>. HIDE DEF layout
<1>2. v \in Codec!Samples(layout) /\ Codec!Fits(layout, v)
  BY DEF layout
<1>3. PayloadFits(layout, v)
  BY <1>1, <1>2, SampleFits, DevicesFit
<1>4. Codec!Decode(layout, Codec!Encode(layout, v)) = v
  BY <1>3, EveryPayloadIsReadBack
<1>5. ASSUME ~(WellFormed(layout) /\ Codec!IsNewer(Codec!Last(layout)))
      PROVE  /\ Codec!Older(layout) = layout
             /\ v = [i \in DOMAIN v |-> IF Codec!IsNewer(layout[i]) THEN << >> ELSE v[i]]
  <2>1. /\ IsList(layout) /\ Len(layout) > 0 /\ ~Codec!IsNewer(layout[Len(layout)])
        /\ \A i \in 1 .. Len(layout) : ~Codec!IsNewer(layout[i])
    <3>1. CASE WellFormed(layout)
      <4>1. IsList(layout) /\ Len(layout) > 0
        BY <3>1 DEF WellFormed
      <4>2. ~Codec!IsNewer(layout[Len(layout)])
        BY <1>5, <3>1, <4>1, FrontOf
      <4>. QED
        BY <3>1, <4>1, <4>2 DEF WellFormed, OuterField, PlainField, Codec!IsNewer
    <3>2. CASE layout = Codec!DevicePermissionResponse
      BY <3>2 DEF Codec!DevicePermissionResponse, Codec!Many, Codec!Field, Codec!IsNewer, IsList
    <3>. QED
      BY <1>1, <3>1, <3>2
  <2>2. Codec!Older(layout) = layout
    BY <2>1, FrontOf DEF Codec!Older
  <2>3. DOMAIN v = 1 .. Len(layout) /\ v = [i \in 1 .. Len(layout) |-> v[i]]
    BY <1>3 DEF PayloadFits, Alike, IsList
  <2>. QED
    BY <2>1, <2>2, <2>3
<1>6. Codec!Decode(layout, Codec!Encode(Codec!Older(layout), v))
        = [i \in DOMAIN v |-> IF Codec!IsNewer(layout[i]) THEN << >> ELSE v[i]]
  <2>1. CASE WellFormed(layout) /\ Codec!IsNewer(Codec!Last(layout))
    BY <1>3, <2>1, OlderRead
  <2>2. CASE ~(WellFormed(layout) /\ Codec!IsNewer(Codec!Last(layout)))
    BY <1>4, <1>5, <2>2
  <2>. QED
    BY <2>1, <2>2
<1>. QED
  BY <1>4, <1>6 DEF layout

-----------------------------------------------------------------------------
\* Names and passwords, and the answers to them.
LEMMA HoldsJoined ==
  ASSUME NEW data, NEW at, NEW s, NEW t, Holds(data, at, s), Holds(data, at + Len(s), t)
  PROVE  Holds(data, at, s \o t)
<1>1. /\ s \in Seq(Nat) /\ t \in Seq(Nat) /\ Len(s) \in Nat /\ Len(t) \in Nat /\ at \in Nat /\ data \in ByteStrings
      /\ Len(s \o t) = Len(s) + Len(t) /\ s \o t \in Seq(Nat) /\ Len(data) \in Nat
  BY DEF Holds, ByteStrings
<1>2. (at + Len(s)) + Len(t) <= Len(data)
  BY DEF Holds
<1>3. ASSUME NEW i \in 1 .. Len(s \o t) PROVE data[at + i] = (s \o t)[i]
  <2>1. CASE i <= Len(s)
    <3>1. (s \o t)[i] = s[i] /\ i \in 1 .. Len(s)
      BY <1>1, <2>1
    <3>. QED
      BY <3>1 DEF Holds
  <2>2. CASE i > Len(s)
    <3>1. (s \o t)[i] = t[i - Len(s)] /\ i - Len(s) \in 1 .. Len(t)
      BY <1>1, <2>2
    <3>2. data[(at + Len(s)) + (i - Len(s))] = t[i - Len(s)]
      BY <3>1 DEF Holds
    <3>3. (at + Len(s)) + (i - Len(s)) = at + i
      BY <1>1
    <3>. QED
      BY <3>1, <3>2, <3>3
  <2>. QED
    BY <1>1, <2>1, <2>2
<1>. QED
  BY <1>1, <1>2, <1>3 DEF Holds, ByteStrings

\* Five pieces one behind the other.
InOrder(data, at, a, b, c, d, e) ==
  /\ Holds(data, at, a) /\ Holds(data, at + Len(a), b) /\ Holds(data, at + Len(a) + Len(b), c)
  /\ Holds(data, at + Len(a) + Len(b) + Len(c), d)
  /\ Holds(data, at + Len(a) + Len(b) + Len(c) + Len(d), e)
  /\ Holds(data, at, a \o b \o c)
  /\ Len(a \o b \o c) = Len(a) + Len(b) + Len(c)
  /\ Len(a \o b \o c \o d \o e) = Len(a) + Len(b) + Len(c) + Len(d) + Len(e)

\* They are held one by one when they are held together.
LEMMA FiveHeld ==
  ASSUME NEW a \in ByteStrings, NEW b \in ByteStrings, NEW c \in ByteStrings, NEW d \in ByteStrings,
         NEW e \in ByteStrings, NEW data, NEW at, Holds(data, at, a \o b \o c \o d \o e)
  PROVE  InOrder(data, at, a, b, c, d, e)
<1>1. /\ a \o b \in ByteStrings /\ a \o b \o c \in ByteStrings /\ a \o b \o c \o d \in ByteStrings
      /\ Len(a \o b) = Len(a) + Len(b) /\ Len(a \o b \o c) = Len(a) + Len(b) + Len(c)
      /\ Len(a \o b \o c \o d) = Len(a) + Len(b) + Len(c) + Len(d)
      /\ Len(a \o b \o c \o d \o e) = Len(a) + Len(b) + Len(c) + Len(d) + Len(e)
  <2>1. a \o b \in ByteStrings /\ Len(a \o b) = Len(a) + Len(b)
    BY BothTyped
  <2>2. (a \o b) \o c \in ByteStrings /\ Len((a \o b) \o c) = Len(a \o b) + Len(c)
    BY <2>1, BothTyped
  <2>3. ((a \o b) \o c) \o d \in ByteStrings /\ Len(((a \o b) \o c) \o d) = Len((a \o b) \o c) + Len(d)
    BY <2>2, BothTyped
  <2>4. Len((((a \o b) \o c) \o d) \o e) = Len(((a \o b) \o c) \o d) + Len(e)
    BY <2>3, BothTyped
  <2>. QED
    BY <2>1, <2>2, <2>3, <2>4
<1>2. at \in Nat /\ Len(a) \in Nat /\ Len(b) \in Nat /\ Len(c) \in Nat /\ Len(d) \in Nat /\ Len(e) \in Nat
  BY DEF Holds, ByteStrings
<1>3. Holds(data, at, a \o b \o c \o d) /\ Holds(data, at + Len(a \o b \o c \o d), e)
  BY <1>1, HoldsBoth
<1>4. Holds(data, at, a \o b \o c) /\ Holds(data, at + Len(a \o b \o c), d)
  BY <1>1, <1>3, HoldsBoth
<1>5. Holds(data, at, a \o b) /\ Holds(data, at + Len(a \o b), c)
  BY <1>1, <1>4, HoldsBoth
<1>6. Holds(data, at, a) /\ Holds(data, at + Len(a), b)
  BY <1>5, HoldsBoth
<1>7. /\ at + Len(a \o b \o c \o d) = at + Len(a) + Len(b) + Len(c) + Len(d)
      /\ at + Len(a \o b \o c) = at + Len(a) + Len(b) + Len(c)
      /\ at + Len(a \o b) = at + Len(a) + Len(b)
  BY <1>1, <1>2
<1>. QED
  BY <1>1, <1>3, <1>4, <1>5, <1>6, <1>7 DEF InOrder

\* What Cut leaves of a sequence.
LEMMA CutTo ==
  ASSUME NEW s \in ByteStrings, NEW n \in Nat
  PROVE  /\ Codec!Cut(s, n) \in ByteStrings
         /\ Len(Codec!Cut(s, n)) = IF n > Len(s) THEN Len(s) ELSE n
         /\ \A i \in 1 .. Len(Codec!Cut(s, n)) : Codec!Cut(s, n)[i] = s[i]
<1>. DEFINE m == IF n > Len(s) THEN Len(s) ELSE n
<1>1. s \in Seq(Nat) /\ Len(s) \in Nat /\ m \in 0 .. Len(s)
  BY DEF ByteStrings
<1>2. Codec!Cut(s, n) = SubSeq(s, 1, m)
  <2>1. 0 + n = n /\ 0 + 1 = 1
    OBVIOUS
  <2>. QED
    BY <2>1 DEF Codec!Cut, Codec!Mid
<1>. HIDE DEF m
<1>3. SubSeq(s, 1, m) \in Seq(Nat) /\ Len(SubSeq(s, 1, m)) = m /\ \A i \in 1 .. m : SubSeq(s, 1, m)[i] = s[i]
  BY <1>1
<1>. QED
  BY <1>2, <1>3 DEF m, ByteStrings

\* The strings that are sent are short, and none looks like a request of version 2.
LEMMA StringsShort ==
  ASSUME NEW s \in Codec!Strings
  PROVE  s \in ByteStrings /\ Len(s) \in 0 .. Base + 1 /\ (Len(s) > 0 => s[1] = 1)
<1>. DEFINE all == << 1, 2, 3, 1, 2 >>
<1>1. PICK n \in 0 .. Base + 1 : s = Codec!Cut(all, n)
  BY DEF Codec!Strings
<1>2. n \in Nat /\ Base \in Nat
  BY StoresAssumption
<1>3. all \in ByteStrings /\ all[1] = 1 /\ Len(all) = 5
  BY DEF ByteStrings
<1>. HIDE DEF all
<1>4. /\ s \in ByteStrings /\ Len(s) = (IF n > Len(all) THEN Len(all) ELSE n)
      /\ \A i \in 1 .. Len(s) : s[i] = all[i]
  BY <1>1, <1>2, <1>3, CutTo
<1>5. Len(s) \in 0 .. Base + 1
  BY <1>1, <1>2, <1>3, <1>4
<1>. QED
  BY <1>3, <1>4, <1>5

\* A request of version 2 is read back, whatever its name and password.
LEMMA RequestRead ==
  ASSUME NEW user \in ByteStrings, Fits(Len(user), 1), NEW pass \in ByteStrings, Fits(Len(pass), 2)
  PROVE  Codec!DecodeAuthRequest(<< 2 >> \o Codec!Bytes(Len(user), 1) \o user \o Codec!Bytes(Len(pass), 2) \o pass)
           = [legacy |-> FALSE, username |-> user, password |-> pass]
<1>. DEFINE b == Codec!Bytes(Len(user), 1)
           d == Codec!Bytes(Len(pass), 2)
           data == << 2 >> \o b \o user \o d \o pass
<1>1. b \in ByteStrings /\ Len(b) = 1 /\ d \in ByteStrings /\ Len(d) = 2
  BY NumberOfBytes
<1>. HIDE DEF b, d
<1>2. << 2 >> \in ByteStrings /\ Len(<< 2 >>) = 1 /\ << 2 >>[1] = 2
  BY DEF ByteStrings
<1>. DEFINE two == << 2 >>
<1>3. two \in ByteStrings /\ Len(two) = 1 /\ two[1] = 2 /\ data = two \o b \o user \o d \o pass
  BY <1>2
<1>. HIDE DEF two, data
<1>4. data \in ByteStrings
  <2>1. two \o b \in ByteStrings
    BY <1>1, <1>3, BothTyped
  <2>2. two \o b \o user \in ByteStrings
    BY <2>1, BothTyped
  <2>3. two \o b \o user \o d \in ByteStrings
    BY <1>1, <2>2, BothTyped
  <2>. QED
    BY <1>3, <2>3, BothTyped
<1>5. Holds(data, 0, two \o b \o user \o d \o pass)
  BY <1>3, <1>4, HoldsItself
<1>6. /\ Holds(data, 0, two) /\ Holds(data, 0 + Len(two), b)
       /\ Holds(data, 0 + Len(two) + Len(b), user)
       /\ Holds(data, 0 + Len(two) + Len(b) + Len(user), d)
       /\ Holds(data, 0 + Len(two) + Len(b) + Len(user) + Len(d), pass)
       /\ Len(two \o b \o user \o d \o pass) = Len(two) + Len(b) + Len(user) + Len(d) + Len(pass)
  <2>1. InOrder(data, 0, two, b, user, d, pass)
    BY <1>1, <1>3, <1>5, FiveHeld
  <2>. QED
    BY <2>1 DEF InOrder
<1>7. Len(user) \in Nat /\ Len(pass) \in Nat
  BY DEF ByteStrings
<1>8. Len(data) >= 4
  BY <1>1, <1>3, <1>6, <1>7
<1>9. data[1] = 2
  <2>1. data[0 + 1] = two[1]
    BY <1>3, <1>6 DEF Holds
  <2>. QED
    BY <1>3, <2>1
<1>10. /\ Holds(data, 1, b) /\ Holds(data, 1 + Len(b), user)
       /\ Holds(data, 2 + Len(user), d) /\ Holds(data, (2 + Len(user)) + Len(d), pass)
  <2>1. /\ 0 + Len(two) = 1 /\ 0 + Len(two) + Len(b) = 1 + Len(b)
        /\ 0 + Len(two) + Len(b) + Len(user) = 2 + Len(user)
        /\ 0 + Len(two) + Len(b) + Len(user) + Len(d) = (2 + Len(user)) + Len(d)
    BY <1>1, <1>3, <1>7
  <2>. QED
    BY <1>6, <2>1
<1>11. b = Codec!Bytes(Len(user), 1) /\ d = Codec!Bytes(Len(pass), 2)
  BY DEF b, d
<1>12. Codec!ReadNumber(data, 1, 1) = Codec!Got(Len(user), 2) /\ Codec!Mid(data, 2, Len(user)) = user
  <2>1. Codec!ReadNumber(data, 1, 1) = Codec!Got(Len(user), 1 + 1)
    BY <1>10, <1>11, NumberHeld
  <2>2. Holds(data, 2, user)
    BY <1>1, <1>10
  <2>. QED
    BY <2>1, <2>2, MidOfHeld
<1>13. /\ Codec!ReadNumber(data, 2 + Len(user), 2) = Codec!Got(Len(pass), (2 + Len(user)) + 2)
       /\ Codec!Mid(data, (2 + Len(user)) + 2, Len(pass)) = pass
  <2>1. Holds(data, 2 + Len(user), Codec!Bytes(Len(pass), 2))
    BY <1>10, <1>11
  <2>2. Holds(data, (2 + Len(user)) + 2, pass)
    BY <1>1, <1>10
  <2>3. Codec!ReadNumber(data, 2 + Len(user), 2) = Codec!Got(Len(pass), (2 + Len(user)) + 2)
    BY <2>1, NumberHeld
  <2>. QED
    BY <2>2, <2>3, MidOfHeld
<1>14. ~(2 + Len(user) > Len(data))
  BY <1>1, <1>3, <1>6, <1>7
<1>15. Codec!DecodeAuthRequest(data) = [legacy |-> FALSE, username |-> user, password |-> pass]
  <2>. DEFINE first == Codec!ReadNumber(data, 1, 1)
             second == Codec!ReadNumber(data, 2 + Len(user), 2)
  <2>1. first.value = Len(user) /\ first.at = 2 /\ second.value = Len(pass) /\ second.at = (2 + Len(user)) + 2
    BY <1>12, <1>13 DEF Codec!Got
  <2>. DEFINE who == Codec!ReadText(data, 1, 1, TRUE)
  <2>2. who = [value |-> user, at |-> 2 + Len(user)]
    <3>1. who = Codec!Got(Codec!Mid(data, first.at, first.value),
                          IF first.at + first.value > Len(data) THEN Len(data) ELSE first.at + first.value)
      BY Zenon DEF Codec!ReadText
    <3>. HIDE DEF first, who
    <3>. QED
      BY <1>12, <1>14, <2>1, <3>1 DEF Codec!Got
  <2>. DEFINE word == Codec!ReadText(data, 2 + Len(user), 2, FALSE)
  <2>3. word = [value |-> pass, at |-> (2 + Len(user)) + 2]
    <3>1. word = Codec!Got(Codec!Mid(data, second.at, second.value), second.at)
      BY Zenon DEF Codec!ReadText
    <3>. HIDE DEF second, word
    <3>. QED
      BY <1>13, <2>1, <3>1 DEF Codec!Got
  <2>. HIDE DEF who
  <2>4. Codec!DecodeAuthRequest(data)
          = [legacy |-> FALSE, username |-> who.value, password |-> Codec!ReadText(data, who.at, 2, FALSE).value]
    BY <1>8, <1>9 DEF Codec!DecodeAuthRequest, who
  <2>5. who.value = user /\ who.at = 2 + Len(user)
    BY <2>2
  <2>6. Codec!ReadText(data, who.at, 2, FALSE) = word
    BY <2>5
  <2>. HIDE DEF word
  <2>7. word.value = pass
    BY <2>3
  <2>. QED
    BY <2>4, <2>5, <2>6, <2>7
<1>. QED
  BY <1>15 DEF data, b, d

\* A request under another name.
LEMMA Renamed ==
  ASSUME NEW l, NEW S, NEW r \in [legacy : {l}, username : S, password : S], NEW user
  PROVE  [r EXCEPT !.username = user] = [legacy |-> l, username |-> user, password |-> r.password]
OBVIOUS

\* A request is read as it was meant: its name is cut, a password of the old kind is told from it.
LEMMA RequestMeant ==
  ASSUME NEW r \in Codec!AuthRequests
  PROVE  Codec!DecodeAuthRequest(Codec!EncodeAuthRequest(r))
           = [r EXCEPT !.username = Codec!Cut(r.username, Base - 1)]
<1>0. Base \in Nat /\ Base > 3 /\ Base - 1 \in Nat
  BY StoresAssumption
<1>1. CASE r \in [legacy : {FALSE}, username : Codec!Strings, password : Codec!Strings]
  <2>. DEFINE user == Codec!Cut(r.username, Base - 1)
             pass == r.password
             data == << 2 >> \o Codec!Bytes(Len(user), 1) \o user \o Codec!Bytes(Len(pass), 2) \o pass
  <2>1. user \in ByteStrings /\ Len(user) \in 0 .. Base - 1
    <3>1. r.username \in ByteStrings /\ Len(r.username) \in Nat
      BY <1>1, StringsShort DEF ByteStrings
    <3>. QED
      BY <1>0, <3>1, CutTo
  <2>2. pass \in ByteStrings /\ Len(pass) \in 0 .. Base + 1
    BY <1>1, StringsShort
  <2>3. Codec!EncodeAuthRequest(r) = data
    BY <1>1 DEF Codec!EncodeAuthRequest
  <2>. HIDE DEF user, pass
  <2>4. Fits(Len(user), 1) /\ Fits(Len(pass), 2)
    BY <1>0, <2>1, <2>2, SmallFits
  <2>5. Codec!DecodeAuthRequest(data) = [legacy |-> FALSE, username |-> user, password |-> pass]
    BY <2>1, <2>2, <2>4, RequestRead
  <2>. HIDE DEF data
  <2>6. [r EXCEPT !.username = user] = [legacy |-> FALSE, username |-> user, password |-> pass]
    <3>1. r.password = pass
      BY DEF pass
    <3>2. PICK l : l = FALSE
      OBVIOUS
    <3>3. r \in [legacy : {l}, username : Codec!Strings, password : Codec!Strings]
      BY <1>1, <3>2
    <3>4. [r EXCEPT !.username = user] = [legacy |-> l, username |-> user, password |-> r.password]
      BY <3>3, Renamed
    <3>. QED
      BY <3>1, <3>2, <3>4
  <2>. QED
    BY <2>3, <2>5, <2>6 DEF user
<1>2. CASE r \in [legacy : {TRUE}, username : {<< >>}, password : Codec!Strings]
  <2>1. Codec!EncodeAuthRequest(r) = r.password
    BY <1>2 DEF Codec!EncodeAuthRequest
  <2>2. ~(Len(r.password) >= 4 /\ r.password[1] = 2)
    BY <1>2, StringsShort
  <2>3. Codec!DecodeAuthRequest(r.password) = [legacy |-> TRUE, username |-> << >>, password |-> r.password]
    BY <2>2 DEF Codec!DecodeAuthRequest
  <2>4. Codec!Cut(<< >>, Base - 1) = << >>
    <3>1. << >> \in ByteStrings /\ Len(<< >>) = 0
      BY DEF ByteStrings
    <3>2. Codec!Cut(<< >>, Base - 1) \in ByteStrings /\ Len(Codec!Cut(<< >>, Base - 1)) = 0
      BY <1>0, <3>1, CutTo
    <3>. QED
      BY <3>2 DEF ByteStrings
  <2>. QED
    BY <1>2, <2>1, <2>3, <2>4
<1>. QED
  BY <1>1, <1>2 DEF Codec!AuthRequests

\* A stream that is cut behind a piece still holds it.
LEMMA HoldsCut ==
  ASSUME NEW data, NEW at, NEW s, Holds(data, at, s), NEW n \in Nat, n <= Len(data), at + Len(s) <= n
  PROVE  Holds(Codec!Cut(data, n), at, s)
<1>. DEFINE c == Codec!Cut(data, n)
<1>1. data \in ByteStrings /\ s \in ByteStrings /\ at \in Nat /\ Len(s) \in Nat /\ Len(data) \in Nat
  BY DEF Holds, ByteStrings
<1>2. /\ c \in ByteStrings /\ Len(c) = (IF n > Len(data) THEN Len(data) ELSE n)
      /\ \A i \in 1 .. Len(c) : c[i] = data[i]
  BY <1>1, CutTo
<1>3. Len(c) = n
  BY <1>1, <1>2
<1>4. ASSUME NEW i \in 1 .. Len(s) PROVE c[at + i] = s[i]
  <2>1. data[at + i] = s[i] /\ at + i \in 1 .. n
    BY <1>1 DEF Holds
  <2>. QED
    BY <1>2, <1>3, <2>1
<1>. HIDE DEF c
<1>5. Holds(c, at, s)
  BY <1>1, <1>2, <1>3, <1>4 DEF Holds
<1>. QED
  BY <1>5 DEF c

\* A key of the right size is not padded.
LEMMA PaddedWhole ==
  ASSUME NEW s \in ByteStrings, NEW n, n = Len(s)
  PROVE  Codec!Padded(s, n) = s
<1>1. s \in Seq(Nat) /\ Len(s) \in Nat
  BY DEF ByteStrings
<1>2. Codec!Cut(s, n) = s
  BY HoldsItself, MidOfHeld DEF Codec!Cut
<1>3. Codec!Zeros(0) = << >>
  BY DEF Codec!Zeros
<1>4. n - Len(s) = 0
  BY <1>1
<1>5. Codec!Padded(s, n) = s \o << >>
  BY <1>2, <1>3, <1>4 DEF Codec!Padded
<1>. QED
  BY <1>1, <1>5

\* The parts of an answer that every version has.
Answers(data, key, iv) ==
  /\ Codec!Cut(data, 2) = Codec!OK
  /\ Codec!Mid(data, 2, 3) = key /\ Codec!Mid(data, 2 + 3, 2) = iv

\* They are read where they are held.
LEMMA AnswerStarts ==
  ASSUME NEW key \in ByteStrings, Len(key) = 3, NEW iv \in ByteStrings, Len(iv) = 2, NEW data,
         Holds(data, 0, Codec!OK), Holds(data, 2, key), Holds(data, 5, iv)
  PROVE  Answers(data, key, iv)
<1>1. Len(Codec!OK) = 2
  BY DEF Codec!OK
<1>2. Codec!Mid(data, 0, 2) = Codec!OK
  BY <1>1, MidOfHeld
<1>3. Codec!Mid(data, 2, 3) = key
  BY MidOfHeld
<1>4. Codec!Mid(data, 5, 2) = iv
  BY MidOfHeld
<1>. QED
  BY <1>2, <1>3, <1>4 DEF Answers, Codec!Cut

\* An answer that grants something.
Response(key, iv, level, caps) ==
  [ok |-> TRUE, sessionKey |-> key, iv |-> iv, grantedLevel |-> level, grantedCaps |-> caps]

\* An answer that grants something, and what readers make of it and of its start.
IsResponse(data, key, iv, level, caps) ==
  /\ key \in ByteStrings /\ Len(key) = 3 /\ iv \in ByteStrings /\ Len(iv) = 2
  /\ Fits(level, 1) /\ Fits(caps, 4)
  /\ data = Codec!OK \o key \o iv \o Codec!Bytes(level, 1) \o Codec!Bytes(caps, 4)
\* What readers make of it and of its start.
IsGranted(data, key, iv, level, caps) ==
  /\ Codec!DecodeAuthResponse(data) = Response(key, iv, level, caps)
  /\ Codec!DecodeAuthResponse(Codec!Cut(data, Len(data) - 5)) = Response(key, iv, 0, 0)

\* An answer is read back whole, and without its end as an older one.
LEMMA ResponseRead ==
  ASSUME NEW key, NEW iv, NEW level, NEW caps, NEW data, IsResponse(data, key, iv, level, caps)
  PROVE  IsGranted(data, key, iv, level, caps)
<1>0. /\ key \in ByteStrings /\ Len(key) = 3 /\ iv \in ByteStrings /\ Len(iv) = 2
      /\ Fits(level, 1) /\ Fits(caps, 4)
      /\ data = Codec!OK \o key \o iv \o Codec!Bytes(level, 1) \o Codec!Bytes(caps, 4)
  BY DEF IsResponse
<1>. DEFINE b == Codec!Bytes(level, 1)
           d == Codec!Bytes(caps, 4)
           ok == Codec!OK
           short == Codec!Cut(data, Len(data) - 5)
<1>1. b \in ByteStrings /\ Len(b) = 1 /\ d \in ByteStrings /\ Len(d) = 4
  BY <1>0, NumberOfBytes
<1>2. ok \in ByteStrings /\ Len(ok) = 2
  BY DEF ByteStrings, Codec!OK
<1>3. data = ok \o key \o iv \o b \o d
  BY <1>0
<1>. HIDE DEF b, d, ok, short
<1>4. data \in ByteStrings
  <2>1. ok \o key \in ByteStrings
    BY <1>0, <1>2, BothTyped
  <2>2. ok \o key \o iv \in ByteStrings
    BY <1>0, <2>1, BothTyped
  <2>3. ok \o key \o iv \o b \in ByteStrings
    BY <1>1, <2>2, BothTyped
  <2>. QED
    BY <1>1, <1>3, <2>3, BothTyped
<1>5. InOrder(data, 0, ok, key, iv, b, d)
  <2>1. Holds(data, 0, ok \o key \o iv \o b \o d)
    BY <1>3, <1>4, HoldsItself
  <2>. QED
    BY <1>0, <1>1, <1>2, <2>1, FiveHeld
<1>6. /\ Holds(data, 0, ok) /\ Holds(data, 2, key) /\ Holds(data, 5, iv) /\ Holds(data, 7, b) /\ Holds(data, 8, d)
      /\ Len(data) = 12
  <2>1. /\ Holds(data, 0, ok) /\ Holds(data, 0 + Len(ok), key) /\ Holds(data, 0 + Len(ok) + Len(key), iv)
        /\ Holds(data, 0 + Len(ok) + Len(key) + Len(iv), b)
        /\ Holds(data, 0 + Len(ok) + Len(key) + Len(iv) + Len(b), d)
        /\ Len(ok \o key \o iv \o b \o d) = Len(ok) + Len(key) + Len(iv) + Len(b) + Len(d)
    BY <1>5 DEF InOrder
  <2>2. /\ 0 + Len(ok) = 2 /\ 0 + Len(ok) + Len(key) = 5 /\ 0 + Len(ok) + Len(key) + Len(iv) = 7
        /\ 0 + Len(ok) + Len(key) + Len(iv) + Len(b) = 8
        /\ Len(ok) + Len(key) + Len(iv) + Len(b) + Len(d) = 12
    BY <1>0, <1>1, <1>2
  <2>. QED
    BY <1>3, <2>1, <2>2
<1>7. short = Codec!Cut(data, 7) /\ short \in ByteStrings /\ Len(short) = 7
  <2>1. short = Codec!Cut(data, 7)
    BY <1>6 DEF short
  <2>2. Codec!Cut(data, 7) \in ByteStrings /\ Len(Codec!Cut(data, 7)) = (IF 7 > Len(data) THEN Len(data) ELSE 7)
    BY <1>4, CutTo
  <2>. QED
    BY <1>6, <2>1, <2>2
<1>8. Holds(short, 0, ok) /\ Holds(short, 2, key) /\ Holds(short, 5, iv)
  <2>1. 7 <= Len(data) /\ 0 + Len(ok) <= 7 /\ 2 + Len(key) <= 7 /\ 5 + Len(iv) <= 7
    BY <1>0, <1>2, <1>6
  <2>2. Holds(Codec!Cut(data, 7), 0, ok)
    BY <1>6, <2>1, HoldsCut
  <2>3. Holds(Codec!Cut(data, 7), 2, key)
    BY <1>6, <2>1, HoldsCut
  <2>4. Holds(Codec!Cut(data, 7), 5, iv)
    BY <1>6, <2>1, HoldsCut
  <2>. QED
    BY <1>7, <2>2, <2>3, <2>4
<1>9. Answers(data, key, iv) /\ Answers(short, key, iv)
  BY <1>0, <1>6, <1>8, AnswerStarts DEF ok
<1>10. Codec!ReadNumber(data, 7, 1).value = level /\ Codec!ReadNumber(data, 7 + 1, 4).value = caps
  <2>1. Codec!ReadNumber(data, 7, 1) = Codec!Got(level, 7 + 1)
    BY <1>0, <1>6, NumberHeld DEF b
  <2>2. Codec!ReadNumber(data, 8, 4) = Codec!Got(caps, 8 + 4)
    BY <1>0, <1>6, NumberHeld DEF d
  <2>3. 7 + 1 = 8
    OBVIOUS
  <2>. QED
    BY <2>1, <2>2, <2>3 DEF Codec!Got
<1>11. Len(Codec!OK) + Codec!KeySize + Codec!IvSize = 7 /\ Codec!KeySize = 3 /\ Codec!IvSize = 2
  BY <1>2 DEF ok, Codec!KeySize, Codec!IvSize
<1>12. Codec!DecodeAuthResponse(data) = Response(key, iv, level, caps)
  <2>1. Len(data) >= 7 + 5
    BY <1>6
  <2>. QED
    BY <1>9, <1>10, <1>11, <2>1 DEF Codec!DecodeAuthResponse, Answers, Response
<1>13. Codec!DecodeAuthResponse(short) = Response(key, iv, 0, 0)
  <2>0. Len(short) = 7
    BY <1>7
  <2>1. ~(Len(short) >= 7 + 5)
    BY <2>0
  <2>. QED
    BY <1>9, <1>11, <2>1 DEF Codec!DecodeAuthResponse, Answers, Response
<1>. QED
  BY <1>12, <1>13 DEF short, IsGranted

\* An answer as an older host gives it.
OlderAnswer(r) == [r EXCEPT !.grantedLevel = 0, !.grantedCaps = 0]

\* The record of an older answer.
LEMMA LessGranted ==
  ASSUME NEW key, NEW iv, NEW level, NEW caps, NEW r, r = Response(key, iv, level, caps)
  PROVE  OlderAnswer(r) = Response(key, iv, 0, 0)
<1>0. PICK zero : zero = 0
  OBVIOUS
<1>1. PICK l : l = TRUE
  OBVIOUS
<1>2. r = [ok |-> l, sessionKey |-> key, iv |-> iv, grantedLevel |-> level, grantedCaps |-> caps]
  BY <1>1 DEF Response
<1>3. PICK S : S = {l, key, iv, level, caps, zero}
  OBVIOUS
<1>4. l \in S /\ key \in S /\ iv \in S /\ level \in S /\ caps \in S /\ zero \in S
  BY <1>3
<1>. DEFINE x == [r EXCEPT !.grantedLevel = zero, !.grantedCaps = zero]
           y == [ok |-> l, sessionKey |-> key, iv |-> iv, grantedLevel |-> zero, grantedCaps |-> zero]
<1>5. x \in [ok : S, sessionKey : S, iv : S, grantedLevel : S, grantedCaps : S]
  <2>1. r \in [ok : S, sessionKey : S, iv : S, grantedLevel : S, grantedCaps : S]
    BY <1>2, <1>4
  <2>. QED
    BY <1>4, <2>1
<1>6. y \in [ok : S, sessionKey : S, iv : S, grantedLevel : S, grantedCaps : S]
  BY <1>4
<1>7. /\ x.ok = y.ok /\ x.sessionKey = y.sessionKey /\ x.iv = y.iv
      /\ x.grantedLevel = y.grantedLevel /\ x.grantedCaps = y.grantedCaps
  BY <1>2
<1>. HIDE DEF x, y
<1>8. x = y
  BY <1>5, <1>6, <1>7
<1>. QED
  BY <1>0, <1>1, <1>8 DEF x, y, Response, OlderAnswer

\* Every answer is read as it was meant.
LEMMA ResponseMeant ==
  ASSUME NEW r \in Codec!AuthResponses
  PROVE  /\ Codec!DecodeAuthResponse(Codec!EncodeAuthResponse(r)) = r
         /\ r.ok => LET p == Codec!EncodeAuthResponse(r)
                    IN Codec!DecodeAuthResponse(Codec!Cut(p, Len(p) - 5)) = OlderAnswer(r)
<1>1. CASE r.ok
  <2>. DEFINE key == r.sessionKey
             iv == r.iv
             data == Codec!EncodeAuthResponse(r)
  <2>1. /\ key = << 1, 2, 3 >> /\ iv = << 3, 1 >> /\ r.grantedLevel \in 0 .. Base - 1
        /\ r.grantedCaps \in {0, Base + 2} /\ r = Response(key, iv, r.grantedLevel, r.grantedCaps)
    BY <1>1 DEF Codec!AuthResponses, Response
  <2>2. key \in ByteStrings /\ Len(key) = 3 /\ iv \in ByteStrings /\ Len(iv) = 2
    BY <2>1 DEF ByteStrings
  <2>3. Fits(r.grantedLevel, 1) /\ Fits(r.grantedCaps, 4)
    BY <2>1, StoresAssumption, SmallFits
  <2>4. Codec!Padded(key, 3) = key /\ Codec!Padded(iv, 2) = iv
    BY <2>2, PaddedWhole
  <2>5. data = Codec!OK \o key \o iv \o Codec!Bytes(r.grantedLevel, 1) \o Codec!Bytes(r.grantedCaps, 4)
    BY <1>1, <2>4 DEF Codec!EncodeAuthResponse, Codec!KeySize, Codec!IvSize
  <2>6. OlderAnswer(r) = Response(key, iv, 0, 0)
    <3>. HIDE DEF key, iv
    <3>1. PICK level, caps : level = r.grantedLevel /\ caps = r.grantedCaps
      OBVIOUS
    <3>2. r = Response(key, iv, level, caps)
      BY <2>1, <3>1
    <3>. QED
      BY <3>2, LessGranted
  <2>. HIDE DEF key, iv, data
  <2>7. /\ Codec!DecodeAuthResponse(data) = Response(key, iv, r.grantedLevel, r.grantedCaps)
        /\ Codec!DecodeAuthResponse(Codec!Cut(data, Len(data) - 5)) = Response(key, iv, 0, 0)
    <3>1. PICK level, caps : level = r.grantedLevel /\ caps = r.grantedCaps
      OBVIOUS
    <3>2. PICK sent : sent = data
      OBVIOUS
    <3>3. IsResponse(sent, key, iv, level, caps)
      BY <2>2, <2>3, <2>5, <3>1, <3>2 DEF IsResponse
    <3>4. IsGranted(sent, key, iv, level, caps)
      BY <3>3, ResponseRead
    <3>. QED
      BY <3>1, <3>2, <3>4 DEF IsGranted
  <2>. QED
    BY <2>1, <2>6, <2>7 DEF data
<1>2. CASE ~r.ok
  <2>1. r = [ok |-> FALSE]
    BY <1>2 DEF Codec!AuthResponses
  <2>2. Codec!EncodeAuthResponse(r) = << 3 >>
    BY <1>2 DEF Codec!EncodeAuthResponse, Codec!Failed
  <2>3. Codec!Cut(<< 3 >>, 2) # Codec!OK
    <3>1. << 3 >> \in ByteStrings /\ Len(<< 3 >>) = 1
      BY DEF ByteStrings
    <3>2. Len(Codec!Cut(<< 3 >>, 2)) = 1
      BY <3>1, CutTo
    <3>. QED
      BY <3>2 DEF Codec!OK
  <2>4. Codec!DecodeAuthResponse(<< 3 >>) = [ok |-> FALSE]
    BY <2>3 DEF Codec!DecodeAuthResponse
  <2>. QED
    BY <1>2, <2>1, <2>2, <2>4
<1>. QED
  BY <1>1, <1>2

-----------------------------------------------------------------------------
(* The two steps of the codec.                                             *)

\* What a sender may have been given, and what the receiver makes of a payload.
Sent(t, k, v, o) == [type |-> t, layout |-> k, value |-> v, older |-> o]
\* A type, a layout and a value for it.
IsSent(t, k, v) ==
  \/ /\ t = "payload" /\ k \in DOMAIN Codec!Layouts
     /\ v \in Codec!Samples(Codec!Layouts[k]) /\ Codec!Fits(Codec!Layouts[k], v)
  \/ t = "AuthRequest" /\ v \in Codec!AuthRequests
  \/ t = "AuthResponse" /\ v \in Codec!AuthResponses
\* A message of this version or an older one.
IsMessage(m) == \E t, k, v : \E o \in BOOLEAN : IsSent(t, k, v) /\ m = Sent(t, k, v, o)
\* What Receive makes of a message that came as w.
Received(m, w) ==
  CASE m.type = "payload" -> Codec!Decode(Codec!Layouts[m.layout], w)
    [] m.type = "AuthRequest" -> Codec!DecodeAuthRequest(w)
    [] m.type = "AuthResponse" -> Codec!DecodeAuthResponse(w)

\* A message turned into that of another version.
LEMMA SentAgain ==
  ASSUME NEW t, NEW k, NEW v, NEW o, NEW p
  PROVE  [Sent(t, k, v, o) EXCEPT !.older = p] = Sent(t, k, v, p)
<1>1. PICK S : S = {t, k, v, o, p}
  OBVIOUS
<1>2. t \in S /\ k \in S /\ v \in S /\ o \in S /\ p \in S
  BY <1>1
<1>3. PICK m : m = [type |-> t, layout |-> k, value |-> v, older |-> o]
  OBVIOUS
<1>. DEFINE x == [m EXCEPT !.older = p]
           y == [type |-> t, layout |-> k, value |-> v, older |-> p]
<1>4. m \in [type : S, layout : S, value : S, older : S]
  BY <1>2, <1>3
<1>5. x \in [type : S, layout : S, value : S, older : S]
  BY <1>2, <1>4
<1>6. y \in [type : S, layout : S, value : S, older : S]
  BY <1>2
<1>7. x.type = y.type /\ x.layout = y.layout /\ x.value = y.value /\ x.older = y.older
  BY <1>3, <1>4
<1>. HIDE DEF x, y
<1>8. x = y
  BY <1>5, <1>6, <1>7
<1>. QED
  BY <1>3, <1>8 DEF x, y, Sent

\* A payload is read as it was meant, from senders of both versions.
LEMMA PayloadRoundTrip ==
  ASSUME MaxDevices \in {0, 1}, NEW k, NEW v, IsSent("payload", k, v), NEW o \in BOOLEAN
  PROVE  LET m == Sent("payload", k, v, o) IN Received(m, Codec!Payload(m)) = Codec!Meant(m)
<1>. DEFINE layout == Codec!Layouts[k]
           m == Sent("payload", k, v, o)
<1>1. m.type = "payload" /\ m.layout = k /\ m.value = v /\ m.older = o
  BY DEF Sent
<1>2. /\ Codec!Decode(layout, Codec!Encode(layout, v)) = v
      /\ Codec!Decode(layout, Codec!Encode(Codec!Older(layout), v))
           = [i \in DOMAIN v |-> IF Codec!IsNewer(layout[i]) THEN << >> ELSE v[i]]
  <2>1. k \in DOMAIN Codec!Layouts /\ v \in Codec!Samples(Codec!Layouts[k]) /\ Codec!Fits(Codec!Layouts[k], v)
    BY DEF IsSent
  <2>. QED
    BY <2>1, PayloadMeant
<1>. HIDE DEF m
<1>3. Received(m, Codec!Payload(m)) = Codec!Decode(layout, Codec!Payload(m))
  BY <1>1 DEF Received
<1>. HIDE DEF layout
<1>4. CASE o
  <2>1. Codec!Payload(m) = Codec!Encode(Codec!Older(layout), v)
    BY <1>1, <1>4 DEF Codec!Payload, layout
  <2>2. Codec!Meant(m) = [i \in DOMAIN v |-> IF Codec!IsNewer(layout[i]) THEN << >> ELSE v[i]]
    BY <1>1, <1>4 DEF Codec!Meant, layout
  <2>. QED
    BY <1>2, <1>3, <2>1, <2>2 DEF m
<1>5. CASE ~o
  <2>1. Codec!Payload(m) = Codec!Encode(layout, v)
    BY <1>1, <1>5 DEF Codec!Payload, layout
  <2>2. Codec!Meant(m) = v
    BY <1>1, <1>5 DEF Codec!Meant
  <2>. QED
    BY <1>2, <1>3, <2>1, <2>2 DEF m
<1>. QED
  BY <1>4, <1>5

\* So is a request.
LEMMA RequestRoundTrip ==
  ASSUME NEW k, NEW v \in Codec!AuthRequests, NEW o \in BOOLEAN
  PROVE  LET m == Sent("AuthRequest", k, v, o) IN Received(m, Codec!Payload(m)) = Codec!Meant(m)
<1>. DEFINE m == Sent("AuthRequest", k, v, o)
<1>1. m.type = "AuthRequest" /\ m.value = v
  BY DEF Sent
<1>. HIDE DEF m
<1>2. Codec!Payload(m) = Codec!EncodeAuthRequest(v)
  BY <1>1 DEF Codec!Payload
<1>3. Received(m, Codec!Payload(m)) = Codec!DecodeAuthRequest(Codec!EncodeAuthRequest(v))
  BY <1>1, <1>2 DEF Received
<1>4. Codec!Meant(m) = [v EXCEPT !.username = Codec!Cut(v.username, Base - 1)]
  BY <1>1 DEF Codec!Meant
<1>5. Received(m, Codec!Payload(m)) = Codec!Meant(m)
  BY <1>3, <1>4, RequestMeant
<1>. QED
  BY <1>5 DEF m

\* So is an answer.
LEMMA ResponseRoundTrip ==
  ASSUME NEW k, NEW v \in Codec!AuthResponses, NEW o \in BOOLEAN
  PROVE  LET m == Sent("AuthResponse", k, v, o) IN Received(m, Codec!Payload(m)) = Codec!Meant(m)
<1>. DEFINE m == Sent("AuthResponse", k, v, o)
           p == Codec!EncodeAuthResponse(v)
<1>1. m.type = "AuthResponse" /\ m.value = v /\ m.older = o
  BY DEF Sent
<1>2. /\ Codec!DecodeAuthResponse(p) = v
      /\ v.ok => Codec!DecodeAuthResponse(Codec!Cut(p, Len(p) - 5)) = OlderAnswer(v)
  BY ResponseMeant
<1>. HIDE DEF m
<1>3. Received(m, Codec!Payload(m)) = Codec!DecodeAuthResponse(Codec!Payload(m))
  BY <1>1 DEF Received
<1>4. CASE o /\ v.ok
  <2>1. Codec!Payload(m) = Codec!Cut(p, Len(p) - 5)
    BY <1>1, <1>4 DEF Codec!Payload
  <2>2. Codec!Meant(m) = OlderAnswer(v)
    BY <1>1, <1>4 DEF Codec!Meant, OlderAnswer
  <2>. QED
    BY <1>2, <1>3, <1>4, <2>1, <2>2 DEF m
<1>5. CASE ~(o /\ v.ok)
  <2>1. Codec!Payload(m) = p
    BY <1>1, <1>5 DEF Codec!Payload
  <2>2. Codec!Meant(m) = v
    BY <1>1, <1>5 DEF Codec!Meant
  <2>. QED
    BY <1>2, <1>3, <2>1, <2>2 DEF m
<1>. QED
  BY <1>4, <1>5

\* So is every message.
LEMMA MessageMeant ==
  ASSUME MaxDevices \in {0, 1}, NEW m, IsMessage(m)
  PROVE  Received(m, Codec!Payload(m)) = Codec!Meant(m)
<1>1. PICK t, k, v, o : o \in BOOLEAN /\ IsSent(t, k, v) /\ m = Sent(t, k, v, o)
  BY DEF IsMessage
<1>2. CASE t = "payload"
  BY <1>1, <1>2, PayloadRoundTrip
<1>3. CASE t = "AuthRequest" /\ v \in Codec!AuthRequests
  BY <1>1, <1>3, RequestRoundTrip
<1>4. CASE t = "AuthResponse" /\ v \in Codec!AuthResponses
  BY <1>1, <1>4, ResponseRoundTrip
<1>. QED
  BY <1>1, <1>2, <1>3, <1>4 DEF IsSent

\* What is on the wire is the message, and what was read of it is what was meant.
CodecInv ==
  /\ IsMessage(message)
  /\ wire # << >> => wire = Codec!Payload(message)
  /\ Codec!RoundTrip

\* At first there is a message and nothing on the wire.
LEMMA CodecInit == Codec!Init => CodecInv
<1>. SUFFICES ASSUME Codec!Init PROVE CodecInv
  OBVIOUS
<1>1. wire = << >> /\ decoded = {}
  BY DEF Codec!Init
<1>2. IsMessage(message)
  <2>1. CASE \E k \in DOMAIN Codec!Layouts : \E v \in Codec!Samples(Codec!Layouts[k]) :
               /\ Codec!Fits(Codec!Layouts[k], v)
               /\ message = [type |-> "payload", layout |-> k, value |-> v, older |-> FALSE]
    <3>1. PICK k \in DOMAIN Codec!Layouts : \E v \in Codec!Samples(Codec!Layouts[k]) :
            Codec!Fits(Codec!Layouts[k], v) /\ message = Sent("payload", k, v, FALSE)
      BY <2>1 DEF Sent
    <3>2. PICK v \in Codec!Samples(Codec!Layouts[k]) :
            Codec!Fits(Codec!Layouts[k], v) /\ message = Sent("payload", k, v, FALSE)
      BY <3>1
    <3>3. IsSent("payload", k, v)
      BY <3>2 DEF IsSent
    <3>. QED
      BY <3>2, <3>3 DEF IsMessage
  <2>2. CASE \E v \in Codec!AuthRequests :
               message = [type |-> "AuthRequest", layout |-> 0, value |-> v, older |-> FALSE]
    <3>1. PICK v \in Codec!AuthRequests : message = Sent("AuthRequest", 0, v, FALSE)
      BY <2>2 DEF Sent
    <3>2. IsSent("AuthRequest", 0, v)
      BY <3>1 DEF IsSent
    <3>. QED
      BY <3>1, <3>2 DEF IsMessage
  <2>3. CASE \E v \in Codec!AuthResponses :
               message = [type |-> "AuthResponse", layout |-> 0, value |-> v, older |-> FALSE]
    <3>1. PICK v \in Codec!AuthResponses : message = Sent("AuthResponse", 0, v, FALSE)
      BY <2>3 DEF Sent
    <3>2. IsSent("AuthResponse", 0, v)
      BY <3>1 DEF IsSent
    <3>. QED
      BY <3>1, <3>2 DEF IsMessage
  <2>. QED
    BY <2>1, <2>2, <2>3 DEF Codec!Init
<1>. QED
  BY <1>1, <1>2 DEF CodecInv, Codec!RoundTrip

\* Send puts the message on the wire, Receive reads what was meant.
LEMMA CodecStepKeeps ==
  ASSUME MaxDevices \in {0, 1}, CodecInv, Codec!Next
  PROVE  CodecInv'
<1>1. CASE Codec!Send
  <2>1. PICK older \in BOOLEAN : message' = [message EXCEPT !.older = older]
    BY <1>1 DEF Codec!Send
  <2>2. PICK t, k, v, o : IsSent(t, k, v) /\ message = Sent(t, k, v, o)
    BY DEF CodecInv, IsMessage
  <2>3. message' = Sent(t, k, v, older)
    BY <2>1, <2>2, SentAgain
  <2>4. IsMessage(message')
    BY <2>1, <2>2, <2>3 DEF IsMessage
  <2>5. wire' = Codec!Payload(message') /\ decoded' = {}
    BY <1>1 DEF Codec!Send
  <2>6. wire' = Codec!Payload(message)'
    BY <2>5 DEF Codec!Payload
  <2>. QED
    BY <2>4, <2>5, <2>6 DEF CodecInv, Codec!RoundTrip
<1>2. CASE Codec!Receive
  <2>1. /\ wire = Codec!Payload(message) /\ message' = message /\ wire' = wire
        /\ decoded' = {Received(message, wire)}
    BY <1>2 DEF Codec!Receive, CodecInv, Received
  <2>2. decoded' = {Codec!Meant(message)}
    BY <2>1, MessageMeant DEF CodecInv
  <2>3. Codec!RoundTrip'
    BY <2>1, <2>2 DEF Codec!RoundTrip
  <2>. QED
    BY <2>1, <2>3 DEF CodecInv
<1>. QED
  BY <1>1, <1>2 DEF Codec!Next

-----------------------------------------------------------------------------
(* MessengerCommands: every key a document is read for was written, with   *)
(* the type it is read with.                                               *)

\* The keys every document has besides those of its command.
Signed(d) == [id |-> Talk!Text(d), name |-> Talk!Text("senderName"), timestamp |-> Talk!Num("timestamp")]

\* What is wanted of a document gets what its sender was given.
Faithful(written, wants) ==
  /\ \A k \in DOMAIN written : written[k].of \notin {"none", "groupName"} => written[k].of \in DOMAIN wants
  /\ \A d : \A f \in DOMAIN wants :
       Talk!Value(Talk!Merge(written, Signed(d)), wants[f]) = IF f = "sender" THEN d ELSE f

\* The commands of a conversation that are read as they are written.
LEMMA TalkFaithful ==
  /\ Faithful(Talk!Talk.MSG, Talk!ReadsTalk.MSG)
  /\ Faithful(Talk!Talk.RECALL, Talk!ReadsTalk.RECALL)
  /\ Faithful(Talk!Talk.READ, Talk!ReadsTalk.READ)
  /\ Faithful(Talk!Talk.TYPING, Talk!ReadsTalk.TYPING)
<1>1. Faithful(Talk!Talk.MSG, Talk!ReadsTalk.MSG)
  <2>. DEFINE written == Talk!Talk.MSG
             wants == Talk!ReadsTalk.MSG
  <2>1. /\ DOMAIN written = {"message", "recallId"}
        /\ written.message = Talk!Text("message")
        /\ written.recallId = Talk!Text("recallId")
    BY DEF Talk!Talk
  <2>2. /\ DOMAIN wants = {"message", "recallId", "sender", "senderName", "timestamp"}
        /\ wants.message = Talk!From("message")
        /\ wants.recallId = Talk!From("recallId")
        /\ wants.sender = Talk!From("id")
        /\ wants.senderName = Talk!From("name")
        /\ wants.timestamp = Talk!FromNum("timestamp")
    BY DEF Talk!ReadsTalk, Talk!Message, Talk!Merge
  <2>. HIDE DEF written, wants
  <2>3. \A k \in DOMAIN written : written[k].of \in DOMAIN wants
    BY <2>1, <2>2 DEF Talk!Text, Talk!Num, Talk!Base64
  <2>4. ASSUME NEW d, NEW f \in DOMAIN wants
        PROVE  Talk!Value(Talk!Merge(written, Signed(d)), wants[f]) = IF f = "sender" THEN d ELSE f
    <3>. DEFINE document == Talk!Merge(written, Signed(d))
    <3>1. /\ DOMAIN document = {"message", "recallId", "id", "name", "timestamp"}
          /\ document.message = Talk!Text("message")
          /\ document.recallId = Talk!Text("recallId")
          /\ document.id = Talk!Text(d) /\ document.name = Talk!Text("senderName")
          /\ document.timestamp = Talk!Num("timestamp")
      BY <2>1 DEF Talk!Merge, Signed
    <3>. HIDE DEF document
    <3>2. Talk!Value(document, wants[f]) = IF f = "sender" THEN d ELSE f
      BY <2>2, <3>1 DEF Talk!Value, Talk!Text, Talk!Num, Talk!Base64, Talk!From, Talk!FromNum,
         Talk!FromBase64
    <3>. QED
      BY <3>2 DEF document
  <2>5. Faithful(written, wants)
    BY <2>3, <2>4 DEF Faithful
  <2>. QED
    BY <2>5 DEF written, wants
<1>2. Faithful(Talk!Talk.RECALL, Talk!ReadsTalk.RECALL)
  BY DEF Faithful, Talk!Talk, Talk!ReadsTalk, Talk!Merge, Signed, Talk!Value, Talk!Text, Talk!Num, Talk!From
<1>3. Faithful(Talk!Talk.READ, Talk!ReadsTalk.READ)
  BY DEF Faithful, Talk!Talk, Talk!ReadsTalk, Talk!Merge, Signed, Talk!Value, Talk!Text, Talk!Num, Talk!From
<1>4. Faithful(Talk!Talk.TYPING, Talk!ReadsTalk.TYPING)
  BY DEF Faithful, Talk!Talk, Talk!ReadsTalk, Talk!Merge, Signed, Talk!Value, Talk!Text, Talk!Num, Talk!From
<1>. QED
  BY <1>1, <1>2, <1>3, <1>4

\* Those of a friendship.
LEMMA BefriendingFaithful ==
  /\ Faithful(Talk!Befriending.FRIEND_REQUEST, Talk!ReadsBefriending.FRIEND_REQUEST)
  /\ Faithful(Talk!Befriending.FRIEND_ACCEPT, Talk!ReadsBefriending.FRIEND_ACCEPT)
  /\ Faithful(Talk!Befriending.FRIEND_REJECT, Talk!ReadsBefriending.FRIEND_REJECT)
<1>1. Faithful(Talk!Befriending.FRIEND_REQUEST, Talk!ReadsBefriending.FRIEND_REQUEST)
  BY DEF Faithful, Talk!Befriending, Talk!ReadsBefriending, Talk!Sender, Talk!Merge, Signed, Talk!Value,
         Talk!Text, Talk!Num, Talk!From
<1>2. Faithful(Talk!Befriending.FRIEND_ACCEPT, Talk!ReadsBefriending.FRIEND_ACCEPT)
  BY DEF Faithful, Talk!Befriending, Talk!ReadsBefriending, Talk!Sender, Talk!Merge, Signed, Talk!Value,
         Talk!Text, Talk!Num, Talk!From
<1>3. Faithful(Talk!Befriending.FRIEND_REJECT, Talk!ReadsBefriending.FRIEND_REJECT)
  BY DEF Faithful, Talk!Befriending, Talk!ReadsBefriending, Talk!Sender, Talk!Merge, Signed, Talk!Value,
         Talk!Text, Talk!Num, Talk!From
<1>. QED
  BY <1>1, <1>2, <1>3

\* Those that carry media.
LEMMA MediaFaithful ==
  /\ Faithful(Talk!Media.VOICE_MSG, Talk!ReadsMedia.VOICE_MSG)
  /\ Faithful(Talk!Media.VIDEO_MSG, Talk!ReadsMedia.VIDEO_MSG)
  /\ Faithful(Talk!Media.LOCATION_MSG, Talk!ReadsMedia.LOCATION_MSG)
  /\ Faithful(Talk!Media.CARD_MSG, Talk!ReadsMedia.CARD_MSG)
<1>1. Faithful(Talk!Media.VOICE_MSG, Talk!ReadsMedia.VOICE_MSG)
  <2>. DEFINE written == Talk!Media.VOICE_MSG
             wants == Talk!ReadsMedia.VOICE_MSG
  <2>1. /\ DOMAIN written = {"voiceData", "voiceDuration"}
        /\ written.voiceData = Talk!Base64("voiceData")
        /\ written.voiceDuration = Talk!Num("duration")
    BY DEF Talk!Media
  <2>2. /\ DOMAIN wants = {"voiceData", "duration", "sender", "senderName", "timestamp"}
        /\ wants.voiceData = Talk!FromBase64("voiceData")
        /\ wants.duration = Talk!FromNum("voiceDuration")
        /\ wants.sender = Talk!From("id")
        /\ wants.senderName = Talk!From("name")
        /\ wants.timestamp = Talk!FromNum("timestamp")
    BY DEF Talk!ReadsMedia, Talk!Message, Talk!Merge
  <2>. HIDE DEF written, wants
  <2>3. \A k \in DOMAIN written : written[k].of \in DOMAIN wants
    BY <2>1, <2>2 DEF Talk!Text, Talk!Num, Talk!Base64
  <2>4. ASSUME NEW d, NEW f \in DOMAIN wants
        PROVE  Talk!Value(Talk!Merge(written, Signed(d)), wants[f]) = IF f = "sender" THEN d ELSE f
    <3>. DEFINE document == Talk!Merge(written, Signed(d))
    <3>1. /\ DOMAIN document = {"voiceData", "voiceDuration", "id", "name", "timestamp"}
          /\ document.voiceData = Talk!Base64("voiceData")
          /\ document.voiceDuration = Talk!Num("duration")
          /\ document.id = Talk!Text(d) /\ document.name = Talk!Text("senderName")
          /\ document.timestamp = Talk!Num("timestamp")
      BY <2>1 DEF Talk!Merge, Signed
    <3>. HIDE DEF document
    <3>2. Talk!Value(document, wants[f]) = IF f = "sender" THEN d ELSE f
      BY <2>2, <3>1 DEF Talk!Value, Talk!Text, Talk!Num, Talk!Base64, Talk!From, Talk!FromNum,
         Talk!FromBase64
    <3>. QED
      BY <3>2 DEF document
  <2>5. Faithful(written, wants)
    BY <2>3, <2>4 DEF Faithful
  <2>. QED
    BY <2>5 DEF written, wants
<1>2. Faithful(Talk!Media.VIDEO_MSG, Talk!ReadsMedia.VIDEO_MSG)
  <2>. DEFINE written == Talk!Media.VIDEO_MSG
             wants == Talk!ReadsMedia.VIDEO_MSG
  <2>1. /\ DOMAIN written = {"videoData", "videoDuration", "videoWidth", "videoHeight"}
        /\ written.videoData = Talk!Base64("videoData")
        /\ written.videoDuration = Talk!Num("duration")
        /\ written.videoWidth = Talk!Num("width")
        /\ written.videoHeight = Talk!Num("height")
    BY DEF Talk!Media
  <2>2. /\ DOMAIN wants = {"videoData", "duration", "width", "height", "sender", "senderName", "timestamp"}
        /\ wants.videoData = Talk!FromBase64("videoData")
        /\ wants.duration = Talk!FromNum("videoDuration")
        /\ wants.width = Talk!FromNum("videoWidth")
        /\ wants.height = Talk!FromNum("videoHeight")
        /\ wants.sender = Talk!From("id")
        /\ wants.senderName = Talk!From("name")
        /\ wants.timestamp = Talk!FromNum("timestamp")
    BY DEF Talk!ReadsMedia, Talk!Message, Talk!Merge
  <2>. HIDE DEF written, wants
  <2>3. \A k \in DOMAIN written : written[k].of \in DOMAIN wants
    BY <2>1, <2>2 DEF Talk!Text, Talk!Num, Talk!Base64
  <2>4. ASSUME NEW d, NEW f \in DOMAIN wants
        PROVE  Talk!Value(Talk!Merge(written, Signed(d)), wants[f]) = IF f = "sender" THEN d ELSE f
    <3>. DEFINE document == Talk!Merge(written, Signed(d))
    <3>1. /\ DOMAIN document = {"videoData", "videoDuration", "videoWidth", "videoHeight",
                                 "id", "name", "timestamp"}
          /\ document.videoData = Talk!Base64("videoData")
          /\ document.videoDuration = Talk!Num("duration")
          /\ document.videoWidth = Talk!Num("width")
          /\ document.videoHeight = Talk!Num("height")
          /\ document.id = Talk!Text(d) /\ document.name = Talk!Text("senderName")
          /\ document.timestamp = Talk!Num("timestamp")
      BY <2>1 DEF Talk!Merge, Signed
    <3>. HIDE DEF document
    <3>2. Talk!Value(document, wants[f]) = IF f = "sender" THEN d ELSE f
      BY <2>2, <3>1 DEF Talk!Value, Talk!Text, Talk!Num, Talk!Base64, Talk!From, Talk!FromNum,
         Talk!FromBase64
    <3>. QED
      BY <3>2 DEF document
  <2>5. Faithful(written, wants)
    BY <2>3, <2>4 DEF Faithful
  <2>. QED
    BY <2>5 DEF written, wants
<1>3. Faithful(Talk!Media.LOCATION_MSG, Talk!ReadsMedia.LOCATION_MSG)
  <2>. DEFINE written == Talk!Media.LOCATION_MSG
             wants == Talk!ReadsMedia.LOCATION_MSG
  <2>1. /\ DOMAIN written = {"latitude", "longitude", "locationName"}
        /\ written.latitude = Talk!Text("lat")
        /\ written.longitude = Talk!Text("lon")
        /\ written.locationName = Talk!Text("name")
    BY DEF Talk!Media
  <2>2. /\ DOMAIN wants = {"lat", "lon", "name", "sender", "senderName", "timestamp"}
        /\ wants.lat = Talk!From("latitude")
        /\ wants.lon = Talk!From("longitude")
        /\ wants.name = Talk!From("locationName")
        /\ wants.sender = Talk!From("id")
        /\ wants.senderName = Talk!From("name")
        /\ wants.timestamp = Talk!FromNum("timestamp")
    BY DEF Talk!ReadsMedia, Talk!Message, Talk!Merge
  <2>. HIDE DEF written, wants
  <2>3. \A k \in DOMAIN written : written[k].of \in DOMAIN wants
    BY <2>1, <2>2 DEF Talk!Text, Talk!Num, Talk!Base64
  <2>4. ASSUME NEW d, NEW f \in DOMAIN wants
        PROVE  Talk!Value(Talk!Merge(written, Signed(d)), wants[f]) = IF f = "sender" THEN d ELSE f
    <3>. DEFINE document == Talk!Merge(written, Signed(d))
    <3>1. /\ DOMAIN document = {"latitude", "longitude", "locationName", "id", "name", "timestamp"}
          /\ document.latitude = Talk!Text("lat")
          /\ document.longitude = Talk!Text("lon")
          /\ document.locationName = Talk!Text("name")
          /\ document.id = Talk!Text(d) /\ document.name = Talk!Text("senderName")
          /\ document.timestamp = Talk!Num("timestamp")
      BY <2>1 DEF Talk!Merge, Signed
    <3>. HIDE DEF document
    <3>2. Talk!Value(document, wants[f]) = IF f = "sender" THEN d ELSE f
      BY <2>2, <3>1 DEF Talk!Value, Talk!Text, Talk!Num, Talk!Base64, Talk!From, Talk!FromNum,
         Talk!FromBase64
    <3>. QED
      BY <3>2 DEF document
  <2>5. Faithful(written, wants)
    BY <2>3, <2>4 DEF Faithful
  <2>. QED
    BY <2>5 DEF written, wants
<1>4. Faithful(Talk!Media.CARD_MSG, Talk!ReadsMedia.CARD_MSG)
  BY DEF Faithful, Talk!Media, Talk!ReadsMedia, Talk!Message, Talk!Merge, Signed, Talk!Value, Talk!Text,
         Talk!Num, Talk!From, Talk!FromNum
<1>. QED
  BY <1>1, <1>2, <1>3, <1>4

\* Those of a call, but for the invitation.
LEMMA CallsFaithful ==
  /\ Faithful(Talk!Calls.CALL_ACCEPT, Talk!ReadsCalls.CALL_ACCEPT)
  /\ Faithful(Talk!Calls.CALL_REJECT, Talk!ReadsCalls.CALL_REJECT)
  /\ Faithful(Talk!Calls.CALL_END, Talk!ReadsCalls.CALL_END)
  /\ Faithful(Talk!Calls.ICE_CANDIDATE, Talk!ReadsCalls.ICE_CANDIDATE)
<1>1. Faithful(Talk!Calls.CALL_ACCEPT, Talk!ReadsCalls.CALL_ACCEPT)
  BY DEF Faithful, Talk!Calls, Talk!ReadsCalls, Talk!Merge, Signed, Talk!Value, Talk!Text, Talk!Num,
         Talk!From, Talk!Base64, Talk!FromBase64
<1>2. Faithful(Talk!Calls.CALL_REJECT, Talk!ReadsCalls.CALL_REJECT)
  BY DEF Faithful, Talk!Calls, Talk!ReadsCalls, Talk!Merge, Signed, Talk!Value, Talk!Text, Talk!Num,
         Talk!From, Talk!Base64, Talk!FromBase64
<1>3. Faithful(Talk!Calls.CALL_END, Talk!ReadsCalls.CALL_END)
  BY DEF Faithful, Talk!Calls, Talk!ReadsCalls, Talk!Merge, Signed, Talk!Value, Talk!Text, Talk!Num,
         Talk!From, Talk!Base64, Talk!FromBase64
<1>4. Faithful(Talk!Calls.ICE_CANDIDATE, Talk!ReadsCalls.ICE_CANDIDATE)
  BY DEF Faithful, Talk!Calls, Talk!ReadsCalls, Talk!Merge, Signed, Talk!Value, Talk!Text, Talk!Num,
         Talk!From, Talk!Base64, Talk!FromBase64
<1>. QED
  BY <1>1, <1>2, <1>3, <1>4

\* Those to a group.
LEMMA ToGroupFaithful ==
  /\ Faithful(Talk!ToGroup.GROUP_ANNOUNCEMENT, Talk!ReadsGroup.GROUP_ANNOUNCEMENT)
  /\ Faithful(Talk!ToGroup.GROUP_MENTION, Talk!ReadsGroup.GROUP_MENTION)
  /\ Faithful(Talk!ToGroup.GROUP_VOTE, Talk!ReadsGroup.GROUP_VOTE)
<1>1. Faithful(Talk!ToGroup.GROUP_ANNOUNCEMENT, Talk!ReadsGroup.GROUP_ANNOUNCEMENT)
  BY DEF Faithful, Talk!ToGroup, Talk!ReadsGroup, Talk!Merge, Signed, Talk!Value, Talk!Text, Talk!Num,
         Talk!From, Talk!Array, Talk!FromNum, Talk!FromArray
<1>2. Faithful(Talk!ToGroup.GROUP_MENTION, Talk!ReadsGroup.GROUP_MENTION)
  BY DEF Faithful, Talk!ToGroup, Talk!ReadsGroup, Talk!Merge, Signed, Talk!Value, Talk!Text, Talk!Num,
         Talk!From, Talk!Array, Talk!FromNum, Talk!FromArray
<1>3. Faithful(Talk!ToGroup.GROUP_VOTE, Talk!ReadsGroup.GROUP_VOTE)
  BY DEF Faithful, Talk!ToGroup, Talk!ReadsGroup, Talk!Merge, Signed, Talk!Value, Talk!Text, Talk!Num,
         Talk!From, Talk!Array, Talk!FromNum, Talk!FromArray
<1>. QED
  BY <1>1, <1>2, <1>3

\* The commands that are not read as they are written: see the table of divergences in README.md.
Unread == {"REPLY", "IMAGE", "CALL_INVITE"}
\* All other commands.
Readable == DOMAIN Talk!Written \ Unread

\* What a merged record has of each.
LEMMA MergedBoth ==
  ASSUME NEW f, NEW g
  PROVE  /\ DOMAIN Talk!Merge(f, g) = DOMAIN f \cup DOMAIN g
         /\ \A x \in DOMAIN f : Talk!Merge(f, g)[x] = f[x]
         /\ \A x \in DOMAIN g \ DOMAIN f : Talk!Merge(f, g)[x] = g[x]
BY DEF Talk!Merge

\* The commands that are written, part by part.
LEMMA CommandsWritten ==
  /\ DOMAIN Talk!Talk = {"MSG", "REPLY", "IMAGE", "RECALL", "READ", "TYPING"}
  /\ DOMAIN Talk!Befriending = {"FRIEND_REQUEST", "FRIEND_ACCEPT", "FRIEND_REJECT"}
  /\ DOMAIN Talk!Media = {"VOICE_MSG", "VIDEO_MSG", "LOCATION_MSG", "CARD_MSG"}
  /\ DOMAIN Talk!Calls = {"CALL_INVITE", "CALL_ACCEPT", "CALL_REJECT", "CALL_END", "ICE_CANDIDATE"}
  /\ DOMAIN Talk!ToGroup = {"GROUP_ANNOUNCEMENT", "GROUP_MENTION", "GROUP_VOTE"}
BY DEF Talk!Talk, Talk!Befriending, Talk!Media, Talk!Calls, Talk!ToGroup

\* The commands that are understood, part by part.
LEMMA CommandsRead ==
  /\ DOMAIN Talk!ReadsTalk = {"MSG", "RECALL", "READ", "TYPING"}
  /\ DOMAIN Talk!ReadsImage = {"IMAGE"}
  /\ DOMAIN Talk!ReadsBefriending = DOMAIN Talk!Befriending
  /\ DOMAIN Talk!ReadsMedia = DOMAIN Talk!Media
  /\ DOMAIN Talk!ReadsCalls = DOMAIN Talk!Calls
  /\ DOMAIN Talk!ReadsGroup = DOMAIN Talk!ToGroup
BY DEF Talk!ReadsTalk, Talk!ReadsImage, Talk!ReadsBefriending, Talk!ReadsMedia, Talk!ReadsCalls,
       Talk!ReadsGroup, Talk!Talk, Talk!Befriending, Talk!Media, Talk!Calls, Talk!ToGroup

\* Every command is written as its part says.
LEMMA WrittenParts ==
  /\ DOMAIN Talk!Written = DOMAIN Talk!Talk \cup DOMAIN Talk!Befriending \cup DOMAIN Talk!Media
                             \cup DOMAIN Talk!Calls \cup DOMAIN Talk!ToGroup
  /\ \A c \in DOMAIN Talk!Talk : Talk!Written[c] = Talk!Talk[c]
  /\ \A c \in DOMAIN Talk!Befriending : Talk!Written[c] = Talk!Befriending[c]
  /\ \A c \in DOMAIN Talk!Media : Talk!Written[c] = Talk!Media[c]
  /\ \A c \in DOMAIN Talk!Calls : Talk!Written[c] = Talk!Calls[c]
  /\ \A c \in DOMAIN Talk!ToGroup : Talk!Written[c] = Talk!ToGroup[c]
<1>. DEFINE m4 == Talk!Merge(Talk!Calls, Talk!ToGroup)
           m3 == Talk!Merge(Talk!Media, m4)
           m2 == Talk!Merge(Talk!Befriending, m3)
<1>1. Talk!Written = Talk!Merge(Talk!Talk, m2)
  BY DEF Talk!Written
<1>2. /\ DOMAIN m4 = DOMAIN Talk!Calls \cup DOMAIN Talk!ToGroup
      /\ \A x \in DOMAIN Talk!Calls : m4[x] = Talk!Calls[x]
      /\ \A x \in DOMAIN Talk!ToGroup \ DOMAIN Talk!Calls : m4[x] = Talk!ToGroup[x]
  BY MergedBoth
<1>. HIDE DEF m4
<1>3. /\ DOMAIN m3 = DOMAIN Talk!Media \cup DOMAIN m4
      /\ \A x \in DOMAIN Talk!Media : m3[x] = Talk!Media[x]
      /\ \A x \in DOMAIN m4 \ DOMAIN Talk!Media : m3[x] = m4[x]
  BY MergedBoth
<1>. HIDE DEF m3
<1>4. /\ DOMAIN m2 = DOMAIN Talk!Befriending \cup DOMAIN m3
      /\ \A x \in DOMAIN Talk!Befriending : m2[x] = Talk!Befriending[x]
      /\ \A x \in DOMAIN m3 \ DOMAIN Talk!Befriending : m2[x] = m3[x]
  BY MergedBoth
<1>. HIDE DEF m2
<1>5. /\ DOMAIN Talk!Written = DOMAIN Talk!Talk \cup DOMAIN m2
      /\ \A x \in DOMAIN Talk!Talk : Talk!Written[x] = Talk!Talk[x]
      /\ \A x \in DOMAIN m2 \ DOMAIN Talk!Talk : Talk!Written[x] = m2[x]
  BY <1>1, MergedBoth
<1>. QED
  BY <1>2, <1>3, <1>4, <1>5, CommandsWritten

\* Every command is understood as its part says.
LEMMA UnderstoodParts ==
  /\ DOMAIN Talk!Understood = DOMAIN Talk!ReadsTalk \cup DOMAIN Talk!ReadsImage \cup DOMAIN Talk!ReadsBefriending
                                \cup DOMAIN Talk!ReadsMedia \cup DOMAIN Talk!ReadsCalls \cup DOMAIN Talk!ReadsGroup
  /\ \A c \in DOMAIN Talk!ReadsTalk : Talk!Understood[c] = Talk!ReadsTalk[c]
  /\ \A c \in DOMAIN Talk!ReadsBefriending : Talk!Understood[c] = Talk!ReadsBefriending[c]
  /\ \A c \in DOMAIN Talk!ReadsMedia : Talk!Understood[c] = Talk!ReadsMedia[c]
  /\ \A c \in DOMAIN Talk!ReadsCalls : Talk!Understood[c] = Talk!ReadsCalls[c]
  /\ \A c \in DOMAIN Talk!ReadsGroup : Talk!Understood[c] = Talk!ReadsGroup[c]
<1>. DEFINE m5 == Talk!Merge(Talk!ReadsCalls, Talk!ReadsGroup)
           m4 == Talk!Merge(Talk!ReadsMedia, m5)
           m3 == Talk!Merge(Talk!ReadsBefriending, m4)
           m2 == Talk!Merge(Talk!ReadsImage, m3)
<1>1. Talk!Understood = Talk!Merge(Talk!ReadsTalk, m2)
  BY DEF Talk!Understood
<1>2. /\ DOMAIN m5 = DOMAIN Talk!ReadsCalls \cup DOMAIN Talk!ReadsGroup
      /\ \A x \in DOMAIN Talk!ReadsCalls : m5[x] = Talk!ReadsCalls[x]
      /\ \A x \in DOMAIN Talk!ReadsGroup \ DOMAIN Talk!ReadsCalls : m5[x] = Talk!ReadsGroup[x]
  BY MergedBoth
<1>. HIDE DEF m5
<1>3. /\ DOMAIN m4 = DOMAIN Talk!ReadsMedia \cup DOMAIN m5
      /\ \A x \in DOMAIN Talk!ReadsMedia : m4[x] = Talk!ReadsMedia[x]
      /\ \A x \in DOMAIN m5 \ DOMAIN Talk!ReadsMedia : m4[x] = m5[x]
  BY MergedBoth
<1>. HIDE DEF m4
<1>4. /\ DOMAIN m3 = DOMAIN Talk!ReadsBefriending \cup DOMAIN m4
      /\ \A x \in DOMAIN Talk!ReadsBefriending : m3[x] = Talk!ReadsBefriending[x]
      /\ \A x \in DOMAIN m4 \ DOMAIN Talk!ReadsBefriending : m3[x] = m4[x]
  BY MergedBoth
<1>. HIDE DEF m3
<1>5. /\ DOMAIN m2 = DOMAIN Talk!ReadsImage \cup DOMAIN m3
      /\ \A x \in DOMAIN m3 \ DOMAIN Talk!ReadsImage : m2[x] = m3[x]
  BY MergedBoth
<1>. HIDE DEF m2
<1>6. /\ DOMAIN Talk!Understood = DOMAIN Talk!ReadsTalk \cup DOMAIN m2
      /\ \A x \in DOMAIN Talk!ReadsTalk : Talk!Understood[x] = Talk!ReadsTalk[x]
      /\ \A x \in DOMAIN m2 \ DOMAIN Talk!ReadsTalk : Talk!Understood[x] = m2[x]
  BY <1>1, MergedBoth
<1>. QED
  BY <1>2, <1>3, <1>4, <1>5, <1>6, CommandsRead, CommandsWritten

\* Every command but the three is read as it is written.
LEMMA AllFaithful ==
  ASSUME NEW c \in Readable
  PROVE  Faithful(Talk!Written[c], Talk!Wants(c))
<1>1. c \in DOMAIN Talk!Understood => Talk!Wants(c) = Talk!Understood[c]
  BY DEF Talk!Wants
<1>2. CASE c \in {"MSG", "RECALL", "READ", "TYPING"}
  <2>1. Talk!Written[c] = Talk!Talk[c] /\ Talk!Wants(c) = Talk!ReadsTalk[c]
    BY <1>1, <1>2, WrittenParts, UnderstoodParts, CommandsWritten, CommandsRead
  <2>. QED
    BY <1>2, <2>1, TalkFaithful
<1>3. CASE c \in DOMAIN Talk!Befriending
  <2>1. Talk!Written[c] = Talk!Befriending[c] /\ Talk!Wants(c) = Talk!ReadsBefriending[c]
    BY <1>1, <1>3, WrittenParts, UnderstoodParts, CommandsRead
  <2>. QED
    BY <1>3, <2>1, CommandsWritten, BefriendingFaithful
<1>4. CASE c \in DOMAIN Talk!Media
  <2>1. Talk!Written[c] = Talk!Media[c] /\ Talk!Wants(c) = Talk!ReadsMedia[c]
    BY <1>1, <1>4, WrittenParts, UnderstoodParts, CommandsRead
  <2>. QED
    BY <1>4, <2>1, CommandsWritten, MediaFaithful
<1>5. CASE c \in DOMAIN Talk!Calls \ {"CALL_INVITE"}
  <2>1. Talk!Written[c] = Talk!Calls[c] /\ Talk!Wants(c) = Talk!ReadsCalls[c]
    BY <1>1, <1>5, WrittenParts, UnderstoodParts, CommandsRead
  <2>. QED
    BY <1>5, <2>1, CommandsWritten, CallsFaithful
<1>6. CASE c \in DOMAIN Talk!ToGroup
  <2>1. Talk!Written[c] = Talk!ToGroup[c] /\ Talk!Wants(c) = Talk!ReadsGroup[c]
    BY <1>1, <1>6, WrittenParts, UnderstoodParts, CommandsRead
  <2>. QED
    BY <1>6, <2>1, CommandsWritten, ToGroupFaithful
<1>. QED
  BY <1>2, <1>3, <1>4, <1>5, <1>6, WrittenParts, CommandsWritten DEF Readable, Unread

\* A document under way was written by its sender.
IsWritten(w) == w.command \in Readable /\ w.document = Talk!Document(w.from, w.command)

\* Whoever reads such a document gets what its sender was given.
LEMMA WrittenIsRead ==
  ASSUME NEW w, IsWritten(w)
  PROVE  LET read == Talk!Read(w)
         IN /\ Talk!Given(w.command) \subseteq DOMAIN read
            /\ \A f \in DOMAIN read : read[f] = IF f = "sender" THEN w.from ELSE f
<1>. DEFINE c == w.command
           wants == Talk!Wants(c)
           read == Talk!Read(w)
<1>1. Faithful(Talk!Written[c], wants) /\ c \in DOMAIN Talk!Written
  BY AllFaithful DEF IsWritten, Readable
<1>2. read = [f \in DOMAIN wants |-> Talk!Value(w.document, wants[f])]
  BY DEF Talk!Read
<1>3. w.document = Talk!Merge(Talk!Written[c], Signed(w.from))
  BY DEF IsWritten, Talk!Document, Signed
<1>4. Talk!Given(c) = {Talk!Written[c][k].of : k \in DOMAIN Talk!Written[c]} \ {"none", "groupName"}
  BY <1>1 DEF Talk!Given
<1>. HIDE DEF c, wants, read
<1>5. Talk!Given(c) \subseteq DOMAIN read
  BY <1>1, <1>2, <1>4 DEF Faithful
<1>6. ASSUME NEW f \in DOMAIN read PROVE read[f] = IF f = "sender" THEN w.from ELSE f
  BY <1>1, <1>2, <1>3 DEF Faithful
<1>. QED
  BY <1>5, <1>6 DEF c, read

-----------------------------------------------------------------------------
(* The steps of the messenger, and the two parts together.                 *)

\* All that is under way was written so, and what is shown was read from it.
TalkReadInv ==
  /\ \A w \in underway : IsWritten(w)
  /\ \A s \in shown : IsWritten(s.letter) /\ s.read = Talk!Read(s.letter)

\* A letter is written by its sender.
LEMMA LetterWritten ==
  ASSUME NEW d, NEW e, NEW c \in Readable
  PROVE  IsWritten(Talk!Letter(d, e, c))
BY DEF IsWritten, Talk!Letter

\* So are the texts to the members of a group.
LEMMA TextsWritten ==
  ASSUME NEW g, NEW w \in Talk!TextToMembers(g)
  PROVE  IsWritten(w)
<1>1. "MSG" \in Readable
  BY WrittenParts, CommandsWritten DEF Readable, Unread
<1>. QED
  BY <1>1, LetterWritten DEF Talk!TextToMembers

\* Letters sent, lost or handed over leave the others as they were written.
LEMMA SentInv ==
  ASSUME TalkReadInv, NEW more, \A w \in more : IsWritten(w), underway' \subseteq underway \cup more, shown' = {}
  PROVE  TalkReadInv'
BY DEF TalkReadInv

\* No step of the messenger puts anything else under way or on show.
LEMMA ReadStepInv ==
  ASSUME Commands \cap Unread = {}, TalkReadInv, [Talk!Next]_talk
  PROVE  TalkReadInv'
<1>1. CASE UNCHANGED talk
  BY <1>1 DEF talk, TalkReadInv
<1>2. ASSUME underway' \subseteq underway, shown' = {} PROVE TalkReadInv'
  BY <1>2, SentInv
<1>3. ASSUME NEW d, NEW e, Talk!Hello(d, e) \/ Talk!Stale(d, e) \/ Talk!Restart(d) PROVE TalkReadInv'
  BY <1>2, <1>3 DEF Talk!Hello, Talk!Stale, Talk!Restart, Talk!Act, Talk!talk
<1>4. ASSUME NEW d, NEW e, NEW c \in Readable, Talk!Send(d, e, c) PROVE TalkReadInv'
  <2>1. underway' = underway \cup {Talk!Letter(d, e, c)} /\ shown' = {}
    BY <1>4 DEF Talk!Send, Talk!Act
  <2>. DEFINE more == {Talk!Letter(d, e, c)}
  <2>2. \A w \in more : IsWritten(w)
    BY LetterWritten
  <2>3. underway' \subseteq underway \cup more
    BY <2>1
  <2>. HIDE DEF more
  <2>. QED
    BY <2>1, <2>2, <2>3, SentInv
<1>5. {"FRIEND_ACCEPT", "FRIEND_REJECT"} \subseteq Readable
  BY WrittenParts, CommandsWritten DEF Readable, Unread
<1>6. ASSUME NEW d, NEW e, Talk!AcceptFriend(d, e) \/ Talk!RejectFriend(d, e) PROVE TalkReadInv'
  BY <1>4, <1>5, <1>6 DEF Talk!AcceptFriend, Talk!RejectFriend
<1>7. ASSUME NEW d, NEW e, NEW c \in Commands, Talk!Say(d, e, c) PROVE TalkReadInv'
  <2>1. c \in Readable /\ Talk!Send(d, e, c)
    BY <1>7 DEF Talk!Say, Talk!Direct, Readable
  <2>. QED
    BY <1>4, <2>1
<1>8. ASSUME NEW c \in Commands, Talk!TellGroup(c) PROVE TalkReadInv'
  <2>1. PICK g \in group :
          /\ c \in DOMAIN Talk!ToGroup /\ shown' = {}
          /\ underway' = underway
               \cup {Talk!Letter(Creator, m, c) : m \in Talk!ToSet(g.ids) \cap known[Creator]}
               \cup (IF c = "GROUP_ANNOUNCEMENT" THEN {} ELSE Talk!TextToMembers(g))
    BY <1>8 DEF Talk!TellGroup, Talk!Act
  <2>. DEFINE more == {Talk!Letter(Creator, m, c) : m \in Talk!ToSet(g.ids) \cap known[Creator]}
                        \cup (IF c = "GROUP_ANNOUNCEMENT" THEN {} ELSE Talk!TextToMembers(g))
  <2>2. c \in Readable
    BY <2>1, WrittenParts, CommandsWritten DEF Readable, Unread
  <2>3. \A w \in more : IsWritten(w)
    BY <2>2, LetterWritten, TextsWritten
  <2>4. underway' \subseteq underway \cup more
    BY <2>1
  <2>. HIDE DEF more
  <2>. QED
    BY <2>1, <2>3, <2>4, SentInv
<1>9. CASE Talk!SayToGroup
  <2>1. PICK g \in group : underway' = underway \cup Talk!TextToMembers(g) /\ shown' = {}
    BY <1>9 DEF Talk!SayToGroup, Talk!Act
  <2>. QED
    BY <2>1, TextsWritten, SentInv
<1>10. ASSUME NEW w \in underway, Talk!Receive(w) PROVE TalkReadInv'
  <2>1. underway' = underway \ {w} /\ shown' = {[letter |-> w, read |-> Talk!Read(w)]}
    BY <1>10 DEF Talk!Receive
  <2>. QED
    BY <2>1 DEF TalkReadInv
<1>11. ASSUME NEW w \in underway, Talk!Fail(w) PROVE TalkReadInv'
  BY <1>2, <1>11 DEF Talk!Fail
<1>12. ASSUME Talk!Edit PROVE TalkReadInv'
  BY <1>2, <1>12 DEF Talk!Edit, Talk!Act, Talk!talk
<1>13. ASSUME NEW m, NEW ms, Talk!CreateGroup(ms) \/ Talk!Invite(m) \/ Talk!RemoveMember(m) \/ Talk!Dissolve
       PROVE  Talk!Edit
  BY <1>13 DEF Talk!CreateGroup, Talk!Invite, Talk!RemoveMember, Talk!Dissolve
<1>. QED
  BY <1>1, <1>3, <1>6, <1>7, <1>8, <1>9, <1>10, <1>11, <1>12, <1>13 DEF Talk!Next

\* What is shown is what was given.
LEMMA ReadAsGiven == TalkReadInv => Talk!RoundTrip
<1>. SUFFICES ASSUME TalkReadInv, NEW s \in shown
              PROVE  /\ Talk!Given(s.letter.command) \subseteq DOMAIN s.read
                     /\ \A f \in DOMAIN s.read : s.read[f] = IF f = "sender" THEN s.letter.from ELSE f
  BY DEF Talk!RoundTrip
<1>1. IsWritten(s.letter) /\ s.read = Talk!Read(s.letter)
  BY DEF TalkReadInv
<1>. QED
  BY <1>1, WrittenIsRead

\* A step of another part leaves the codec alone.
LEMMA CodecRests ==
  ASSUME CodecInv, UNCHANGED codec
  PROVE  CodecInv'
<1>1. message' = message /\ wire' = wire /\ decoded' = decoded
  BY DEF codec
<1>2. Codec!Payload(message)' = Codec!Payload(message)
  BY <1>1 DEF Codec!Payload
<1>3. IsMessage(message)' /\ Codec!RoundTrip'
  BY <1>1 DEF CodecInv, Codec!RoundTrip
<1>. QED
  BY <1>1, <1>2, <1>3 DEF CodecInv

(* Every payload is read as it was meant, by readers of this version from  *)
(* senders of this and of older ones, for any base above three             *)
(* (core/protocol_manager.cpp), and every command of the messenger hands   *)
(* over what its sender was given (IPMsgManager::processTcpCommand), but for  *)
(* what the code reads wrongly: a table of device permissions with more    *)
(* than one device, and three commands.                                    *)
THEOREM SentIsRead ==
  ASSUME MaxDevices \in {0, 1}, Commands \cap Unread = {}
  PROVE  MCSpec => []RoundTrip
<1>. DEFINE Inv == (part = "codec" => CodecInv) /\ TalkReadInv
<1>1. MCInit => Inv
  <2>. SUFFICES ASSUME MCInit PROVE Inv
    OBVIOUS
  <2>1. part = "codec" => CodecInv
    BY CodecInit DEF MCInit
  <2>2. TalkReadInv
    BY DEF MCInit, Talk!Init, TalkReadInv
  <2>. QED
    BY <2>1, <2>2
<1>2. Inv /\ [MCNext]_<<part, ops, accounts, store, sync, codec, history, talk, registry, discovery>> => Inv'
  <2>. SUFFICES ASSUME Inv,
                [MCNext]_<<part, ops, accounts, store, sync, codec, history, talk, registry, discovery>>
                PROVE  Inv'
    OBVIOUS
  <2>1. [Talk!Next]_talk /\ part' = part /\ (UNCHANGED codec \/ (part = "codec" /\ Codec!Next))
    BY DEF MCNext, AccountsStep, StoreStep, SyncStep, CodecStep, HistoryStep, TalkStep, RegistryStep,
           DiscoveryStep
  <2>2. TalkReadInv'
    BY <2>1, ReadStepInv
  <2>3. ASSUME part = "codec" PROVE CodecInv'
    BY <2>1, <2>3, CodecRests, CodecStepKeeps
  <2>. QED
    BY <2>1, <2>2, <2>3
<1>3. Inv => RoundTrip
  BY ReadAsGiven DEF RoundTrip, CodecInv
<1>. QED
  BY <1>1, <1>2, <1>3, PTL DEF MCSpec
=============================================================================
