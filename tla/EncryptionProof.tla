-------------------------- MODULE EncryptionProof ---------------------------
(***************************************************************************)
(* Proofs about the two ways of encrypting: Keystream, for every block     *)
(* size, IV length and way of cutting the stream into chunks, and          *)
(* TableCipher, for every number of bytes and of passes.                   *)
(***************************************************************************)
EXTENDS Keystream, TableCipher, SequenceTheorems, TLAPS

(***************************************************************************)
(* The keystream ciphers.                                                  *)
(***************************************************************************)

(* The stream position a block number and a number of used bytes stand    *)
(* for, and the two halves of a sum of bytes.                              *)
Position(q, p, b) == q * b + p
Blocks(m, b) == m \div b
Left(m, b)   == m % b

(* Carrying the padding over a chunk of n bytes moves the position by n.   *)
LEMMA Carry ==
  ASSUME NEW b \in Nat \ {0}, NEW q \in Nat, NEW p \in Nat, NEW n \in Nat
  PROVE  /\ Blocks(p + n, b) \in Nat /\ Left(p + n, b) \in Nat
         /\ Left(p + n, b) < b
         /\ Position(q + Blocks(p + n, b), Left(p + n, b), b)
              = Position(q, p, b) + n
<1> USE DEF Position, Blocks, Left
<1> DEFINE s == p + n
<1>1. s \in Nat
  OBVIOUS
<1>2. s \div b \in Nat /\ s % b \in 0..(b - 1)
  BY <1>1, Z3
<1>3. s = b * (s \div b) + (s % b)
  BY <1>1, Z3
<1>4. (q + s \div b) * b = q * b + b * (s \div b)
  BY <1>1, <1>2, Z3
<1>5. (q + s \div b) * b + (s % b) = q * b + s
  <2> DEFINE d == s \div b
             m == s % b
             u == q * b
             v == b * d
  <2>1. u \in Nat /\ v \in Nat /\ m \in Nat
    BY <1>2, Z3
  <2>2. s = v + m /\ (q + d) * b = u + v
    BY <1>3, <1>4
  <2> HIDE DEF d, m, u, v
  <2>3. (q + d) * b + m = u + s
    BY <1>1, <2>1, <2>2
  <2>4. QED
    BY <2>3 DEF d, m, u, v
<1>6. q * b + s = q * b + p + n
  <2>1. q * b \in Nat
    BY Z3
  <2>2. QED
    BY <2>1
<1>7. QED
  BY <1>2, <1>5, <1>6

LEMMA KeyTypes ==
  ASSUME TypeOK, NEW c \in Contexts
  PROVE  ic[c] \in Nat /\ rem[c] \in Nat
BY DEF TypeOK

(* One update of one context moves its position by the chunk and leaves    *)
(* the other context alone.                                                *)
LEMMA Updated ==
  ASSUME TypeOK, NEW c \in Contexts, NEW n \in Nat, CipherUpdate(c, n)
  PROVE  /\ ic' \in [Contexts -> Nat] /\ rem' \in [Contexts -> Nat]
         /\ scratch' = rem[c] + n
         /\ ic'[c] * Block + rem'[c] = ic[c] * Block + rem[c] + n
         /\ rem'[c] < Block
         /\ \A d \in Contexts : d # c => ic'[d] = ic[d] /\ rem'[d] = rem[d]
<1>1. ic[c] \in Nat /\ rem[c] \in Nat /\ Block \in Nat \ {0}
  BY KeyTypes, KeystreamAssumption
<1> DEFINE p == rem[c]
           q == ic[c]
           d1 == (p + n) \div Block
           m1 == (p + n) % Block
<1>2. /\ d1 \in Nat /\ m1 \in Nat
      /\ m1 < Block
      /\ (q + d1) * Block + m1 = q * Block + p + n
  <2>1. p \in Nat /\ q \in Nat
    BY <1>1
  <2> HIDE DEF p, q
  <2>2. /\ Blocks(p + n, Block) \in Nat /\ Left(p + n, Block) \in Nat
        /\ Left(p + n, Block) < Block
        /\ Position(q + Blocks(p + n, Block), Left(p + n, Block), Block)
             = Position(q, p, Block) + n
    BY <1>1, <2>1, Carry
  <2>3. QED
    BY <2>2 DEF d1, m1, Position, Blocks, Left
<1>3. /\ ic' = [ic EXCEPT ![c] = q + d1] /\ rem' = [rem EXCEPT ![c] = m1]
      /\ scratch' = p + n
  BY DEF CipherUpdate
<1> HIDE DEF d1, m1
<1>4. ic'[c] = q + d1 /\ rem'[c] = m1
  BY <1>3 DEF TypeOK
<1>5. ic' \in [Contexts -> Nat] /\ rem' \in [Contexts -> Nat]
  <2>1. q + d1 \in Nat /\ m1 \in Nat
    BY <1>1, <1>2
  <2> QED BY <1>3, <2>1 DEF TypeOK
<1>6. \A d \in Contexts : d # c => ic'[d] = ic[d] /\ rem'[d] = rem[d]
  BY <1>3 DEF TypeOK
<1>7. QED
  BY <1>2, <1>3, <1>4, <1>5, <1>6

KeyInv == TypeOK /\ Aligned /\ RoundTrip /\ ScratchFits

LEMMA KeyInit == ASSUME Init PROVE KeyInv
<1>1. TypeOK
  BY DEF Init, TypeOK
<1>2. Aligned
  BY KeystreamAssumption DEF Init, Aligned, Contexts
<1>3. RoundTrip /\ ScratchFits
  BY KeystreamAssumption DEF Init, RoundTrip, ScratchFits
<1>4. QED
  BY <1>1, <1>2, <1>3 DEF KeyInv

LEMMA KeyStep ==
  ASSUME KeyInv, [Next]_vars
  PROVE  KeyInv'
<1>0. TypeOK /\ Aligned /\ RoundTrip /\ ScratchFits
  BY DEF KeyInv
<1>a. {"enc", "dec"} = Contexts
  BY DEF Contexts
<1>b. \A c \in Contexts : ic[c] * Block \in Nat /\ rem[c] \in Nat /\ rem[c] < Block
  <2> SUFFICES ASSUME NEW c \in Contexts
               PROVE  ic[c] * Block \in Nat /\ rem[c] \in Nat /\ rem[c] < Block
    OBVIOUS
  <2>1. ic[c] \in Nat /\ rem[c] \in Nat /\ rem[c] < Block
    BY <1>0, KeyTypes DEF Aligned
  <2>2. QED
    BY <2>1, KeystreamAssumption, Z3
<1>1. CASE EncryptBuf
  <2>1. PICK n \in 1..MaxChunk :
          /\ Len(wire) + n <= MaxBytes
          /\ wire' = wire \o [i \in 1..n |-> KeyIndex("enc", i)]
          /\ CipherUpdate("enc", n)
    BY <1>1 DEF EncryptBuf
  <2>2. n \in Nat /\ UNCHANGED <<taken, noise>>
        /\ status' = [status EXCEPT !["enc"] = "init"]
    BY <1>1, KeystreamAssumption DEF EncryptBuf
  <2>3. /\ ic' \in [Contexts -> Nat] /\ rem' \in [Contexts -> Nat]
        /\ scratch' = rem["enc"] + n
        /\ ic'["enc"] * Block + rem'["enc"] = ic["enc"] * Block + rem["enc"] + n
        /\ rem'["enc"] < Block
        /\ ic'["dec"] = ic["dec"] /\ rem'["dec"] = rem["dec"]
    BY <1>0, <1>a, <2>1, <2>2, Updated
  <2> DEFINE base == ic["enc"] * Block + rem["enc"]
             new  == [i \in 1..n |-> KeyIndex("enc", i)]
  <2>4. base = Len(wire) /\ base \in Nat
    BY <1>0, <1>a, <1>b DEF Aligned, TypeOK
  <2>5. \A i \in 1..n : KeyIndex("enc", i) = base + i - 1
    BY DEF KeyIndex
  <2> HIDE DEF base
  <2>6. new \in Seq(Nat) /\ Len(new) = n
    <3>1. new = [i \in 1..n |-> base + i - 1]
      BY <2>5
    <3>2. new \in [1..n -> Nat]
      BY <2>2, <2>4, <3>1
    <3> HIDE DEF new
    <3>3. QED
      BY <2>2, <3>2
  <2> HIDE DEF new
  <2>7. wire \in Seq(Nat) /\ wire' = wire \o new
    BY <1>0, <2>1 DEF TypeOK, new
  <2>8. wire' \in Seq(Nat) /\ Len(wire') = Len(wire) + n
    BY <2>6, <2>7, ConcatProperties
  <2>9. \A j \in 1..Len(wire') : wire'[j] = j - 1
    <3> SUFFICES ASSUME NEW j \in 1..Len(wire') PROVE wire'[j] = j - 1
      OBVIOUS
    <3>1. CASE j <= Len(wire)
      BY <1>0, <2>6, <2>7, <3>1 DEF RoundTrip
    <3>2. CASE j > Len(wire)
      <4>1. j - Len(wire) \in 1..n
        BY <2>2, <2>7, <2>8, <3>2
      <4>2. wire'[j] = new[j - Len(wire)]
        BY <2>6, <2>7, <2>8, <3>2
      <4>3. new[j - Len(wire)] = base + (j - Len(wire)) - 1
        BY <2>5, <4>1 DEF new
      <4>4. QED
        BY <2>4, <4>1, <4>2, <4>3
    <3>3. QED
      BY <2>7, <2>8, <3>1, <3>2
  <2>10. TypeOK'
    <3>1. taken' \in 0..Len(wire')
      BY <1>0, <2>2, <2>7, <2>8 DEF TypeOK
    <3>2. status' \in [Contexts -> {"empty", "init"}]
      BY <1>0, <2>2 DEF TypeOK
    <3>3. noise' \in Nat /\ scratch' \in Nat
      BY SMTT(30), <1>0, <1>a, <1>b, <2>2, <2>3 DEF TypeOK
    <3>4. QED
      BY <2>3, <2>8, <3>1, <3>2, <3>3 DEF TypeOK
  <2>11. Aligned'
    <3>1. ic'["enc"] * Block + rem'["enc"] = Len(wire')
      BY <2>2, <2>3, <2>4, <2>8 DEF base
    <3>2. ic'["dec"] * Block + rem'["dec"] = taken'
      BY <1>0, <2>2, <2>3 DEF Aligned
    <3>3. \A c \in Contexts : rem'[c] < Block
      BY <1>a, <1>b, <2>3
    <3>4. QED
      BY <3>1, <3>2, <3>3 DEF Aligned
  <2>12. ScratchFits'
    BY SMTT(30), <1>a, <1>b, <2>1, <2>3, KeystreamAssumption DEF ScratchFits
  <2>13. RoundTrip'
    BY <1>0, <2>2, <2>9 DEF RoundTrip
  <2>14. QED
    BY <2>10, <2>11, <2>12, <2>13 DEF KeyInv
<1>2. CASE DecryptBuf
  <2>1. PICK r \in 1..MaxChunk, n \in 0..MaxChunk :
          /\ taken + n <= Len(wire)
          /\ taken' = taken + n
          /\ noise' = IF \A i \in 1..n : wire[taken + i] = KeyIndex("dec", i)
                        THEN noise ELSE noise + n
          /\ CipherUpdate("dec", n)
    BY <1>2 DEF DecryptBuf
  <2>2. n \in Nat /\ UNCHANGED wire
        /\ status' = [status EXCEPT !["dec"] = "init"]
    BY <1>2, KeystreamAssumption DEF DecryptBuf
  <2>3. /\ ic' \in [Contexts -> Nat] /\ rem' \in [Contexts -> Nat]
        /\ scratch' = rem["dec"] + n
        /\ ic'["dec"] * Block + rem'["dec"] = ic["dec"] * Block + rem["dec"] + n
        /\ rem'["dec"] < Block
        /\ ic'["enc"] = ic["enc"] /\ rem'["enc"] = rem["enc"]
    BY <1>0, <1>a, <2>1, <2>2, Updated
  <2>4. /\ taken \in Nat /\ taken + n \in 0..Len(wire) /\ wire \in Seq(Nat)
        /\ ic["dec"] * Block + rem["dec"] = taken
    BY <1>0, <2>1, <2>2 DEF TypeOK, Aligned
  <2>5. \A i \in 1..n : wire[taken + i] = KeyIndex("dec", i)
    <3> SUFFICES ASSUME NEW i \in 1..n PROVE wire[taken + i] = KeyIndex("dec", i)
      OBVIOUS
    <3>1. taken + i \in 1..Len(wire)
      BY <2>2, <2>4
    <3>2. wire[taken + i] = (taken + i) - 1
      <4> DEFINE k == taken + i
      <4>1. k \in 1..Len(wire)
        BY <3>1
      <4> HIDE DEF k
      <4>2. wire[k] = k - 1
        BY <1>0, <4>1 DEF RoundTrip
      <4>3. QED
        BY <4>2 DEF k
    <3>3. KeyIndex("dec", i) = taken + i - 1
      BY <2>4 DEF KeyIndex
    <3>4. QED
      BY <2>4, <3>2, <3>3
  <2>6. RoundTrip'
    BY <1>0, <2>1, <2>2, <2>5 DEF RoundTrip
  <2>7. TypeOK'
    <3>1. status' \in [Contexts -> {"empty", "init"}]
      BY <1>0, <2>2 DEF TypeOK
    <3>2. noise' \in Nat
      BY <1>0, <2>1, <2>5 DEF TypeOK
    <3>3. rem["dec"] \in Nat
      BY <1>0, <1>b DEF TypeOK, Contexts
    <3>4. scratch' \in Nat
      BY <2>2, <2>3, <3>3
    <3>5. taken' \in 0..Len(wire') /\ wire' \in Seq(Nat)
      BY <2>1, <2>2, <2>4
    <3>6. QED
      BY <2>3, <3>1, <3>2, <3>4, <3>5 DEF TypeOK
  <2>8. Aligned'
    <3>1. ic'["enc"] * Block + rem'["enc"] = Len(wire')
      BY <1>0, <2>2, <2>3 DEF Aligned
    <3>2. ic'["dec"] * Block + rem'["dec"] = taken'
      BY <2>1, <2>3, <2>4
    <3>3. \A c \in Contexts : rem'[c] < Block
      BY <1>a, <1>b, <2>3
    <3>4. QED
      BY <3>1, <3>2, <3>3 DEF Aligned
  <2>9. ScratchFits'
    BY SMTT(30), <1>a, <1>b, <2>1, <2>3, KeystreamAssumption DEF ScratchFits
  <2>10. QED
    BY <2>6, <2>7, <2>8, <2>9 DEF KeyInv
<1>3. CASE UNCHANGED vars
  BY <1>0, <1>3 DEF KeyInv, TypeOK, Aligned, RoundTrip, ScratchFits, vars
<1>4. QED
  BY <1>1, <1>2, <1>3 DEF Next

(* However the stream is cut into chunks on either side, the counters      *)
(* point at the next byte, every byte decrypts, and sodium_buf is large    *)
(* enough.                                                                 *)
THEOREM KeystreamCorrect == Spec => [](TypeOK /\ Aligned /\ RoundTrip /\ ScratchFits)
<1>1. Init => KeyInv
  BY KeyInit
<1>2. KeyInv /\ [Next]_vars => KeyInv'
  BY KeyStep
<1>3. KeyInv => TypeOK /\ Aligned /\ RoundTrip /\ ScratchFits
  BY DEF KeyInv
<1>4. QED
  BY <1>1, <1>2, <1>3, PTL DEF Spec

(* Padding and chunk fit into sodium_buf, for every Scratch of at least a  *)
(* whole buffer and a block.                                               *)
THEOREM ScratchSuffices == Spec => []ScratchFits
BY KeystreamCorrect, PTL

-----------------------------------------------------------------------------
(***************************************************************************)
(* The table cipher.                                                       *)
(*                                                                         *)
(* During a pass the bytes are ordered by their remainders and, where      *)
(* these are equal, by their places in the table the pass began with.      *)
(* What follows is said of any table t and any pass o.                     *)
(***************************************************************************)
places == [b \in Bytes |-> CHOOSE k \in 1..Size : before[k] = b]

order == {bc \in Bytes \X Bytes :
            \/ Remainder(bc[1]) < Remainder(bc[2])
            \/ /\ Remainder(bc[1]) = Remainder(bc[2])
               /\ places[bc[1]] < places[bc[2]]}

pass == [before |-> before, places |-> places, order |-> order]

PassOK(o) ==
  /\ o.before \in Tables /\ o.places \in [Bytes -> 1..Size]
  /\ \A k \in 1..Size : o.places[o.before[k]] = k
  /\ \A b \in Bytes : o.before[o.places[b]] = b
  /\ \A b \in Bytes : <<b, b>> \notin o.order
  /\ \A b, c, d \in Bytes : <<b, c>> \in o.order /\ <<c, d>> \in o.order => <<b, d>> \in o.order

OneToOne(t)    == \A k, l \in 1..Size : t[k] = t[l] => k = l
HasAll(t)      == \A b \in Bytes : \E k \in 1..Size : t[k] = b
Permutation(t) == OneToOne(t) /\ HasAll(t)

(* Index p is among the n indices after lo.                                *)
Within(p, lo, n) == lo < p /\ p <= lo + n

(* A segment of t holds what it held before the pass, in its old order, or *)
(* sorted.                                                                 *)
Untouched(t, o, lo, n) == \A p \in 1..Size : Within(p, lo, n) => t[p] = o.before[p]

InOrder(t, o, lo, n) ==
  \A p, q \in 1..Size :
    Within(p, lo, n) /\ Within(q, lo, n) /\ p < q => <<t[p], t[q]>> \in o.order

Done(t, o, lo, n) ==
  /\ \A p \in 1..Size : Within(p, lo, n) => Within(o.places[t[p]], lo, n)
  /\ \A p \in 1..Size : Within(p, lo, n) =>
       \E q \in 1..Size : Within(q, lo, n) /\ t[q] = o.before[p]
  /\ InOrder(t, o, lo, n)

(* Of a temporary: it is sorted, and its bytes are from, or all, those     *)
(* that one segment held.                                                  *)
Ascending(s, o) == \A a, b \in 1..Len(s) : a < b => <<s[a], s[b]>> \in o.order
From(s, o, lo, n) == \A a \in 1..Len(s) : Within(o.places[s[a]], lo, n)
AllOf(s, o, lo, n) ==
  \A p \in 1..Size : Within(p, lo, n) => \E a \in 1..Len(s) : s[a] = o.before[p]

(* merge has put back the w least bytes of the segment of n after lo; the  *)
(* others are in the temporaries s and r.                                  *)
Merging(t, o, lo, n, s, r, w) ==
  /\ w \in Nat /\ n = w + Len(s) + Len(r)
  /\ \A p \in 1..Size : Within(p, lo, w) => Within(o.places[t[p]], lo, n)
  /\ InOrder(t, o, lo, w)
  /\ \A p \in 1..Size : Within(p, lo, w) =>
       /\ \A a \in 1..Len(s) : <<t[p], s[a]>> \in o.order
       /\ \A a \in 1..Len(r) : <<t[p], r[a]>> \in o.order
  /\ \A p \in 1..Size : Within(p, lo, n) =>
       \/ \E q \in 1..Size : Within(q, lo, w) /\ t[q] = o.before[p]
       \/ \E a \in 1..Len(s) : s[a] = o.before[p]
       \/ \E a \in 1..Len(r) : r[a] = o.before[p]

(* The half of its segment that a call is having sorted.                   *)
HalfFrom(f)   == IF f.step = "left" THEN f.from ELSE f.from + LLength(f)
HalfLength(f) == IF f.step = "left" THEN LLength(f) ELSE Middle(f)

CallOK(f) ==
  /\ f.from + f.length <= Size
  /\ f.step # "enter" => f.length >= 2

Inside(g, f) ==
  /\ f.step \in {"left", "right"}
  /\ HalfFrom(f) <= g.from /\ g.from + g.length <= HalfFrom(f) + HalfLength(f)

(* The calls under way are nested.                                         *)
CallsNested(calling) ==
  /\ \A j \in 1..Len(calling) : CallOK(calling[j])
  /\ calling # <<>> => calling[1].from = 0 /\ calling[1].length = Size
  /\ \A j \in 1..Len(calling) : j < Len(calling) =>
       /\ calling[j + 1].from = HalfFrom(calling[j])
       /\ calling[j + 1].length = HalfLength(calling[j])
  /\ \A j, k \in 1..Len(calling) : j < k => Inside(calling[k], calling[j])

(* What the half of a call holds that the call under way in it leaves      *)
(* alone, and what the segment of the innermost call holds.                *)
Waiting(t, o, f) ==
  /\ f.step = "left"  => Untouched(t, o, f.from + LLength(f), Middle(f))
  /\ f.step = "right" => Done(t, o, f.from, LLength(f))

Working(t, o, f, s, r) ==
  /\ f.step = "enter" => Untouched(t, o, f.from, f.length)
  /\ f.step = "left"  => Done(t, o, f.from, LLength(f))
  /\ f.step = "right" => Done(t, o, f.from + LLength(f), Middle(f))
  /\ f.step = "merge" =>
       /\ Ascending(s, o) /\ From(s, o, f.from, LLength(f))
       /\ Ascending(r, o) /\ From(r, o, f.from + LLength(f), Middle(f))
       /\ Merging(t, o, f.from, f.length, s, r, f.length - Len(s) - Len(r))

SegmentsSorted ==
  /\ \A j \in 1..Len(stack) : Waiting(encrypt_table, pass, stack[j])
  /\ stack # <<>> => Working(encrypt_table, pass, Top, ltmp, rtmp)

(* Between passes the table is a permutation; so is what a pass began with. *)
TablesPermuted ==
  /\ at # "out" => _i >= 1
  /\ stack # <<>> => at = "sort" /\ _i < Passes /\ Permutation(before)
  /\ stack = <<>> /\ (at # "out" \/ calls > 0) => Permutation(encrypt_table)

InvertedSoFar(n) == \A k \in 0..(n - 1) : decrypt_table[encrypt_table[k + 1] + 1] = k

TablesInverted ==
  /\ at = "invert" => InvertedSoFar(inverted)
  /\ at = "out" /\ calls > 0 => InvertedSoFar(Size)

TCInv == TCTypeOK /\ TablesPermuted /\ CallsNested(stack) /\ SegmentsSorted /\ TablesInverted

-----------------------------------------------------------------------------
(* The arithmetic of the model.                                            *)

LEMMA ModOfSum ==
  ASSUME NEW m \in Nat \ {0}, NEW q \in Int, NEW r \in 0..(m - 1)
  PROVE  (q * m + r) % m = r
<1> DEFINE x == q * m + r
           d == x \div m
           e == x % m
<1>1. x \in Int /\ d \in Int /\ e \in 0..(m - 1) /\ x = m * d + e
  BY Z3
<1>2. q * m + r = m * d + e
  BY <1>1
<1> HIDE DEF d, e, x
<1>3. (q - d) * m = e - r
  BY <1>1, <1>2, Z3
<1>4. q - d = 0
  <2> DEFINE g == q - d
  <2>1. g \in Int /\ g * m < m /\ g * m > -m
    BY <1>1, <1>3, Z3
  <2> HIDE DEF g
  <2>2. g < 1
    BY <2>1, Z3
  <2>3. g > -1
    BY <2>1, Z3
  <2>4. QED
    BY <2>1, <2>2, <2>3 DEF g
<1>5. e = r
  BY <1>1, <1>3, <1>4, Z3
<1>6. QED
  BY <1>5 DEF e, x

LEMMA ModRange ==
  ASSUME NEW x \in Nat, NEW m \in Nat, m >= 1
  PROVE  x % m \in 0..(m - 1)
BY Z3

(* A difference of remainders survives the way through uint64_t and int.   *)
LEMMA AsIntIsExact ==
  ASSUME NEW d \in Int, -(Size + Passes) < d, d < Size + Passes
  PROVE  AsInt(d) = d
<1> DEFINE k == LongRange \div IntRange
<1>1. /\ IntRange \in Nat \ {0} /\ LongRange \in Nat \ {0}
      /\ 2 * d < IntRange /\ -IntRange < 2 * d
  BY TableAssumption
<1>2. k \in Int /\ LongRange = IntRange * k
  BY <1>1, TableAssumption, Z3
<1> HIDE DEF k
<1>3. k >= 1
  BY <1>1, <1>2, Z3
<1>4. LongRange = (k - 1) * IntRange + IntRange /\ (k - 1) * IntRange \in Nat
  BY <1>1, <1>2, <1>3, Z3
<1>5. CASE d >= 0
  <2>1. d \in 0..(LongRange - 1) /\ d \in 0..(IntRange - 1)
    BY <1>1, <1>4, <1>5
  <2>2. (0 * LongRange + d) % LongRange = d /\ (0 * IntRange + d) % IntRange = d
    BY <2>1, <1>1, ModOfSum
  <2>3. 0 * LongRange + d = d /\ 0 * IntRange + d = d
    BY <1>1
  <2>4. d % LongRange = d /\ d % IntRange = d
    BY <2>2, <2>3
  <2>5. QED
    BY <2>4, <1>1 DEF AsInt, AsUnsigned
<1>6. CASE d < 0
  <2> DEFINE u == d + LongRange
             v == d + IntRange
  <2>1. u \in 0..(LongRange - 1) /\ v \in 0..(IntRange - 1)
    BY <1>1, <1>4, <1>6
  <2>2. ((-1) * LongRange + u) % LongRange = u /\ ((k - 1) * IntRange + v) % IntRange = v
    <3>1. k - 1 \in Int /\ -1 \in Int
      BY <1>2
    <3> HIDE DEF u, v
    <3>2. ((-1) * LongRange + u) % LongRange = u
      BY <2>1, <1>1, <3>1, ModOfSum
    <3>3. ((k - 1) * IntRange + v) % IntRange = v
      BY <2>1, <1>1, <3>1, ModOfSum
    <3>4. QED
      BY <3>2, <3>3
  <2>3. (-1) * LongRange + u = d /\ (k - 1) * IntRange + v = u
    BY <1>1, <1>4
  <2>4. d % LongRange = u /\ u % IntRange = v
    BY <2>2, <2>3
  <2> HIDE DEF u
  <2>5. AsInt(d) = IF 2 * v < IntRange THEN v ELSE v - IntRange
    BY <2>4 DEF AsInt, AsUnsigned
  <2>6. QED
    BY <2>5, <1>1, <1>6
<1>7. QED
  BY <1>5, <1>6

LEMMA RemainderTypes ==
  ASSUME _a \in Nat, _i \in Nat, _i >= 1, _i < Passes, NEW b \in Bytes
  PROVE  Remainder(b) \in 0..(Size + Passes - 3)
<1>1. b + _i \in Nat /\ b + _i >= 1 /\ b + _i <= Size + Passes - 2
  BY TableAssumption DEF Bytes
<1>2. _a % (b + _i) \in 0..((b + _i) - 1)
  BY <1>1, ModRange
<1>3. QED
  BY <1>1, <1>2, TableAssumption DEF Remainder, Bytes

LEMMA ComparesRemainders ==
  ASSUME _a \in Nat, _i \in Nat, _i >= 1, _i < Passes, NEW b \in Bytes, NEW c \in Bytes
  PROVE  RandomCompare(b, c) = Remainder(b) - Remainder(c)
<1>1. Remainder(b) \in 0..(Size + Passes - 3) /\ Remainder(c) \in 0..(Size + Passes - 3)
  BY RemainderTypes
<1> DEFINE d == Remainder(b) - Remainder(c)
<1>2. d \in Int /\ -(Size + Passes) < d /\ d < Size + Passes
  BY <1>1, TableAssumption
<1>3. AsInt(d) = d
  BY <1>2, AsIntIsExact
<1>4. QED
  BY <1>3 DEF RandomCompare, Remainder

(* The two halves of a segment.                                            *)
LEMMA Halves ==
  ASSUME NEW f \in Frames, f.length >= 2
  PROVE  /\ Middle(f) \in 1..(Size - 1) /\ LLength(f) \in 1..(Size - 1)
         /\ LLength(f) + Middle(f) = f.length
<1> DEFINE h == f.length \div 2
<1>1. f.length \in 0..Size /\ Size \in Nat /\ ByteRange \in Nat /\ Size <= ByteRange
  BY TableAssumption DEF Frames
<1>2. h \in Nat /\ 1 <= h /\ h < f.length
  BY <1>1
<1> HIDE DEF h
<1>3. h \in 0..(ByteRange - 1)
  BY <1>1, <1>2
<1>4. (0 * ByteRange + h) % ByteRange = h
  BY <1>1, <1>2, <1>3, ModOfSum
<1>5. 0 * ByteRange + h = h
  BY <1>1, <1>2
<1>6. Middle(f) = h
  BY <1>4, <1>5 DEF Middle, h
<1>7. QED
  BY <1>1, <1>2, <1>6 DEF LLength

-----------------------------------------------------------------------------
(* The order of a pass.                                                    *)

LEMMA PlacesOfBytes ==
  ASSUME before \in Tables, Permutation(before)
  PROVE  /\ places \in [Bytes -> 1..Size]
         /\ \A k \in 1..Size : places[before[k]] = k
         /\ \A b \in Bytes : before[places[b]] = b
<1>1. ASSUME NEW b \in Bytes
      PROVE  places[b] \in 1..Size /\ before[places[b]] = b
  <2>1. \E k \in 1..Size : before[k] = b
    BY DEF Permutation, HasAll
  <2>2. places[b] = CHOOSE k \in 1..Size : before[k] = b
    BY DEF places
  <2>3. QED
    BY <2>1, <2>2
<1>2. places \in [Bytes -> 1..Size]
  <2>1. places = [b \in Bytes |-> places[b]]
    BY DEF places
  <2>2. \A b \in Bytes : places[b] \in 1..Size
    BY <1>1
  <2> QED
    BY <2>1, <2>2
<1>3. ASSUME NEW k \in 1..Size
      PROVE  places[before[k]] = k
  <2>1. before[k] \in Bytes
    BY DEF Tables
  <2>2. places[before[k]] \in 1..Size /\ before[places[before[k]]] = before[k]
    BY <2>1, <1>1
  <2>3. QED
    BY <2>2 DEF Permutation, OneToOne
<1>4. QED
  BY <1>1, <1>2, <1>3

LEMMA InTheOrder ==
  ASSUME NEW b \in Bytes, NEW c \in Bytes
  PROVE  <<b, c>> \in order <=>
           \/ Remainder(b) < Remainder(c)
           \/ Remainder(b) = Remainder(c) /\ places[b] < places[c]
<1> HIDE DEF Remainder, places
<1>1. <<b, c>> \in Bytes \X Bytes /\ <<b, c>>[1] = b /\ <<b, c>>[2] = c
  OBVIOUS
<1>2. QED
  BY <1>1 DEF order

LEMMA PassIsOK ==
  ASSUME before \in Tables, Permutation(before), _a \in Nat, _i \in Nat, _i >= 1, _i < Passes
  PROVE  PassOK(pass)
<1>1. /\ places \in [Bytes -> 1..Size]
      /\ \A k \in 1..Size : places[before[k]] = k
      /\ \A b \in Bytes : before[places[b]] = b
  BY PlacesOfBytes
<1>2. \A b \in Bytes : Remainder(b) \in Nat
  BY RemainderTypes
<1>3. \A b \in Bytes : places[b] \in Nat
  BY <1>1, TableAssumption
<1>4. \A b \in Bytes : <<b, b>> \notin order
  BY <1>2, <1>3, InTheOrder
<1>5. ASSUME NEW b \in Bytes, NEW c \in Bytes, NEW d \in Bytes,
             <<b, c>> \in order, <<c, d>> \in order
      PROVE  <<b, d>> \in order
  <2>1. /\ Remainder(b) \in Nat /\ Remainder(c) \in Nat /\ Remainder(d) \in Nat
        /\ places[b] \in Nat /\ places[c] \in Nat /\ places[d] \in Nat
    BY <1>2, <1>3
  <2>2. /\ \/ Remainder(b) < Remainder(c)
           \/ Remainder(b) = Remainder(c) /\ places[b] < places[c]
        /\ \/ Remainder(c) < Remainder(d)
           \/ Remainder(c) = Remainder(d) /\ places[c] < places[d]
    BY <1>5, InTheOrder
  <2>3. \/ Remainder(b) < Remainder(d)
        \/ Remainder(b) = Remainder(d) /\ places[b] < places[d]
    BY <2>1, <2>2
  <2>4. QED
    BY <2>3, InTheOrder
<1>6. pass.before = before /\ pass.places = places /\ pass.order = order
  BY DEF pass
<1>7. QED
  BY <1>1, <1>4, <1>5, <1>6 DEF PassOK

(* A byte of the left half goes first where the order says so.             *)
LEMMA MergesByTheOrder ==
  ASSUME before \in Tables, Permutation(before), _a \in Nat, _i \in Nat, _i >= 1, _i < Passes,
         NEW b \in Bytes, NEW c \in Bytes, pass.places[b] < pass.places[c]
  PROVE  /\ LeftFirst(b, c) => <<b, c>> \in pass.order
         /\ ~LeftFirst(b, c) => <<c, b>> \in pass.order
<1>1. RandomCompare(b, c) = Remainder(b) - Remainder(c)
  BY ComparesRemainders
<1>2. Remainder(b) \in Nat /\ Remainder(c) \in Nat
  BY RemainderTypes
<1>3. pass.places = places /\ pass.order = order
  BY DEF pass
<1>4. LeftFirst(b, c) <=> Remainder(b) <= Remainder(c)
  BY <1>1, <1>2 DEF LeftFirst
<1>5. QED
  BY <1>2, <1>3, <1>4, InTheOrder

(* A pass stays the same while _a, _i and before do.                       *)
LEMMA PassStays ==
  ASSUME UNCHANGED <<_a, _i, before>>
  PROVE  pass' = pass
<1>1. places' = places
  BY DEF places
<1>2. \A b : Remainder(b)' = Remainder(b)
  BY DEF Remainder
<1>3. order' = order
  BY <1>1 DEF order, Remainder
<1>4. QED
  BY <1>1, <1>3 DEF pass

-----------------------------------------------------------------------------
(* Segments.                                                               *)

LEMMA ShortIsDone ==
  ASSUME NEW o, PassOK(o), NEW t, NEW lo \in Nat, NEW n \in Nat, n <= 1, Untouched(t, o, lo, n)
  PROVE  Done(t, o, lo, n)
<1> USE DEF Within
<1>1. ASSUME NEW p \in 1..Size, Within(p, lo, n)
      PROVE  /\ Within(o.places[t[p]], lo, n)
             /\ \E q \in 1..Size : Within(q, lo, n) /\ t[q] = o.before[p]
  BY <1>1 DEF Untouched, PassOK
<1>2. InOrder(t, o, lo, n)
  BY DEF InOrder
<1>3. QED
  BY <1>1, <1>2 DEF Done

LEMMA UntouchedParts ==
  ASSUME NEW o, NEW t, NEW lo \in Nat, NEW n \in Nat, NEW l \in Nat, NEW m \in Nat,
         lo <= l, l + m <= lo + n, Untouched(t, o, lo, n)
  PROVE  Untouched(t, o, l, m)
BY DEF Untouched, Within

(* What is said of a segment is said of its bytes alone.                   *)
LEMMA SameSegment ==
  ASSUME NEW o, NEW t, NEW u, NEW lo, NEW n,
         \A p \in 1..Size : Within(p, lo, n) => u[p] = t[p]
  PROVE  /\ Untouched(t, o, lo, n) => Untouched(u, o, lo, n)
         /\ Done(t, o, lo, n) => Done(u, o, lo, n)
<1>1. Untouched(t, o, lo, n) => Untouched(u, o, lo, n)
  BY DEF Untouched
<1>2. InOrder(t, o, lo, n) => InOrder(u, o, lo, n)
  BY DEF InOrder
<1>3. ASSUME Done(t, o, lo, n)
      PROVE  /\ \A p \in 1..Size : Within(p, lo, n) => Within(o.places[u[p]], lo, n)
             /\ \A p \in 1..Size : Within(p, lo, n) =>
                  \E q \in 1..Size : Within(q, lo, n) /\ u[q] = o.before[p]
  BY <1>3 DEF Done
<1>4. QED
  BY <1>1, <1>2, <1>3 DEF Done

(* A sorted table is a permutation.                                        *)
LEMMA DonePermutes ==
  ASSUME NEW o, PassOK(o), NEW t \in Tables, Done(t, o, 0, Size)
  PROVE  Permutation(t)
<1>1. OneToOne(t)
  <2> SUFFICES ASSUME NEW k \in 1..Size, NEW l \in 1..Size, t[k] = t[l], k < l
               PROVE  FALSE
    BY DEF OneToOne
  <2>1. <<t[k], t[l]>> \in o.order
    BY TableAssumption DEF Done, InOrder, Within
  <2>2. t[k] \in Bytes
    BY DEF Tables
  <2>3. QED
    BY <2>1, <2>2 DEF PassOK
<1>2. ASSUME NEW b \in Bytes
      PROVE  \E k \in 1..Size : t[k] = b
  <2>1. o.places[b] \in 1..Size /\ o.before[o.places[b]] = b
    BY DEF PassOK
  <2>2. Within(o.places[b], 0, Size)
    BY <2>1, TableAssumption DEF Within
  <2>3. QED
    BY <2>1, <2>2 DEF Done
<1>3. QED
  BY <1>1, <1>2 DEF Permutation, HasAll

-----------------------------------------------------------------------------
(* Merging.                                                                *)

LEMMA CopyOf ==
  ASSUME NEW t \in Tables, NEW lo \in Nat, NEW n \in Nat, lo + n <= Size
  PROVE  /\ SubSeq(t, lo + 1, lo + n) \in Seq(Bytes)
         /\ Len(SubSeq(t, lo + 1, lo + n)) = n
         /\ \A a \in 1..n : SubSeq(t, lo + 1, lo + n)[a] = t[lo + a]
<1> DEFINE s == SubSeq(t, lo + 1, lo + n)
<1>1. Size \in Nat /\ \A i \in (lo + 1)..(lo + n) : t[i] \in Bytes
  BY TableAssumption DEF Tables
<1>2. /\ s \in Seq(Bytes)
      /\ Len(s) = IF lo + 1 <= lo + n THEN (lo + n) - (lo + 1) + 1 ELSE 0
      /\ \A i \in 1..((lo + n) - (lo + 1) + 1) : s[i] = t[(lo + 1) + i - 1]
  <2>1. lo + 1 \in Int /\ lo + n \in Int
    OBVIOUS
  <2>2. QED
    BY <1>1, <2>1, SubSeqProperties
<1> HIDE DEF s
<1>3. s \in Seq(Bytes) /\ Len(s) = n /\ \A a \in 1..n : s[a] = t[lo + a]
  BY <1>2
<1>4. QED
  BY <1>3 DEF s

LEMMA CopiesSorted ==
  ASSUME NEW o, NEW t, NEW lo \in Nat, NEW n \in Nat, NEW s,
         lo + n <= Size, Done(t, o, lo, n), Len(s) = n, \A a \in 1..n : s[a] = t[lo + a]
  PROVE  /\ Ascending(s, o)
         /\ From(s, o, lo, n)
         /\ AllOf(s, o, lo, n)
<1>1. Size \in Nat
  BY TableAssumption
<1>3. Len(s) = n /\ \A a \in 1..n : s[a] = t[lo + a]
  OBVIOUS
<1>4. \A a \in 1..n : lo + a \in 1..Size /\ Within(lo + a, lo, n)
  BY <1>1 DEF Within
<1>5. Ascending(s, o)
  <2>1. \A a, b \in 1..n : a < b => lo + a < lo + b
    OBVIOUS
  <2>2. \A a, b \in 1..n : a < b => <<t[lo + a], t[lo + b]>> \in o.order
    BY <2>1, <1>4 DEF Done, InOrder
  <2>3. QED
    BY <2>2, <1>3 DEF Ascending
<1>6. From(s, o, lo, n)
  BY <1>3, <1>4 DEF From, Done
<1>7. ASSUME NEW p \in 1..Size, Within(p, lo, n)
      PROVE  \E a \in 1..n : s[a] = o.before[p]
  <2>1. PICK q \in 1..Size : Within(q, lo, n) /\ t[q] = o.before[p]
    BY <1>7 DEF Done
  <2>2. q - lo \in 1..n /\ lo + (q - lo) = q
    BY <2>1, <1>1 DEF Within
  <2>3. s[q - lo] = t[q]
    BY <2>2, <1>3
  <2>4. QED
    BY <2>1, <2>2, <2>3
<1>8. QED
  BY <1>3, <1>5, <1>6, <1>7 DEF AllOf

LEMMA MergeStarts ==
  ASSUME NEW o, NEW t, NEW lo \in Nat, NEW l \in Nat, NEW m \in Nat,
         NEW s, NEW r, Len(s) = l, Len(r) = m, AllOf(s, o, lo, l), AllOf(r, o, lo + l, m)
  PROVE  Merging(t, o, lo, l + m, s, r, 0)
<1>1. \A p \in 1..Size : ~Within(p, lo, 0)
  BY TableAssumption DEF Within
<1>2. \A p \in 1..Size : Within(p, lo, l + m) => Within(p, lo, l) \/ Within(p, lo + l, m)
  BY TableAssumption DEF Within
<1>3. InOrder(t, o, lo, 0)
  BY <1>1 DEF InOrder
<1>4. \A p \in 1..Size : Within(p, lo, l + m) =>
        \/ \E a \in 1..Len(s) : s[a] = o.before[p]
        \/ \E a \in 1..Len(r) : r[a] = o.before[p]
  BY <1>2 DEF AllOf
<1>5. 0 \in Nat /\ l + m = 0 + Len(s) + Len(r)
  OBVIOUS
<1>6. QED
  BY <1>1, <1>3, <1>4, <1>5 DEF Merging

LEMMA MergingSwaps ==
  ASSUME NEW o, NEW t, NEW lo, NEW n \in Nat, NEW s \in Seq(Bytes), NEW r \in Seq(Bytes), NEW w,
         Merging(t, o, lo, n, s, r, w)
  PROVE  Merging(t, o, lo, n, r, s, w)
<1>1. Len(s) \in Nat /\ Len(r) \in Nat
  BY LenProperties
<1>2. w \in Nat /\ n = w + Len(r) + Len(s)
  BY <1>1 DEF Merging
<1>3. \A p \in 1..Size : Within(p, lo, w) => Within(o.places[t[p]], lo, n)
  BY DEF Merging
<1>4. InOrder(t, o, lo, w)
  BY DEF Merging
<1>5. \A p \in 1..Size : Within(p, lo, w) =>
        /\ \A a \in 1..Len(r) : <<t[p], r[a]>> \in o.order
        /\ \A a \in 1..Len(s) : <<t[p], s[a]>> \in o.order
  BY DEF Merging
<1>6. \A p \in 1..Size : Within(p, lo, n) =>
        \/ \E q \in 1..Size : Within(q, lo, w) /\ t[q] = o.before[p]
        \/ \E a \in 1..Len(r) : r[a] = o.before[p]
        \/ \E a \in 1..Len(s) : s[a] = o.before[p]
  BY DEF Merging
<1>7. QED
  BY <1>2, <1>3, <1>4, <1>5, <1>6 DEF Merging

(* Putting back the first byte of s, less than all of r.                   *)
LEMMA MergingContinues ==
  ASSUME NEW o, NEW t \in Tables, NEW lo \in Nat, NEW n \in Nat, lo + n <= Size,
         NEW s \in Seq(Bytes), NEW r \in Seq(Bytes), s # <<>>, NEW w,
         Merging(t, o, lo, n, s, r, w), Ascending(s, o),
         Within(o.places[s[1]], lo, n), \A a \in 1..Len(r) : <<s[1], r[a]>> \in o.order
  PROVE  Merging([t EXCEPT ![lo + w + 1] = s[1]], o, lo, n, Tail(s), r, w + 1)
<1> DEFINE u == [t EXCEPT ![lo + w + 1] = s[1]]
           q == lo + w + 1
           z == Tail(s)
<1>1. /\ Len(s) \in Nat \ {0} /\ Len(r) \in Nat /\ Len(z) = Len(s) - 1
      /\ \A a \in 1..Len(z) : z[a] = s[a + 1]
  BY LenProperties, EmptySeq, HeadTailProperties
<1>2. /\ w \in Nat /\ n = w + Len(s) + Len(r)
      /\ \A p \in 1..Size : Within(p, lo, w) => Within(o.places[t[p]], lo, n)
      /\ InOrder(t, o, lo, w)
      /\ \A p \in 1..Size : Within(p, lo, w) =>
           /\ \A a \in 1..Len(s) : <<t[p], s[a]>> \in o.order
           /\ \A a \in 1..Len(r) : <<t[p], r[a]>> \in o.order
      /\ \A p \in 1..Size : Within(p, lo, n) =>
           \/ \E k \in 1..Size : Within(k, lo, w) /\ t[k] = o.before[p]
           \/ \E a \in 1..Len(s) : s[a] = o.before[p]
           \/ \E a \in 1..Len(r) : r[a] = o.before[p]
  BY DEF Merging
<1>3. Size \in Nat /\ q \in 1..Size /\ w + 1 \in Nat /\ n = (w + 1) + Len(z) + Len(r)
  BY <1>1, <1>2, TableAssumption
<1>4. u[q] = s[1] /\ \A p \in 1..Size : p # q => u[p] = t[p]
  BY <1>3 DEF Tables
<1>w. w \in Nat
  BY <1>2
<1>5. ASSUME NEW p \in 1..Size
      PROVE  Within(p, lo, w + 1) <=> (Within(p, lo, w) \/ p = q)
  <2>1. p \in Int /\ q \in Int
    BY <1>3
  <2>2. lo + (w + 1) = q /\ lo < q /\ lo + w = q - 1
    BY <1>w
  <2> HIDE DEF q
  <2>3. p <= q <=> p <= q - 1 \/ p = q
    BY <2>1
  <2>4. QED
    BY <2>1, <2>2, <2>3 DEF Within
<1>6. \A p \in 1..Size : Within(p, lo, w) => p # q /\ p < q
  BY <1>w, <1>3 DEF Within
<1>7. \A a \in 1..Len(z) : a + 1 \in 1..Len(s) /\ 1 < a + 1
  BY <1>1
<1>8. 1 \in 1..Len(s)
  BY <1>1
<1> HIDE DEF u, q, z
<1>9. \A p \in 1..Size : Within(p, lo, w + 1) => Within(o.places[u[p]], lo, n)
  BY <1>2, <1>4, <1>5, <1>6
<1>10. InOrder(u, o, lo, w + 1)
  <2> SUFFICES ASSUME NEW p \in 1..Size, NEW k \in 1..Size, p < k,
                      Within(p, lo, w + 1), Within(k, lo, w + 1)
               PROVE  <<u[p], u[k]>> \in o.order
    BY DEF InOrder
  <2>1. p # q
    <3>1. p \in Int /\ k \in Int /\ q \in Int
      BY <1>3
    <3>2. k = q \/ k < q
      BY <1>5, <1>6
    <3>3. QED
      BY <3>1, <3>2
  <2>2. Within(p, lo, w) /\ u[p] = t[p]
    BY <2>1, <1>4, <1>5
  <2>3. CASE k = q
    BY <2>2, <2>3, <1>2, <1>4, <1>8
  <2>4. CASE k # q
    BY <2>2, <2>4, <1>2, <1>4, <1>5 DEF InOrder
  <2>5. QED
    BY <2>3, <2>4
<1>11. ASSUME NEW p \in 1..Size, Within(p, lo, w + 1)
       PROVE  /\ \A a \in 1..Len(z) : <<u[p], z[a]>> \in o.order
              /\ \A a \in 1..Len(r) : <<u[p], r[a]>> \in o.order
  <2>1. CASE p = q
    <3>1. \A a \in 1..Len(z) : <<s[1], z[a]>> \in o.order
      BY <1>1, <1>7, <1>8 DEF Ascending
    <3>2. QED
      BY <2>1, <3>1, <1>4
  <2>2. CASE p # q
    <3>1. Within(p, lo, w) /\ u[p] = t[p]
      BY <2>2, <1>4, <1>5, <1>11
    <3>2. \A a \in 1..Len(z) : <<t[p], z[a]>> \in o.order
      BY <3>1, <1>1, <1>2, <1>7
    <3>3. QED
      BY <3>1, <3>2, <1>2
  <2>3. QED
    BY <2>1, <2>2
<1>12. ASSUME NEW p \in 1..Size, Within(p, lo, n)
       PROVE  \/ \E k \in 1..Size : Within(k, lo, w + 1) /\ u[k] = o.before[p]
              \/ \E a \in 1..Len(z) : z[a] = o.before[p]
              \/ \E a \in 1..Len(r) : r[a] = o.before[p]
  <2>1. CASE \E k \in 1..Size : Within(k, lo, w) /\ t[k] = o.before[p]
    BY <2>1, <1>4, <1>5, <1>6
  <2>2. ASSUME NEW a \in 1..Len(s), s[a] = o.before[p]
        PROVE  \/ u[q] = o.before[p]
               \/ \E i \in 1..Len(z) : z[i] = o.before[p]
    <3>1. CASE a = 1
      BY <3>1, <2>2, <1>4
    <3>2. CASE a # 1
      <4>1. a - 1 \in 1..Len(z) /\ (a - 1) + 1 = a
        BY <3>2, <1>1
      <4>2. z[a - 1] = s[a]
        BY <4>1, <1>1
      <4>3. QED
        BY <4>1, <4>2, <2>2
    <3>3. QED
      BY <3>1, <3>2
  <2>3. Within(q, lo, w + 1)
    BY <1>3, <1>5
  <2>4. QED
    BY <2>1, <2>2, <2>3, <1>2, <1>3, <1>12
<1>13. Merging(u, o, lo, n, z, r, w + 1)
  BY <1>3, <1>9, <1>10, <1>11, <1>12 DEF Merging
<1>14. QED
  BY <1>13 DEF u, z

LEMMA MergedIsDone ==
  ASSUME NEW o, NEW t, NEW lo, NEW n \in Nat, NEW w, Merging(t, o, lo, n, <<>>, <<>>, w)
  PROVE  Done(t, o, lo, n)
<1>1. Len(<<>>) = 0
  BY EmptySeq
<1>2. w = n
  BY <1>1 DEF Merging
<1>3. \A p \in 1..Size : Within(p, lo, n) => Within(o.places[t[p]], lo, n)
  BY <1>2 DEF Merging
<1>4. InOrder(t, o, lo, n)
  BY <1>2 DEF Merging
<1>5. \A p \in 1..Size : Within(p, lo, n) =>
        \E q \in 1..Size : Within(q, lo, n) /\ t[q] = o.before[p]
  BY <1>1, <1>2 DEF Merging
<1>6. QED
  BY <1>3, <1>4, <1>5 DEF Done

(* What the tail of a temporary keeps.                                     *)
LEMMA TailsKeep ==
  ASSUME NEW o, NEW s \in Seq(Bytes), s # <<>>, NEW lo, NEW n, Ascending(s, o), From(s, o, lo, n)
  PROVE  /\ Tail(s) \in Seq(Bytes) /\ Len(Tail(s)) = Len(s) - 1
         /\ Ascending(Tail(s), o) /\ From(Tail(s), o, lo, n)
<1>1. /\ Tail(s) \in Seq(Bytes) /\ Len(Tail(s)) = Len(s) - 1 /\ Len(s) \in Nat
      /\ \A a \in 1..Len(Tail(s)) : Tail(s)[a] = s[a + 1]
  BY LenProperties, HeadTailProperties
<1>2. \A a \in 1..Len(Tail(s)) : a + 1 \in 1..Len(s)
  BY <1>1
<1>3. Ascending(Tail(s), o)
  <2>1. \A a, b \in 1..Len(Tail(s)) : a < b => a + 1 < b + 1
    BY <1>1
  <2>2. QED
    BY <1>1, <1>2, <2>1 DEF Ascending
<1>4. From(Tail(s), o, lo, n)
  BY <1>1, <1>2 DEF From
<1>5. QED
  BY <1>1, <1>3, <1>4

-----------------------------------------------------------------------------
(* The calls under way.                                                    *)

(* All but the last of the calls, and all with the last one gone on.       *)
LEMMA LastCall ==
  ASSUME NEW c \in Seq(Frames), c # <<>>
  PROVE  /\ Len(c) \in Nat \ {0} /\ \A j \in 1..Len(c) : c[j] \in Frames
         /\ SubSeq(c, 1, Len(c) - 1) \in Seq(Frames)
         /\ Len(SubSeq(c, 1, Len(c) - 1)) = Len(c) - 1
         /\ \A j \in 1..(Len(c) - 1) : SubSeq(c, 1, Len(c) - 1)[j] = c[j]
<1>1. Len(c) \in Nat \ {0} /\ \A j \in 1..Len(c) : c[j] \in Frames
  BY EmptySeq, ElementOfSeq
<1> DEFINE m == Len(c) - 1
<1>2. 1 \in Int /\ m \in Int /\ \A i \in 1..m : c[i] \in Frames
  BY <1>1
<1> HIDE DEF m
<1>3. /\ SubSeq(c, 1, m) \in Seq(Frames)
      /\ Len(SubSeq(c, 1, m)) = IF 1 <= m THEN m - 1 + 1 ELSE 0
      /\ \A i \in 1..(m - 1 + 1) : SubSeq(c, 1, m)[i] = c[1 + i - 1]
  BY <1>2, SubSeqProperties
<1>4. m \in Nat
  BY <1>1 DEF m
<1>5. /\ Len(SubSeq(c, 1, m)) = m
      /\ \A i \in 1..m : SubSeq(c, 1, m)[i] = c[i]
  BY <1>3, <1>4
<1>6. QED
  BY <1>1, <1>3, <1>5 DEF m

LEMMA LastGoesOn ==
  ASSUME NEW c \in Seq(Frames), c # <<>>, NEW step \in {"enter", "left", "right", "merge"}
  PROVE  LET d == Append(SubSeq(c, 1, Len(c) - 1), [c[Len(c)] EXCEPT !.step = step])
         IN  /\ d \in Seq(Frames) /\ Len(d) = Len(c)
             /\ \A j \in 1..Len(c) : j < Len(c) => d[j] = c[j]
             /\ d[Len(c)] \in Frames /\ d[Len(c)].step = step
             /\ d[Len(c)].from = c[Len(c)].from /\ d[Len(c)].length = c[Len(c)].length
<1> DEFINE b == SubSeq(c, 1, Len(c) - 1)
           f == c[Len(c)]
           g == [f EXCEPT !.step = step]
<1>1. /\ Len(c) \in Nat \ {0} /\ b \in Seq(Frames) /\ Len(b) = Len(c) - 1
      /\ \A j \in 1..(Len(c) - 1) : b[j] = c[j]
  BY LastCall
<1>2. f \in Frames
  BY <1>1, LastCall
<1>3. g \in Frames /\ g.step = step /\ g.from = f.from /\ g.length = f.length
  BY <1>2 DEF Frames
<1> HIDE DEF b, f, g
<1>4. /\ Append(b, g) \in Seq(Frames) /\ Len(Append(b, g)) = Len(c)
      /\ Append(b, g)[Len(c)] = g
      /\ \A j \in 1..(Len(c) - 1) : Append(b, g)[j] = b[j]
  BY <1>1, <1>3
<1>5. QED
  BY <1>1, <1>3, <1>4 DEF b, f, g

LEMMA CallerNested ==
  ASSUME NEW c \in Seq(Frames), c # <<>>, CallsNested(c)
  PROVE  CallsNested(SubSeq(c, 1, Len(c) - 1))
<1> DEFINE d == SubSeq(c, 1, Len(c) - 1)
<1>1. /\ Len(c) \in Nat \ {0} /\ Len(d) = Len(c) - 1
      /\ \A j \in 1..Len(d) : d[j] = c[j] /\ j \in 1..Len(c)
      /\ \A j \in 1..Len(d) : j < Len(d) => j < Len(c) /\ j + 1 \in 1..Len(d)
      /\ d # <<>> => 1 \in 1..Len(d)
  BY LastCall, EmptySeq
<1> HIDE DEF d
<1>2. \A j \in 1..Len(d) : CallOK(d[j])
  BY <1>1 DEF CallsNested
<1>3. d # <<>> => d[1].from = 0 /\ d[1].length = Size
  BY <1>1 DEF CallsNested
<1>4. \A j \in 1..Len(d) : j < Len(d) =>
        /\ d[j + 1].from = HalfFrom(d[j])
        /\ d[j + 1].length = HalfLength(d[j])
  BY <1>1 DEF CallsNested
<1>5. \A j, k \in 1..Len(d) : j < k => Inside(d[k], d[j])
  BY <1>1 DEF CallsNested
<1>6. CallsNested(d)
  BY <1>2, <1>3, <1>4, <1>5 DEF CallsNested
<1>7. QED
  BY <1>6 DEF d

LEMMA GoneOnNested ==
  ASSUME NEW c \in Seq(Frames), c # <<>>, CallsNested(c), c[Len(c)].length >= 2,
         NEW d \in Seq(Frames), Len(d) = Len(c),
         \A j \in 1..Len(c) : j < Len(c) => d[j] = c[j],
         d[Len(c)].from = c[Len(c)].from, d[Len(c)].length = c[Len(c)].length
  PROVE  CallsNested(d)
<1>1. Len(c) \in Nat \ {0} /\ d # <<>>
  BY EmptySeq
<1>2. \A j \in 1..Len(c) : d[j].from = c[j].from /\ d[j].length = c[j].length
  BY <1>1
<1>3. \A j \in 1..Len(d) : CallOK(d[j])
  BY <1>1, <1>2 DEF CallsNested, CallOK
<1>4. d[1].from = 0 /\ d[1].length = Size
  BY <1>1, <1>2 DEF CallsNested
<1>5. ASSUME NEW j \in 1..Len(d), j < Len(d)
      PROVE  /\ d[j + 1].from = HalfFrom(d[j])
             /\ d[j + 1].length = HalfLength(d[j])
  <2>1. d[j] = c[j] /\ j + 1 \in 1..Len(c)
    BY <1>1, <1>5
  <2>2. c[j + 1].from = HalfFrom(c[j]) /\ c[j + 1].length = HalfLength(c[j])
    BY <1>5 DEF CallsNested
  <2>3. QED
    BY <2>1, <2>2, <1>2
<1>6. ASSUME NEW j \in 1..Len(d), NEW k \in 1..Len(d), j < k
      PROVE  Inside(d[k], d[j])
  <2>1. j < Len(c) /\ d[j] = c[j]
    BY <1>1, <1>6
  <2>2. Inside(c[k], c[j])
    BY <1>6 DEF CallsNested
  <2>3. QED
    BY <2>1, <2>2, <1>2 DEF Inside
<1>7. QED
  BY <1>3, <1>4, <1>5, <1>6 DEF CallsNested

LEMMA CalledNested ==
  ASSUME NEW c \in Seq(Frames), c # <<>>, CallsNested(c),
         NEW f, f = c[Len(c)], f.length >= 2, f.step \in {"left", "right"}
  PROVE  LET d == Append(c, Call(HalfFrom(f), HalfLength(f)))
         IN  /\ d \in Seq(Frames) /\ Len(d) = Len(c) + 1
             /\ \A j \in 1..Len(c) : d[j] = c[j]
             /\ d[Len(c) + 1] = Call(HalfFrom(f), HalfLength(f))
             /\ CallsNested(d)
<1> DEFINE h == Call(HalfFrom(f), HalfLength(f))
           d == Append(c, h)
<1>1. Len(c) \in Nat \ {0} /\ f \in Frames /\ Len(c) \in 1..Len(c)
  BY EmptySeq, ElementOfSeq
<1>2. /\ f.from \in Nat /\ f.length \in Nat /\ f.from + f.length <= Size /\ Size \in Nat
  BY <1>1, TableAssumption DEF CallsNested, CallOK, Frames
<1>3. /\ Middle(f) \in 1..(Size - 1) /\ LLength(f) \in 1..(Size - 1)
      /\ LLength(f) + Middle(f) = f.length
  BY <1>1, Halves
<1>4. /\ HalfFrom(f) \in 0..Size /\ HalfLength(f) \in 0..Size
      /\ f.from <= HalfFrom(f) /\ HalfFrom(f) + HalfLength(f) <= f.from + f.length
  <2> DEFINE m == Middle(f)
             n == LLength(f)
  <2>1. \/ /\ HalfFrom(f) = f.from
           /\ HalfLength(f) = n
        \/ /\ HalfFrom(f) = f.from + n
           /\ HalfLength(f) = m
    BY DEF HalfFrom, HalfLength
  <2>2. m \in 1..(Size - 1) /\ n \in 1..(Size - 1) /\ n + m = f.length
    BY <1>3
  <2> HIDE DEF m, n
  <2>3. QED
    BY <1>2, <2>1, <2>2
<1>5. /\ h \in Frames /\ h.from = HalfFrom(f) /\ h.length = HalfLength(f)
      /\ h.step = "enter"
  BY <1>4 DEF Call, Frames
<1> HIDE DEF h
<1>6. /\ d \in Seq(Frames) /\ Len(d) = Len(c) + 1
      /\ \A j \in 1..Len(c) : d[j] = c[j]
      /\ d[Len(c) + 1] = h
  BY <1>1, <1>5
<1> HIDE DEF d
<1>7. \A j \in 1..Len(d) : j \in 1..Len(c) \/ j = Len(c) + 1
  BY <1>1, <1>6
<1>8. \A j \in 1..Len(d) : CallOK(d[j])
  <2>1. CallOK(h)
    BY <1>2, <1>4, <1>5 DEF CallOK
  <2>2. QED
    BY <2>1, <1>6, <1>7 DEF CallsNested
<1>9. d # <<>> /\ d[1].from = 0 /\ d[1].length = Size
  <2>1. 1 \in 1..Len(c) /\ d # <<>>
    BY <1>1, <1>6, EmptySeq
  <2>2. QED
    BY <2>1, <1>6 DEF CallsNested
<1>10. ASSUME NEW j \in 1..Len(d), j < Len(d)
       PROVE  /\ d[j + 1].from = HalfFrom(d[j])
              /\ d[j + 1].length = HalfLength(d[j])
  <2>1. j \in 1..Len(c) /\ d[j] = c[j]
    BY <1>1, <1>6, <1>10
  <2>2. CASE j = Len(c)
    BY <2>1, <2>2, <1>5, <1>6
  <2>3. CASE j # Len(c)
    <3>1. j < Len(c) /\ j + 1 \in 1..Len(c)
      BY <2>1, <2>3, <1>1
    <3>2. QED
      BY <2>1, <3>1, <1>6 DEF CallsNested
  <2>4. QED
    BY <2>2, <2>3
<1>11. ASSUME NEW j \in 1..Len(d), NEW k \in 1..Len(d), j < k
       PROVE  Inside(d[k], d[j])
  <2>1. j \in 1..Len(c) /\ d[j] = c[j]
    BY <1>1, <1>6, <1>11
  <2>2. CASE k \in 1..Len(c)
    BY <2>1, <2>2, <1>6, <1>11 DEF CallsNested
  <2>3. CASE k = Len(c) + 1
    <3>1. d[k] = h
      BY <2>3, <1>6
    <3>2. CASE j = Len(c)
      BY <2>1, <3>1, <3>2, <1>4, <1>5 DEF Inside
    <3>3. CASE j # Len(c)
      <4>1. j < Len(c)
        BY <2>1, <3>3, <1>1
      <4>2. Inside(f, c[j])
        BY <2>1, <4>1, <1>1 DEF CallsNested
      <4>3. c[j] \in Frames /\ CallOK(c[j])
        BY <2>1, ElementOfSeq DEF CallsNested
      <4> DEFINE x == HalfFrom(c[j])
                 y == HalfLength(c[j])
      <4>4. x \in Int /\ y \in Int
        <5>1. c[j].length >= 2 /\ c[j].from \in Nat
          <6>1. c[j].step # "enter"
            BY <4>2 DEF Inside
          <6>2. QED
            BY <6>1, <4>3 DEF CallOK, Frames
        <5>2. Middle(c[j]) \in Int /\ LLength(c[j]) \in Int
          BY <4>3, <5>1, Halves
        <5>3. QED
          BY <5>1, <5>2 DEF HalfFrom, HalfLength
      <4>5. x <= f.from /\ f.from + f.length <= x + y /\ c[j].step \in {"left", "right"}
        BY <4>2 DEF Inside
      <4> HIDE DEF x, y
      <4>6. x <= h.from /\ h.from + h.length <= x + y
        <5> DEFINE a == HalfFrom(f)
                   b == HalfLength(f)
                   u == f.from
                   v == f.length
        <5>1. a \in 0..Size /\ b \in 0..Size /\ u <= a /\ a + b <= u + v
          BY <1>4
        <5>2. u \in Nat /\ v \in Nat /\ Size \in Nat
          BY <1>2
        <5>3. x \in Int /\ y \in Int /\ x <= u /\ u + v <= x + y
          BY <4>4, <4>5
        <5>4. h.from = a /\ h.length = b
          BY <1>5
        <5> HIDE DEF a, b, u, v
        <5>5. x <= a /\ a + b <= x + y
          BY <5>1, <5>2, <5>3
        <5>6. QED
          BY <5>4, <5>5
      <4>7. QED
        BY <2>1, <3>1, <4>5, <4>6 DEF Inside, x, y
    <3>4. QED
      BY <3>2, <3>3
  <2>4. QED
    BY <2>2, <2>3, <1>7
<1>12. CallsNested(d)
  BY <1>8, <1>9, <1>10, <1>11 DEF CallsNested
<1>13. QED
  BY <1>6, <1>12 DEF d, h

-----------------------------------------------------------------------------
(* What the segments hold while a call works on its own.                   *)

LEMMA CallerUndisturbed ==
  ASSUME NEW o, NEW t, NEW u, NEW f \in Frames, CallOK(f), NEW g \in Frames, Inside(g, f),
         \A p \in 1..Size : ~Within(p, g.from, g.length) => u[p] = t[p],
         Waiting(t, o, f)
  PROVE  Waiting(u, o, f)
<1>1. /\ f.from \in Nat /\ f.length \in Nat /\ f.length >= 2 /\ Size \in Nat
      /\ g.from \in Nat /\ g.length \in Nat
  BY TableAssumption DEF Inside, CallOK, Frames
<1>2. /\ Middle(f) \in Nat /\ LLength(f) \in Nat
      /\ LLength(f) + Middle(f) = f.length
  BY <1>1, Halves
<1>3. CASE f.step = "left"
  <2>1. f.from <= g.from /\ g.from + g.length <= f.from + LLength(f)
    BY <1>3 DEF Inside, HalfFrom, HalfLength
  <2>2. \A p \in 1..Size :
          Within(p, f.from + LLength(f), Middle(f)) => ~Within(p, g.from, g.length)
    BY <1>1, <1>2, <2>1 DEF Within
  <2>3. Untouched(u, o, f.from + LLength(f), Middle(f))
    BY <1>3, <2>2, SameSegment DEF Waiting
  <2>4. QED
    BY <1>3, <2>3 DEF Waiting
<1>4. CASE f.step = "right"
  <2>1. f.from + LLength(f) <= g.from
    BY <1>4 DEF Inside, HalfFrom, HalfLength
  <2>2. \A p \in 1..Size : Within(p, f.from, LLength(f)) => ~Within(p, g.from, g.length)
    BY <1>1, <1>2, <2>1 DEF Within
  <2>3. Done(u, o, f.from, LLength(f))
    BY <1>4, <2>2, SameSegment DEF Waiting
  <2>4. QED
    BY <1>4, <2>3 DEF Waiting
<1>5. QED
  BY <1>3, <1>4 DEF Inside

(* The facts about a pass that the steps of merge_sort rest on.            *)
LEMMA InPass ==
  ASSUME TCInv, stack # <<>>
  PROVE  /\ at = "sort" /\ _a \in Nat /\ _i \in Nat /\ _i >= 1 /\ _i < Passes
         /\ Passes \in Nat /\ Size \in Nat
         /\ before \in Tables /\ Permutation(before) /\ PassOK(pass)
         /\ Len(stack) \in Nat \ {0} /\ Len(stack) \in 1..Len(stack)
         /\ Top \in Frames /\ CallOK(Top)
         /\ Top.from \in Nat /\ Top.length \in Nat /\ Top.from + Top.length <= Size
<1>1. /\ at = "sort" /\ _a \in Nat /\ _i \in Nat /\ _i >= 1 /\ _i < Passes
      /\ Passes \in Nat /\ Size \in Nat
      /\ before \in Tables /\ Permutation(before)
  BY TableAssumption DEF TCInv, TCTypeOK, TablesPermuted
<1>2. PassOK(pass)
  BY <1>1, PassIsOK
<1>3. Len(stack) \in Nat \ {0} /\ Len(stack) \in 1..Len(stack)
  BY EmptySeq DEF TCInv, TCTypeOK
<1>4. Top \in Frames
  BY <1>3, ElementOfSeq DEF TCInv, TCTypeOK, Top
<1>5. CallOK(Top)
  BY <1>3 DEF TCInv, CallsNested, Top
<1>6. Top.from \in Nat /\ Top.length \in Nat /\ Top.from + Top.length <= Size
  BY <1>4, <1>5 DEF Frames, CallOK
<1>7. QED
  BY <1>1, <1>2, <1>3, <1>4, <1>5, <1>6

(* A call that returns has sorted its segment: its caller has that half,   *)
(* and get_table, after the outermost call, a permutation.                 *)
LEMMA ReturnKeeps ==
  ASSUME TCInv, stack # <<>>, Done(encrypt_table, pass, Top.from, Top.length), Return
  PROVE  TCInv'
<1> DEFINE n == Len(stack)
<1>1. /\ at = "sort" /\ _i \in Nat /\ _i >= 1 /\ _i < Passes /\ Passes \in Nat
      /\ PassOK(pass) /\ n \in Nat \ {0} /\ n \in 1..n
  BY InPass
<1>2. stack \in Seq(Frames) /\ encrypt_table \in Tables /\ CallsNested(stack)
  BY DEF TCInv, TCTypeOK
<1>3. /\ stack' \in Seq(Frames) /\ Len(stack') = n - 1
      /\ \A j \in 1..(n - 1) : stack'[j] = stack[j]
  BY <1>2, LastCall DEF Return, Callers
<1>4. CallsNested(stack')
  BY <1>2, CallerNested DEF Return, Callers
<1>5. /\ UNCHANGED <<at, _a, decrypt_table, inverted, calls>>
      /\ UNCHANGED <<encrypt_table, ltmp, rtmp, before>>
      /\ stack' = Callers
  BY DEF Return, get_table_vars, merge_vars
<1>6. CASE n = 1
  <2>1. stack' = <<>>
    BY <1>3, <1>6, EmptySeq
  <2>2. _i' = _i + 1
    BY <2>1 DEF Return
  <2>3. Top.from = 0 /\ Top.length = Size
    BY <1>2, <1>6 DEF CallsNested, Top
  <2>4. Permutation(encrypt_table)
    BY <1>1, <1>2, <2>3, DonePermutes
  <2>5. TCTypeOK'
    BY <1>1, <1>3, <1>5, <2>2 DEF TCInv, TCTypeOK
  <2>6. TablesPermuted'
    BY <1>1, <1>5, <2>1, <2>2, <2>4 DEF TablesPermuted
  <2>7. SegmentsSorted'
    <3>1. ~(stack' # <<>>) /\ \A j \in 1..Len(stack') : FALSE
      BY <1>3, <1>6, <2>1
    <3>2. QED
      BY <3>1 DEF SegmentsSorted
  <2>8. TablesInverted'
    BY <1>1, <1>5 DEF TablesInverted
  <2>9. QED
    BY <1>4, <2>5, <2>6, <2>7, <2>8 DEF TCInv
<1>7. CASE n # 1
  <2>1. stack' # <<>> /\ n - 1 \in 1..n /\ n - 1 < n /\ (n - 1) + 1 = n /\ n - 1 \in 1..(n - 1)
    BY <1>1, <1>3, <1>7, EmptySeq
  <2>2. _i' = _i
    BY <1>5, <2>1 DEF Return
  <2>3. pass' = pass
    BY <1>5, <2>2, PassStays
  <2> DEFINE f == stack[n - 1]
  <2>4. Top' = f
    BY <1>3, <2>1 DEF Top
  <2>5. f \in Frames /\ Inside(Top, f) /\ Top.from = HalfFrom(f) /\ Top.length = HalfLength(f)
    <3>1. f \in Frames
      BY <1>2, <2>1, ElementOfSeq
    <3>2. Inside(stack[n], stack[n - 1])
      BY <1>1, <1>2, <2>1 DEF CallsNested
    <3>3. /\ stack[(n - 1) + 1].from = HalfFrom(stack[n - 1])
          /\ stack[(n - 1) + 1].length = HalfLength(stack[n - 1])
      BY <1>2, <2>1 DEF CallsNested
    <3>4. QED
      BY <3>1, <3>2, <3>3, <2>1 DEF Top
  <2> HIDE DEF f
  <2>6. Working(encrypt_table, pass, f, ltmp, rtmp)
    BY <2>5 DEF Working, Inside, HalfFrom, HalfLength
  <2>7. SegmentsSorted'
    <3>1. \A j \in 1..(n - 1) : Waiting(encrypt_table, pass, stack[j])
      BY <1>1 DEF TCInv, SegmentsSorted
    <3>2. \A j \in 1..Len(stack') : Waiting(encrypt_table', pass', stack'[j])
      BY <1>3, <1>5, <2>3, <3>1
    <3>3. Working(encrypt_table', pass', Top', ltmp', rtmp')
      BY <1>5, <2>3, <2>4, <2>6
    <3>4. QED
      BY <3>2, <3>3 DEF SegmentsSorted
  <2>8. TCTypeOK'
    BY <1>1, <1>3, <1>5, <2>2 DEF TCInv, TCTypeOK
  <2>9. TablesPermuted'
    BY <1>1, <1>5, <2>1, <2>2 DEF TCInv, TablesPermuted
  <2>10. TablesInverted'
    BY <1>1, <1>5 DEF TablesInverted
  <2>11. QED
    BY <1>4, <2>7, <2>8, <2>9, <2>10 DEF TCInv
<1>8. QED
  BY <1>6, <1>7

LEMMA ReturnsSorted ==
  ASSUME TCInv, TooShort \/ Merged
  PROVE  /\ stack # <<>>
         /\ Return
         /\ Done(encrypt_table, pass, Top.from, Top.length)
<1>1. CASE TooShort
  <2>1. stack # <<>> /\ Top.step = "enter" /\ Top.length <= 1 /\ Return
    BY <1>1 DEF TooShort, AtStep
  <2>2. Untouched(encrypt_table, pass, Top.from, Top.length)
    BY <2>1 DEF TCInv, SegmentsSorted, Working
  <2>3. Done(encrypt_table, pass, Top.from, Top.length)
    BY <2>1, <2>2, InPass, ShortIsDone
  <2>4. QED
    BY <2>1, <2>3
<1>2. CASE Merged
  <2>1. stack # <<>> /\ Top.step = "merge" /\ ltmp = <<>> /\ rtmp = <<>> /\ Return
    BY <1>2 DEF Merged, AtStep
  <2>2. Merging(encrypt_table, pass, Top.from, Top.length, <<>>, <<>>,
                Top.length - Len(<<>>) - Len(<<>>))
    BY <2>1 DEF TCInv, SegmentsSorted, Working
  <2>3. Done(encrypt_table, pass, Top.from, Top.length)
    BY <2>1, <2>2, InPass, MergedIsDone
  <2>4. QED
    BY <2>1, <2>3
<1>3. QED
  BY <1>1, <1>2

(* A call goes on to have a half sorted that nothing has touched yet.      *)
LEMMA CallKeeps ==
  ASSUME TCInv, stack # <<>>, Top.length >= 2, NEW step \in {"left", "right"},
         NEW g, g = [Top EXCEPT !.step = step],
         stack' = Append(GoneTo(step), Call(HalfFrom(g), HalfLength(g))),
         UNCHANGED <<get_table_vars, _i, encrypt_table, merge_vars, before>>,
         Waiting(encrypt_table, pass, g),
         Untouched(encrypt_table, pass, HalfFrom(g), HalfLength(g))
  PROVE  TCInv'
<1> DEFINE n == Len(stack)
           d == GoneTo(step)
           h == Call(HalfFrom(g), HalfLength(g))
<1>1. /\ at = "sort" /\ _i >= 1 /\ _i < Passes /\ n \in Nat \ {0} /\ n \in 1..n
      /\ Top \in Frames
  BY InPass
<1>2. stack \in Seq(Frames) /\ CallsNested(stack)
  BY DEF TCInv, TCTypeOK
<1>3. /\ d \in Seq(Frames) /\ Len(d) = n
      /\ \A j \in 1..n : j < n => d[j] = stack[j]
      /\ d[n] \in Frames /\ d[n].step = step
      /\ d[n].from = Top.from /\ d[n].length = Top.length
  <2>1. step \in {"enter", "left", "right", "merge"}
    OBVIOUS
  <2>2. QED
    BY <1>2, <2>1, LastGoesOn DEF GoneTo, Callers, Top
<1>4. g \in Frames /\ g.step = step /\ g.from = Top.from /\ g.length = Top.length
  BY <1>1 DEF Frames
<1>5. d[n] = g
  <2>1. Callers \in Seq(Frames) /\ Len(Callers) = n - 1
    BY <1>2, LastCall DEF Callers
  <2>2. Append(Callers, g)[n] = g
    BY <2>1, <1>1, <1>4
  <2>3. QED
    BY <2>2 DEF GoneTo
<1> HIDE DEF d, h
<1>6. d # <<>>
  BY <1>1, <1>3, EmptySeq
<1>7. CallsNested(d)
  BY <1>1, <1>2, <1>3, GoneOnNested DEF Top
<1>8. /\ Append(d, h) \in Seq(Frames) /\ Len(Append(d, h)) = n + 1
      /\ \A j \in 1..n : Append(d, h)[j] = d[j]
      /\ Append(d, h)[n + 1] = h
      /\ CallsNested(Append(d, h))
  <2>1. /\ g = d[Len(d)] /\ g.length >= 2 /\ g.step \in {"left", "right"}
        /\ d \in Seq(Frames) /\ d # <<>> /\ CallsNested(d)
    BY <1>3, <1>4, <1>5, <1>6, <1>7
  <2>2. /\ Append(d, h) \in Seq(Frames) /\ Len(Append(d, h)) = Len(d) + 1
        /\ \A j \in 1..Len(d) : Append(d, h)[j] = d[j]
        /\ Append(d, h)[Len(d) + 1] = h
        /\ CallsNested(Append(d, h))
    BY <2>1, CalledNested DEF h
  <2>3. QED
    BY <2>2, <1>3
<1>9. /\ stack' = Append(d, h)
      /\ UNCHANGED <<at, _a, decrypt_table, inverted, calls>>
      /\ UNCHANGED <<_i, encrypt_table, ltmp, rtmp, before>>
  BY DEF d, h, get_table_vars, merge_vars
<1>10. pass' = pass
  BY <1>9, PassStays
<1>11. stack' # <<>> /\ Top' = h
  <2>1. Len(stack') = n + 1 /\ stack'[n + 1] = h
    BY <1>8, <1>9
  <2>2. QED
    BY <2>1, <1>1, EmptySeq DEF Top
<1>12. SegmentsSorted'
  <2>1. ASSUME NEW j \in 1..(n + 1)
        PROVE  Waiting(encrypt_table, pass, stack'[j])
    <3>1. CASE j = n + 1
      <4>1. stack'[j].step = "enter"
        BY <3>1, <1>8, <1>9 DEF h, Call
      <4>2. QED
        BY <4>1 DEF Waiting
    <3>2. CASE j = n
      <4>1. stack'[j] = g
        BY <3>2, <1>1, <1>5, <1>8, <1>9
      <4>2. QED
        BY <4>1
    <3>3. CASE j # n + 1 /\ j # n
      <4>1. j \in 1..n /\ j < n
        BY <3>3, <1>1
      <4>2. stack'[j] = stack[j]
        BY <4>1, <1>3, <1>8, <1>9
      <4>3. Waiting(encrypt_table, pass, stack[j])
        BY <4>1 DEF TCInv, SegmentsSorted
      <4>4. QED
        BY <4>2, <4>3
    <3>4. QED
      BY <3>1, <3>2, <3>3
  <2>2. Working(encrypt_table, pass, h, ltmp, rtmp)
    <3>1. h.step = "enter" /\ h.from = HalfFrom(g) /\ h.length = HalfLength(g)
      BY DEF h, Call
    <3>2. QED
      BY <3>1 DEF Working
  <2>3. Working(encrypt_table', pass', Top', ltmp', rtmp')
    BY <2>2, <1>9, <1>10, <1>11
  <2>4. Len(stack') = n + 1
    BY <1>8, <1>9
  <2>5. \A j \in 1..Len(stack') : Waiting(encrypt_table', pass', stack'[j])
    BY <2>1, <2>4, <1>9, <1>10
  <2>6. QED
    BY <2>3, <2>5 DEF SegmentsSorted
<1>13. TCTypeOK'
  BY <1>8, <1>9 DEF TCInv, TCTypeOK
<1>14. TablesPermuted'
  BY <1>1, <1>9, <1>11 DEF TCInv, TablesPermuted
<1>15. TablesInverted'
  BY <1>1, <1>9 DEF TablesInverted
<1>16. QED
  BY <1>8, <1>9, <1>12, <1>13, <1>14, <1>15 DEF TCInv

LEMMA SortLeftKeeps == ASSUME TCInv, SortLeft PROVE TCInv'
<1>1. stack # <<>> /\ Top.step = "enter" /\ Top.length > 1
  BY DEF SortLeft, AtStep
<1>2. Top \in Frames /\ Top.from \in Nat /\ Top.length \in Nat
  BY <1>1, InPass
<1> DEFINE g == [Top EXCEPT !.step = "left"]
<1>3. g.step = "left" /\ g.from = Top.from /\ g.length = Top.length
  BY <1>2 DEF Frames
<1> HIDE DEF g
<1>4. Middle(g) = Middle(Top) /\ LLength(g) = LLength(Top)
  BY <1>3 DEF Middle, LLength
<1>5. HalfFrom(g) = Top.from /\ HalfLength(g) = LLength(Top)
  BY <1>3, <1>4 DEF HalfFrom, HalfLength
<1>6. /\ Middle(Top) \in Nat /\ LLength(Top) \in Nat
      /\ LLength(Top) + Middle(Top) = Top.length /\ Top.length >= 2
  BY <1>1, <1>2, Halves
<1>7. Untouched(encrypt_table, pass, Top.from, Top.length)
  BY <1>1 DEF TCInv, SegmentsSorted, Working
<1>8. Untouched(encrypt_table, pass, Top.from, LLength(Top))
  BY <1>2, <1>6, <1>7, UntouchedParts
<1>9. Untouched(encrypt_table, pass, Top.from + LLength(Top), Middle(Top))
  BY <1>2, <1>6, <1>7, UntouchedParts
<1>10. Waiting(encrypt_table, pass, g)
  BY <1>3, <1>4, <1>9 DEF Waiting
<1>11. /\ stack' = Append(GoneTo("left"), Call(HalfFrom(g), HalfLength(g)))
       /\ UNCHANGED <<get_table_vars, _i, encrypt_table, merge_vars, before>>
  BY <1>5 DEF SortLeft
<1>12. QED
  BY <1>1, <1>5, <1>6, <1>8, <1>10, <1>11, CallKeeps DEF g

LEMMA SortRightKeeps == ASSUME TCInv, SortRight PROVE TCInv'
<1>1. stack # <<>> /\ Top.step = "left"
  BY DEF SortRight, AtStep
<1>2. Top \in Frames /\ Top.from \in Nat /\ Top.length \in Nat /\ Top.length >= 2
  BY <1>1, InPass DEF CallOK
<1> DEFINE g == [Top EXCEPT !.step = "right"]
<1>3. g.step = "right" /\ g.from = Top.from /\ g.length = Top.length
  BY <1>2 DEF Frames
<1> HIDE DEF g
<1>4. Middle(g) = Middle(Top) /\ LLength(g) = LLength(Top)
  BY <1>3 DEF Middle, LLength
<1>5. HalfFrom(g) = Top.from + LLength(Top) /\ HalfLength(g) = Middle(Top)
  BY <1>3, <1>4 DEF HalfFrom, HalfLength
<1>6. Done(encrypt_table, pass, Top.from, LLength(Top))
  BY <1>1 DEF TCInv, SegmentsSorted, Working
<1>7. Untouched(encrypt_table, pass, Top.from + LLength(Top), Middle(Top))
  <2>1. Len(stack) \in 1..Len(stack)
    BY <1>1, InPass
  <2>2. Waiting(encrypt_table, pass, Top)
    BY <2>1 DEF TCInv, SegmentsSorted, Top
  <2>3. QED
    BY <1>1, <2>2 DEF Waiting
<1>8. Waiting(encrypt_table, pass, g)
  BY <1>3, <1>4, <1>6 DEF Waiting
<1>9. /\ stack' = Append(GoneTo("right"), Call(HalfFrom(g), HalfLength(g)))
      /\ UNCHANGED <<get_table_vars, _i, encrypt_table, merge_vars, before>>
  BY <1>5 DEF SortRight
<1>10. QED
  BY <1>1, <1>2, <1>5, <1>7, <1>8, <1>9, CallKeeps DEF g

LEMMA CopyHalvesKeeps == ASSUME TCInv, CopyHalves PROVE TCInv'
<1> DEFINE n == Len(stack)
           right == Top.from + LLength(Top)
           d == GoneTo("merge")
<1>1. /\ stack # <<>> /\ Top.step = "right" /\ stack' = d
      /\ ltmp' = SubSeq(encrypt_table, Top.from + 1, right)
      /\ rtmp' = SubSeq(encrypt_table, right + 1, Top.from + Top.length)
      /\ UNCHANGED <<at, _a, decrypt_table, inverted, calls>>
      /\ UNCHANGED <<_i, encrypt_table, before>>
  BY DEF CopyHalves, AtStep, get_table_vars
<1>2. /\ at = "sort" /\ _i >= 1 /\ _i < Passes /\ n \in Nat \ {0} /\ n \in 1..n
      /\ Top \in Frames /\ CallOK(Top) /\ PassOK(pass) /\ Size \in Nat
      /\ Top.from \in Nat /\ Top.length \in Nat /\ Top.from + Top.length <= Size
  BY <1>1, InPass
<1>3. stack \in Seq(Frames) /\ CallsNested(stack) /\ encrypt_table \in Tables
  BY DEF TCInv, TCTypeOK
<1>4. Top.length >= 2
  BY <1>1, <1>2 DEF CallOK
<1>5. /\ Middle(Top) \in Nat /\ LLength(Top) \in Nat
      /\ LLength(Top) + Middle(Top) = Top.length
  BY <1>2, <1>4, Halves
<1>6. /\ d \in Seq(Frames) /\ Len(d) = n
      /\ \A j \in 1..n : j < n => d[j] = stack[j]
      /\ d[n] \in Frames /\ d[n].step = "merge"
      /\ d[n].from = Top.from /\ d[n].length = Top.length
  BY <1>1, <1>3, LastGoesOn DEF GoneTo, Callers, Top
<1> HIDE DEF d
<1>7. CallsNested(d)
  BY <1>1, <1>3, <1>4, <1>6, GoneOnNested DEF Top
<1>8. d # <<>> /\ Top' = d[n]
  BY <1>1, <1>2, <1>6, EmptySeq DEF Top
<1>9. Done(encrypt_table, pass, Top.from, LLength(Top))
  BY <1>1, <1>2 DEF TCInv, SegmentsSorted, Waiting, Top
<1>10. Done(encrypt_table, pass, right, Middle(Top))
  BY <1>1 DEF TCInv, SegmentsSorted, Working
<1>11. /\ ltmp' \in Seq(Bytes) /\ Len(ltmp') = LLength(Top)
       /\ Ascending(ltmp', pass) /\ From(ltmp', pass, Top.from, LLength(Top))
       /\ AllOf(ltmp', pass, Top.from, LLength(Top))
  <2> DEFINE lo == Top.from
             k == LLength(Top)
             s == SubSeq(encrypt_table, lo + 1, lo + k)
  <2>1. lo \in Nat /\ k \in Nat /\ lo + k <= Size
    BY <1>2, <1>5
  <2>2. Done(encrypt_table, pass, lo, k)
    BY <1>9
  <2>3. ltmp' = s
    BY <1>1
  <2> HIDE DEF lo, k
  <2>4. /\ s \in Seq(Bytes) /\ Len(s) = k
        /\ Ascending(s, pass) /\ From(s, pass, lo, k)
        /\ AllOf(s, pass, lo, k)
    <3>1. encrypt_table \in Tables
      BY <1>3
    <3>2. s \in Seq(Bytes) /\ Len(s) = k /\ \A a \in 1..k : s[a] = encrypt_table[lo + a]
      BY <2>1, <3>1, CopyOf
    <3> HIDE DEF s
    <3>3. Ascending(s, pass)
      BY <2>1, <2>2, <3>2, CopiesSorted
    <3>4. From(s, pass, lo, k)
      BY <2>1, <2>2, <3>2, CopiesSorted
    <3>5. AllOf(s, pass, lo, k)
      BY <2>1, <2>2, <3>2, CopiesSorted
    <3>6. QED
      BY <3>2, <3>3, <3>4, <3>5
  <2> HIDE DEF s
  <2>5. QED
    BY <2>3, <2>4 DEF lo, k
<1>12. /\ rtmp' \in Seq(Bytes) /\ Len(rtmp') = Middle(Top)
       /\ Ascending(rtmp', pass) /\ From(rtmp', pass, right, Middle(Top))
       /\ AllOf(rtmp', pass, right, Middle(Top))
  <2> DEFINE lo == right
             k == Middle(Top)
             s == SubSeq(encrypt_table, lo + 1, lo + k)
  <2>1. /\ lo \in Nat /\ k \in Nat /\ lo + k <= Size
        /\ lo + k = Top.from + Top.length
    BY <1>2, <1>5
  <2>2. Done(encrypt_table, pass, lo, k)
    BY <1>10
  <2>3. rtmp' = SubSeq(encrypt_table, lo + 1, Top.from + Top.length)
    BY <1>1
  <2> HIDE DEF lo, k
  <2>4. /\ s \in Seq(Bytes) /\ Len(s) = k
        /\ Ascending(s, pass) /\ From(s, pass, lo, k)
        /\ AllOf(s, pass, lo, k)
    <3>1. encrypt_table \in Tables
      BY <1>3
    <3>2. s \in Seq(Bytes) /\ Len(s) = k /\ \A a \in 1..k : s[a] = encrypt_table[lo + a]
      BY <2>1, <3>1, CopyOf
    <3> HIDE DEF s
    <3>3. Ascending(s, pass)
      BY <2>1, <2>2, <3>2, CopiesSorted
    <3>4. From(s, pass, lo, k)
      BY <2>1, <2>2, <3>2, CopiesSorted
    <3>5. AllOf(s, pass, lo, k)
      BY <2>1, <2>2, <3>2, CopiesSorted
    <3>6. QED
      BY <3>2, <3>3, <3>4, <3>5
  <2>5. rtmp' = s
    BY <2>1, <2>3
  <2> HIDE DEF s
  <2>6. QED
    BY <2>4, <2>5 DEF lo, k
<1>13. Merging(encrypt_table, pass, Top.from, LLength(Top) + Middle(Top), ltmp', rtmp', 0)
  BY <1>2, <1>5, <1>11, <1>12, MergeStarts
<1>14. pass' = pass
  BY <1>1, PassStays
<1>15. Working(encrypt_table, pass, d[n], ltmp', rtmp')
  <2>1. Middle(d[n]) = Middle(Top) /\ LLength(d[n]) = LLength(Top)
    BY <1>6 DEF Middle, LLength
  <2>2. d[n].length - Len(ltmp') - Len(rtmp') = 0
    BY <1>5, <1>6, <1>11, <1>12
  <2>3. Merging(encrypt_table, pass, d[n].from, d[n].length, ltmp', rtmp',
                d[n].length - Len(ltmp') - Len(rtmp'))
    BY <2>2, <1>5, <1>6, <1>13
  <2>4. QED
    BY <2>1, <2>3, <1>6, <1>11, <1>12 DEF Working
<1>16. SegmentsSorted'
  <2>1. \A j \in 1..n : Waiting(encrypt_table, pass, d[j])
    <3>1. \A j \in 1..n : j < n => Waiting(encrypt_table, pass, d[j])
      BY <1>6 DEF TCInv, SegmentsSorted
    <3>2. Waiting(encrypt_table, pass, d[n])
      BY <1>6 DEF Waiting
    <3>3. QED
      BY <3>1, <3>2, <1>2
  <2>2. \A j \in 1..Len(stack') : Waiting(encrypt_table', pass', stack'[j])
    BY <2>1, <1>1, <1>6, <1>14
  <2>3. Working(encrypt_table', pass', Top', ltmp', rtmp')
    BY <1>1, <1>8, <1>14, <1>15
  <2>4. QED
    BY <2>2, <2>3 DEF SegmentsSorted
<1>17. TCTypeOK'
  BY <1>1, <1>6, <1>11, <1>12 DEF TCInv, TCTypeOK
<1>18. TablesPermuted'
  BY <1>1, <1>2, <1>8 DEF TCInv, TablesPermuted
<1>19. TablesInverted'
  BY <1>1, <1>2 DEF TablesInverted
<1>20. QED
  BY <1>1, <1>7, <1>16, <1>17, <1>18, <1>19 DEF TCInv

(* A byte less than the first of a sorted temporary is less than all.      *)
LEMMA LessThanAll ==
  ASSUME NEW o, PassOK(o), NEW x \in Bytes, NEW r \in Seq(Bytes), r # <<>>, Ascending(r, o),
         <<x, r[1]>> \in o.order
  PROVE  \A a \in 1..Len(r) : <<x, r[a]>> \in o.order
<1>1. Len(r) \in Nat \ {0} /\ 1 \in 1..Len(r) /\ \A a \in 1..Len(r) : r[a] \in Bytes
  BY EmptySeq, ElementOfSeq
<1> TAKE a \in 1..Len(r)
<1>2. CASE a = 1
  BY <1>2
<1>3. CASE a # 1
  <2>1. <<r[1], r[a]>> \in o.order
    BY <1>1, <1>3 DEF Ascending
  <2>2. QED
    BY <2>1, <1>1 DEF PassOK
<1>4. QED
  BY <1>2, <1>3

LEMMA PutBackKeeps ==
  ASSUME TCInv, stack # <<>>, Top.step = "merge", NEW byte \in Bytes, PutBack(byte),
         Len(ltmp) \in Nat, Len(rtmp) \in Nat, Len(ltmp) + Len(rtmp) >= 1,
         Len(ltmp) + Len(rtmp) <= Top.length,
         ltmp' \in Seq(Bytes), rtmp' \in Seq(Bytes),
         Working(encrypt_table', pass, Top, ltmp', rtmp')
  PROVE  TCInv'
<1> DEFINE n == Len(stack)
<1>1. /\ at = "sort" /\ _i >= 1 /\ _i < Passes /\ n \in Nat \ {0} /\ n \in 1..n
      /\ Top \in Frames /\ PassOK(pass) /\ Size \in Nat
      /\ Top.from \in Nat /\ Top.length \in Nat /\ Top.from + Top.length <= Size
  BY InPass
<1>2. stack \in Seq(Frames) /\ CallsNested(stack) /\ encrypt_table \in Tables
  BY DEF TCInv, TCTypeOK
<1>3. /\ encrypt_table' = [encrypt_table EXCEPT ![Result] = byte]
      /\ UNCHANGED <<at, _a, decrypt_table, inverted, calls, _i, stack, before>>
  BY DEF PutBack, get_table_vars
<1>4. Result \in 1..Size /\ Within(Result, Top.from, Top.length)
  <2> DEFINE x == Len(ltmp)
             y == Len(rtmp)
             lo == Top.from
             m == Top.length
             q == lo + m - x - y + 1
  <2>1. /\ x \in Nat /\ y \in Nat /\ lo \in Nat /\ m \in Nat /\ Size \in Nat
        /\ x + y >= 1 /\ x + y <= m /\ lo + m <= Size
    BY <1>1
  <2> HIDE DEF x, y, lo, m
  <2>2. q \in 1..Size /\ lo < q /\ q <= lo + m
    BY <2>1
  <2>3. Result = q
    BY DEF Result, x, y, lo, m
  <2>4. QED
    BY <2>2, <2>3 DEF Within, lo, m
<1>5. encrypt_table' \in Tables
  BY <1>2, <1>3, <1>4 DEF Tables
<1>6. \A p \in 1..Size :
        ~Within(p, Top.from, Top.length) => encrypt_table'[p] = encrypt_table[p]
  BY <1>2, <1>3, <1>4 DEF Tables
<1>7. pass' = pass /\ Top' = Top
  <2>1. pass' = pass
    BY <1>3, PassStays
  <2>2. QED
    BY <2>1, <1>3 DEF Top
<1>8. ASSUME NEW j \in 1..n
      PROVE  Waiting(encrypt_table', pass, stack[j])
  <2>1. CASE j = n
    BY <2>1 DEF Waiting, Top
  <2>2. CASE j # n
    <3>1. j < n
      BY <2>2, <1>1
    <3>2. stack[j] \in Frames /\ CallOK(stack[j]) /\ Inside(Top, stack[j])
      <4>1. stack[j] \in Frames
        BY <1>2, ElementOfSeq
      <4>2. QED
        BY <4>1, <3>1, <1>1, <1>2 DEF CallsNested, Top
    <3>3. Waiting(encrypt_table, pass, stack[j])
      BY DEF TCInv, SegmentsSorted
    <3>4. QED
      BY <3>2, <3>3, <1>1, <1>6, CallerUndisturbed
  <2>3. QED
    BY <2>1, <2>2
<1>9. SegmentsSorted'
  <2>1. \A j \in 1..Len(stack') : Waiting(encrypt_table', pass', stack'[j])
    BY <1>3, <1>7, <1>8
  <2>2. Working(encrypt_table', pass', Top', ltmp', rtmp')
    BY <1>7
  <2>3. QED
    BY <2>1, <2>2 DEF SegmentsSorted
<1>10. TCTypeOK'
  BY <1>3, <1>5 DEF TCInv, TCTypeOK
<1>11. TablesPermuted'
  BY <1>1, <1>3 DEF TCInv, TablesPermuted
<1>12. TablesInverted'
  BY <1>1, <1>3 DEF TablesInverted
<1>13. CallsNested(stack)'
  BY <1>2, <1>3
<1>14. QED
  BY <1>9, <1>10, <1>11, <1>12, <1>13 DEF TCInv

(* What merge has in hand, and that the left bytes come first on a tie.    *)
LEMMA InMerge ==
  ASSUME TCInv, stack # <<>>, Top.step = "merge"
  PROVE  /\ ltmp \in Seq(Bytes) /\ rtmp \in Seq(Bytes)
         /\ Len(ltmp) \in Nat /\ Len(rtmp) \in Nat
         /\ Ascending(ltmp, pass) /\ From(ltmp, pass, Top.from, LLength(Top))
         /\ Ascending(rtmp, pass) /\ From(rtmp, pass, Top.from + LLength(Top), Middle(Top))
         /\ Merging(encrypt_table, pass, Top.from, Top.length, ltmp, rtmp,
                    Top.length - Len(ltmp) - Len(rtmp))
         /\ Len(ltmp) + Len(rtmp) <= Top.length
         /\ Middle(Top) \in Nat /\ LLength(Top) \in Nat
         /\ LLength(Top) + Middle(Top) = Top.length
         /\ Top.from \in Nat /\ Top.length \in Nat /\ Top.from + Top.length <= Size
         /\ encrypt_table \in Tables /\ PassOK(pass)
<1>1. ltmp \in Seq(Bytes) /\ rtmp \in Seq(Bytes) /\ encrypt_table \in Tables
  BY DEF TCInv, TCTypeOK
<1>2. Len(ltmp) \in Nat /\ Len(rtmp) \in Nat
  BY <1>1, LenProperties
<1>3. /\ Ascending(ltmp, pass) /\ From(ltmp, pass, Top.from, LLength(Top))
      /\ Ascending(rtmp, pass) /\ From(rtmp, pass, Top.from + LLength(Top), Middle(Top))
      /\ Merging(encrypt_table, pass, Top.from, Top.length, ltmp, rtmp,
                 Top.length - Len(ltmp) - Len(rtmp))
  BY DEF TCInv, SegmentsSorted, Working
<1>4. /\ Top \in Frames /\ CallOK(Top) /\ PassOK(pass)
      /\ Top.from \in Nat /\ Top.length \in Nat /\ Top.from + Top.length <= Size
  BY InPass
<1>5. /\ Middle(Top) \in Nat /\ LLength(Top) \in Nat
      /\ LLength(Top) + Middle(Top) = Top.length
  BY <1>4, Halves DEF CallOK
<1>6. Top.length - Len(ltmp) - Len(rtmp) \in Nat
  BY <1>3 DEF Merging
<1>7. Len(ltmp) + Len(rtmp) <= Top.length
  BY <1>2, <1>4, <1>6
<1>8. QED
  BY <1>1, <1>2, <1>3, <1>4, <1>5, <1>7

LEMMA TheLeastIsTaken ==
  ASSUME TCInv, stack # <<>>, Top.step = "merge", ltmp # <<>>, rtmp # <<>>
  PROVE  /\ LeftFirst(ltmp[1], rtmp[1]) => <<ltmp[1], rtmp[1]>> \in pass.order
         /\ ~LeftFirst(ltmp[1], rtmp[1]) => <<rtmp[1], ltmp[1]>> \in pass.order
<1> DEFINE l == ltmp[1]
           r == rtmp[1]
<1>1. 1 \in 1..Len(ltmp) /\ 1 \in 1..Len(rtmp) /\ l \in Bytes /\ r \in Bytes
  <2>1. ltmp \in Seq(Bytes) /\ rtmp \in Seq(Bytes)
    BY InMerge
  <2>2. 1 \in 1..Len(ltmp) /\ 1 \in 1..Len(rtmp)
    BY <2>1, EmptySeq
  <2>3. QED
    BY <2>1, <2>2, ElementOfSeq
<1>2. /\ Within(pass.places[l], Top.from, LLength(Top))
      /\ Within(pass.places[r], Top.from + LLength(Top), Middle(Top))
  BY <1>1, InMerge DEF From
<1>3. pass.places[l] \in Nat /\ pass.places[r] \in Nat
  <2>1. PassOK(pass) /\ Size \in Nat
    BY InPass
  <2>2. QED
    BY <2>1, <1>1 DEF PassOK
<1>4. pass.places[l] < pass.places[r]
  <2>1. Top.from \in Nat /\ LLength(Top) \in Nat
    BY InMerge
  <2>2. QED
    BY <2>1, <1>2, <1>3 DEF Within
<1> HIDE DEF l, r
<1>5. /\ LeftFirst(l, r) => <<l, r>> \in pass.order
      /\ ~LeftFirst(l, r) => <<r, l>> \in pass.order
  BY <1>1, <1>4, InPass, MergesByTheOrder
<1>6. QED
  BY <1>5 DEF l, r

(* A place in part of a segment is a place in the segment. *)
LEMMA WithinMore ==
  ASSUME NEW p \in Int, NEW x \in Int, NEW n \in Int, NEW y \in Int, NEW m \in Int,
         Within(p, y, m), x <= y, y + m <= x + n
  PROVE  Within(p, x, n)
BY DEF Within

LEMMA TakeLeftKeeps == ASSUME TCInv, TakeLeft PROVE TCInv'
<1> DEFINE w == Top.length - Len(ltmp) - Len(rtmp)
<1>1. /\ stack # <<>> /\ Top.step = "merge" /\ LeftNext
      /\ PutBack(Head(ltmp)) /\ ltmp' = Tail(ltmp) /\ rtmp' = rtmp
  BY DEF TakeLeft, AtStep
<1>2. /\ ltmp \in Seq(Bytes) /\ ltmp # <<>> /\ rtmp \in Seq(Bytes)
      /\ Len(rtmp) \in Nat /\ Len(ltmp) \in Nat \ {0} /\ 1 \in 1..Len(ltmp)
      /\ Head(ltmp) = ltmp[1] /\ ltmp[1] \in Bytes
  <2>1. ltmp \in Seq(Bytes) /\ rtmp \in Seq(Bytes) /\ ltmp # <<>> /\ Len(rtmp) \in Nat
    BY <1>1, InMerge DEF LeftNext
  <2>2. Len(ltmp) \in Nat \ {0} /\ 1 \in 1..Len(ltmp)
    BY <2>1, EmptySeq
  <2>3. Head(ltmp) = ltmp[1] /\ ltmp[1] \in Bytes
    BY <2>1, <2>2, ElementOfSeq
  <2>4. QED
    BY <2>1, <2>2, <2>3
<1>3. /\ Ascending(ltmp, pass) /\ From(ltmp, pass, Top.from, LLength(Top))
      /\ Ascending(rtmp, pass) /\ From(rtmp, pass, Top.from + LLength(Top), Middle(Top))
      /\ Merging(encrypt_table, pass, Top.from, Top.length, ltmp, rtmp, w)
      /\ Len(ltmp) + Len(rtmp) <= Top.length
      /\ Middle(Top) \in Nat /\ LLength(Top) \in Nat
      /\ LLength(Top) + Middle(Top) = Top.length
      /\ Top.from \in Nat /\ Top.length \in Nat /\ Top.from + Top.length <= Size
      /\ encrypt_table \in Tables /\ PassOK(pass)
  BY <1>1, InMerge
<1>4. \A a \in 1..Len(rtmp) : <<ltmp[1], rtmp[a]>> \in pass.order
  <2>1. CASE rtmp = <<>>
    BY <2>1, EmptySeq
  <2>2. CASE rtmp # <<>>
    <3>1. Head(rtmp) = rtmp[1]
      BY <2>2, <1>2, EmptySeq
    <3>2. LeftFirst(ltmp[1], rtmp[1])
      BY <2>2, <3>1, <1>1, <1>2 DEF LeftNext
    <3>3. <<ltmp[1], rtmp[1]>> \in pass.order
      BY <2>2, <3>2, <1>1, <1>2, TheLeastIsTaken
    <3>4. QED
      BY <2>2, <3>3, <1>2, <1>3, LessThanAll
  <2>3. QED
    BY <2>1, <2>2
<1>5. Within(pass.places[ltmp[1]], Top.from, Top.length)
  <2>1. Within(pass.places[ltmp[1]], Top.from, LLength(Top))
    BY <1>2, <1>3 DEF From
  <2>2. pass.places \in [Bytes -> 1..Size] /\ ltmp[1] \in Bytes
    BY <1>2, <1>3 DEF PassOK
  <2>3. pass.places[ltmp[1]] \in Int
    BY <2>2, TableAssumption
  <2>4. /\ Top.from \in Int /\ Top.length \in Int /\ LLength(Top) \in Int
        /\ Top.from + LLength(Top) <= Top.from + Top.length
        /\ Top.from <= Top.from
    <3>1. /\ Top.from \in Nat /\ Top.length \in Nat /\ LLength(Top) \in Nat
          /\ Middle(Top) \in Nat /\ LLength(Top) + Middle(Top) = Top.length
      BY <1>3
    <3>2. QED
      BY <3>1
  <2>5. QED
    BY <2>1, <2>3, <2>4, WithinMore
<1>6. /\ encrypt_table' = [encrypt_table EXCEPT ![Top.from + w + 1] = ltmp[1]]
  <2>1. Top.from + w + 1 = Result
    BY <1>2, <1>3 DEF Result
  <2>2. encrypt_table' = [encrypt_table EXCEPT ![Result] = Head(ltmp)]
    BY <1>1 DEF PutBack
  <2> HIDE DEF w
  <2>3. QED
    BY <2>1, <2>2, <1>2
<1>7. /\ ltmp' \in Seq(Bytes) /\ Len(ltmp') = Len(ltmp) - 1
      /\ Ascending(ltmp', pass) /\ From(ltmp', pass, Top.from, LLength(Top))
  BY <1>1, <1>2, <1>3, TailsKeep
<1>8. Merging(encrypt_table', pass, Top.from, Top.length, ltmp', rtmp', w + 1)
  <2> HIDE DEF w
  <2>1. Merging([encrypt_table EXCEPT ![Top.from + w + 1] = ltmp[1]], pass,
                Top.from, Top.length, Tail(ltmp), rtmp, w + 1)
    BY <1>2, <1>3, <1>4, <1>5, MergingContinues
  <2>2. QED
    BY <2>1, <1>1, <1>6
<1>9. w + 1 = Top.length - Len(ltmp') - Len(rtmp')
  BY <1>1, <1>2, <1>3, <1>7
<1>10. Working(encrypt_table', pass, Top, ltmp', rtmp')
  <2>1. Merging(encrypt_table', pass, Top.from, Top.length, ltmp', rtmp',
                Top.length - Len(ltmp') - Len(rtmp'))
    BY <1>8, <1>9
  <2>2. QED
    BY <2>1, <1>1, <1>3, <1>7 DEF Working
<1>11. Len(ltmp) + Len(rtmp) >= 1
  BY <1>2
<1>12. QED
  BY <1>1, <1>2, <1>3, <1>7, <1>10, <1>11, PutBackKeeps

LEMMA TakeRightKeeps == ASSUME TCInv, TakeRight PROVE TCInv'
<1> DEFINE w == Top.length - Len(ltmp) - Len(rtmp)
           mid == Top.from + LLength(Top)
<1>1. /\ stack # <<>> /\ Top.step = "merge" /\ rtmp # <<>> /\ ~LeftNext
      /\ PutBack(Head(rtmp)) /\ rtmp' = Tail(rtmp) /\ ltmp' = ltmp
  BY DEF TakeRight, AtStep
<1>2. /\ ltmp \in Seq(Bytes) /\ rtmp # <<>> /\ rtmp \in Seq(Bytes)
      /\ Len(ltmp) \in Nat /\ Len(rtmp) \in Nat \ {0} /\ 1 \in 1..Len(rtmp)
      /\ Head(rtmp) = rtmp[1] /\ rtmp[1] \in Bytes
  <2>1. ltmp \in Seq(Bytes) /\ rtmp \in Seq(Bytes) /\ rtmp # <<>> /\ Len(ltmp) \in Nat
    BY <1>1, InMerge
  <2>2. Len(rtmp) \in Nat \ {0} /\ 1 \in 1..Len(rtmp)
    BY <2>1, EmptySeq
  <2>3. Head(rtmp) = rtmp[1] /\ rtmp[1] \in Bytes
    BY <2>1, <2>2, ElementOfSeq
  <2>4. QED
    BY <2>1, <2>2, <2>3
<1>3. /\ Ascending(ltmp, pass) /\ From(ltmp, pass, Top.from, LLength(Top))
      /\ Ascending(rtmp, pass) /\ From(rtmp, pass, mid, Middle(Top))
      /\ Merging(encrypt_table, pass, Top.from, Top.length, ltmp, rtmp, w)
      /\ Len(ltmp) + Len(rtmp) <= Top.length
      /\ Middle(Top) \in Nat /\ LLength(Top) \in Nat
      /\ LLength(Top) + Middle(Top) = Top.length
      /\ Top.from \in Nat /\ Top.length \in Nat /\ Top.from + Top.length <= Size
      /\ encrypt_table \in Tables /\ PassOK(pass)
  BY <1>1, InMerge
<1>4. \A a \in 1..Len(ltmp) : <<rtmp[1], ltmp[a]>> \in pass.order
  <2>1. CASE ltmp = <<>>
    BY <2>1, EmptySeq
  <2>2. CASE ltmp # <<>>
    <3>1. Head(ltmp) = ltmp[1]
      BY <2>2, <1>2, EmptySeq
    <3>2. ~LeftFirst(ltmp[1], rtmp[1])
      BY <2>2, <3>1, <1>1, <1>2 DEF LeftNext
    <3>3. <<rtmp[1], ltmp[1]>> \in pass.order
      BY <2>2, <3>2, <1>1, <1>2, TheLeastIsTaken
    <3>4. QED
      BY <2>2, <3>3, <1>2, <1>3, LessThanAll
  <2>3. QED
    BY <2>1, <2>2
<1>5. Within(pass.places[rtmp[1]], Top.from, Top.length)
  <2>1. Within(pass.places[rtmp[1]], mid, Middle(Top))
    BY <1>2, <1>3 DEF From
  <2>2. pass.places \in [Bytes -> 1..Size] /\ rtmp[1] \in Bytes
    BY <1>2, <1>3 DEF PassOK
  <2>3. pass.places[rtmp[1]] \in Int
    BY <2>2, TableAssumption
  <2>4. /\ Top.from \in Int /\ Top.length \in Int /\ Middle(Top) \in Int
        /\ mid \in Int /\ Top.from <= mid
        /\ mid + Middle(Top) <= Top.from + Top.length
    <3>1. /\ Top.from \in Nat /\ Top.length \in Nat /\ LLength(Top) \in Nat
          /\ Middle(Top) \in Nat /\ LLength(Top) + Middle(Top) = Top.length
      BY <1>3
    <3>2. QED
      BY <3>1
  <2>5. QED
    BY <2>1, <2>3, <2>4, WithinMore
<1>6. /\ encrypt_table' = [encrypt_table EXCEPT ![Top.from + w + 1] = rtmp[1]]
  <2>1. Top.from + w + 1 = Result
    BY <1>2, <1>3 DEF Result
  <2>2. encrypt_table' = [encrypt_table EXCEPT ![Result] = Head(rtmp)]
    BY <1>1 DEF PutBack
  <2> HIDE DEF w
  <2>3. QED
    BY <2>1, <2>2, <1>2
<1>7. /\ rtmp' \in Seq(Bytes) /\ Len(rtmp') = Len(rtmp) - 1
      /\ Ascending(rtmp', pass) /\ From(rtmp', pass, mid, Middle(Top))
  <2> HIDE DEF mid
  <2>1. QED
    BY <1>1, <1>2, <1>3, TailsKeep
<1>8. Merging(encrypt_table', pass, Top.from, Top.length, ltmp', rtmp', w + 1)
  <2> HIDE DEF w
  <2>1. Merging(encrypt_table, pass, Top.from, Top.length, rtmp, ltmp, w)
    BY <1>2, <1>3, MergingSwaps
  <2>2. Merging([encrypt_table EXCEPT ![Top.from + w + 1] = rtmp[1]], pass,
                Top.from, Top.length, Tail(rtmp), ltmp, w + 1)
    BY <2>1, <1>2, <1>3, <1>4, <1>5, MergingContinues
  <2>3. Tail(rtmp) \in Seq(Bytes)
    BY <1>1, <1>7
  <2>4. Merging([encrypt_table EXCEPT ![Top.from + w + 1] = rtmp[1]], pass,
                Top.from, Top.length, ltmp, Tail(rtmp), w + 1)
    BY <2>2, <2>3, <1>2, <1>3, MergingSwaps
  <2>5. QED
    BY <2>4, <1>1, <1>6
<1>9. w + 1 = Top.length - Len(ltmp') - Len(rtmp')
  BY <1>1, <1>2, <1>3, <1>7
<1>10. Working(encrypt_table', pass, Top, ltmp', rtmp')
  <2>1. Merging(encrypt_table', pass, Top.from, Top.length, ltmp', rtmp',
                Top.length - Len(ltmp') - Len(rtmp'))
    BY <1>8, <1>9
  <2>2. QED
    BY <2>1, <1>1, <1>3, <1>7 DEF Working
<1>11. Len(ltmp) + Len(rtmp) >= 1
  BY <1>2
<1>12. QED
  BY <1>1, <1>2, <1>3, <1>7, <1>10, <1>11, PutBackKeeps

-----------------------------------------------------------------------------
(* get_table around the passes.                                            *)

LEMMA GetTableKeeps == ASSUME TCInv, NEW hash \in Hashes, GetTable(hash) PROVE TCInv'
<1>1. /\ at = "out" /\ at' = "sort" /\ calls < MaxCalls /\ calls' = calls + 1
      /\ _a' = hash /\ _i' = 1 /\ encrypt_table' = [k \in 1..Size |-> k - 1]
      /\ UNCHANGED <<decrypt_table, inverted, stack, ltmp, rtmp, before>>
  BY DEF GetTable, merge_vars
<1>2. stack = <<>>
  BY <1>1 DEF TCInv, TablesPermuted
<1>3. encrypt_table' \in Tables /\ Permutation(encrypt_table')
  <2>1. Size \in Nat /\ \A k \in 1..Size : k - 1 \in Bytes
    BY TableAssumption DEF Bytes
  <2>2. encrypt_table' \in Tables
    BY <1>1, <2>1 DEF Tables
  <2>3. OneToOne(encrypt_table')
    BY <1>1, <2>1 DEF OneToOne
  <2>4. ASSUME NEW b \in Bytes
        PROVE  \E k \in 1..Size : encrypt_table'[k] = b
    <3>1. b + 1 \in 1..Size /\ (b + 1) - 1 = b
      BY <2>1 DEF Bytes
    <3>2. encrypt_table'[b + 1] = b
      BY <3>1, <1>1
    <3>3. QED
      BY <3>1, <3>2
  <2>5. QED
    BY <2>2, <2>3, <2>4 DEF Permutation, HasAll
<1>4. TCTypeOK'
  <2>1. hash \in Nat /\ 1 \in 0..Passes /\ calls + 1 \in 0..MaxCalls
    BY <1>1, TableAssumption DEF TCInv, TCTypeOK
  <2>2. QED
    BY <2>1, <1>1, <1>3 DEF TCInv, TCTypeOK
<1>5. TablesPermuted'
  BY <1>1, <1>2, <1>3 DEF TablesPermuted
<1>6. CallsNested(stack)'
  BY <1>1 DEF TCInv
<1>7. SegmentsSorted'
  <2>1. stack' = <<>> /\ \A j \in 1..Len(stack') : FALSE
    BY <1>1, <1>2, EmptySeq
  <2>2. QED
    BY <2>1 DEF SegmentsSorted
<1>8. TablesInverted'
  BY <1>1 DEF TablesInverted
<1>9. QED
  BY <1>4, <1>5, <1>6, <1>7, <1>8 DEF TCInv

LEMMA StartPassKeeps == ASSUME TCInv, StartPass PROVE TCInv'
<1> DEFINE h == Call(0, Size)
<1>1. /\ at = "sort" /\ stack = <<>> /\ _i < Passes /\ stack' = <<h>>
      /\ before' = encrypt_table
      /\ UNCHANGED <<at, _a, decrypt_table, inverted, calls>>
      /\ UNCHANGED <<_i, encrypt_table, ltmp, rtmp>>
  BY DEF StartPass, get_table_vars, merge_vars
<1>2. /\ h \in Frames /\ h.from = 0 /\ h.length = Size /\ h.step = "enter"
      /\ CallOK(h)
  BY TableAssumption DEF Call, Frames, CallOK
<1> HIDE DEF h
<1>3. <<h>> \in Seq(Frames) /\ Len(<<h>>) = 1 /\ <<h>>[1] = h /\ <<h>> # <<>>
  BY <1>2
<1>4. Permutation(encrypt_table) /\ _i >= 1 /\ encrypt_table \in Tables
  BY <1>1 DEF TCInv, TCTypeOK, TablesPermuted
<1>5. TCTypeOK'
  BY <1>1, <1>3 DEF TCInv, TCTypeOK
<1>6. TablesPermuted'
  BY <1>1, <1>3, <1>4 DEF TablesPermuted
<1>7. CallsNested(<<h>>)
  <2>1. \A j \in 1..Len(<<h>>) : j = 1
    BY <1>3
  <2>2. QED
    BY <2>1, <1>2, <1>3 DEF CallsNested
<1>8. SegmentsSorted'
  <2>1. Top' = h
    BY <1>1, <1>3 DEF Top
  <2>2. pass'.before = before'
    BY DEF pass
  <2>3. Untouched(encrypt_table', pass', h.from, h.length)
    BY <1>1, <2>2 DEF Untouched
  <2>4. Working(encrypt_table', pass', h, ltmp', rtmp')
    BY <2>3, <1>2 DEF Working
  <2>5. \A j \in 1..Len(stack') : stack'[j] = h
    BY <1>1, <1>3
  <2>6. Waiting(encrypt_table', pass', h)
    BY <1>2 DEF Waiting
  <2>7. QED
    BY <2>1, <2>4, <2>5, <2>6 DEF SegmentsSorted
<1>9. TablesInverted'
  BY <1>1 DEF TablesInverted
<1>10. QED
  BY <1>1, <1>5, <1>6, <1>7, <1>8, <1>9 DEF TCInv

LEMMA SortedKeeps == ASSUME TCInv, Sorted PROVE TCInv'
<1>1. /\ at = "sort" /\ stack = <<>> /\ at' = "invert" /\ inverted' = 0
      /\ UNCHANGED <<_a, _i, encrypt_table, decrypt_table, calls, stack, ltmp, rtmp, before>>
  BY DEF Sorted, merge_vars
<1>2. TCTypeOK'
  BY <1>1, TableAssumption DEF TCInv, TCTypeOK, Bytes
<1>3. TablesPermuted'
  BY <1>1 DEF TCInv, TablesPermuted
<1>4. CallsNested(stack)'
  BY <1>1 DEF TCInv
<1>5. SegmentsSorted'
  <2>1. stack' = <<>> /\ \A j \in 1..Len(stack') : FALSE
    BY <1>1, EmptySeq
  <2>2. QED
    BY <2>1 DEF SegmentsSorted
<1>6. TablesInverted'
  BY <1>1 DEF TablesInverted, InvertedSoFar
<1>7. QED
  BY <1>2, <1>3, <1>4, <1>5, <1>6 DEF TCInv

LEMMA InvertKeeps == ASSUME TCInv, Invert PROVE TCInv'
<1> DEFINE k == inverted
           c == encrypt_table[k + 1]
<1>1. /\ at = "invert" /\ decrypt_table' = [decrypt_table EXCEPT ![c + 1] = k]
      /\ UNCHANGED <<_a, _i, encrypt_table, calls, stack, ltmp, rtmp, before>>
      /\ \/ k < Size - 1 /\ inverted' = k + 1 /\ at' = at
         \/ ~(k < Size - 1) /\ at' = "out" /\ inverted' = k
  BY DEF Invert, LastByte, merge_vars
<1>2. stack = <<>>
  BY <1>1 DEF TCInv, TablesPermuted
<1>3. /\ Size \in Nat /\ k \in 0..(Size - 1) /\ k + 1 \in 1..Size
      /\ encrypt_table \in Tables /\ decrypt_table \in Tables
      /\ Permutation(encrypt_table) /\ InvertedSoFar(k)
  BY <1>1, <1>2, TableAssumption
     DEF TCInv, TCTypeOK, TablesPermuted, TablesInverted, Bytes
<1>4. c \in 0..(Size - 1) /\ c + 1 \in 1..Size
  BY <1>3 DEF Tables, Bytes
<1>5. decrypt_table' \in Tables
  BY <1>1, <1>3, <1>4 DEF Tables, Bytes
<1>6. ASSUME NEW j \in 0..k
      PROVE  decrypt_table'[encrypt_table'[j + 1] + 1] = j
  <2> DEFINE e == encrypt_table[j + 1]
  <2>1. j + 1 \in 1..Size /\ j \in Int /\ k \in Int
    BY <1>3
  <2>2. e \in 0..(Size - 1) /\ e + 1 \in 1..Size
    <3>1. encrypt_table \in [1..Size -> 0..(Size - 1)] /\ Size \in Nat
      BY <1>3 DEF Tables, Bytes
    <3>2. e \in 0..(Size - 1)
      BY <2>1, <3>1
    <3> HIDE DEF e
    <3>3. QED
      BY <3>1, <3>2
  <2>3. CASE j = k
    <3>1. e = c
      BY <2>3
    <3> HIDE DEF e, c
    <3>2. [decrypt_table EXCEPT ![c + 1] = k][c + 1] = k
      BY <1>3, <1>4 DEF Tables
    <3>3. encrypt_table'[j + 1] = e
      BY <1>1 DEF e
    <3>4. QED
      BY <2>3, <3>1, <3>2, <3>3, <1>1
  <2>4. CASE j # k
    <3>1. e # c
      <4>1. j + 1 # k + 1
        BY <2>1, <2>4
      <4>2. QED
        BY <4>1, <2>1, <1>3 DEF Permutation, OneToOne
    <3>2. j \in 0..(k - 1)
      BY <2>1, <2>4
    <3>3. decrypt_table[e + 1] = j
      BY <3>2, <1>3 DEF InvertedSoFar
    <3>4. e + 1 # c + 1
      BY <3>1, <2>2, <1>4
    <3>5. decrypt_table'[e + 1] = decrypt_table[e + 1]
      BY <3>4, <2>2, <1>1, <1>3, <1>4 DEF Tables
    <3>6. QED
      BY <3>3, <3>5, <1>1
  <2>5. QED
    BY <2>3, <2>4
<1>7. TCTypeOK'
  <2>1. inverted' \in Bytes /\ at' \in {"out", "sort", "invert"}
    BY <1>1, <1>3 DEF Bytes
  <2>2. QED
    BY <2>1, <1>1, <1>5 DEF TCInv, TCTypeOK
<1>8. TablesPermuted'
  BY <1>1, <1>2, <1>3 DEF TCInv, TablesPermuted
<1>9. CallsNested(stack)'
  BY <1>1 DEF TCInv
<1>10. SegmentsSorted'
  <2>1. stack' = <<>> /\ \A j \in 1..Len(stack') : FALSE
    BY <1>1, <1>2, EmptySeq
  <2>2. QED
    BY <2>1 DEF SegmentsSorted
<1>11. TablesInverted'
  <2>1. CASE k < Size - 1
    <3>1. inverted' = k + 1 /\ at' = "invert"
      BY <2>1, <1>1
    <3>2. \A j \in 0..((k + 1) - 1) : j \in 0..k
      BY <1>3
    <3>3. QED
      BY <3>1, <3>2, <1>6 DEF TablesInverted, InvertedSoFar
  <2>2. CASE ~(k < Size - 1)
    <3>1. at' = "out"
      BY <2>2, <1>1
    <3>2. \A j \in 0..(Size - 1) : j \in 0..k
      BY <2>2, <1>3
    <3>3. QED
      BY <3>1, <3>2, <1>6 DEF TablesInverted, InvertedSoFar
  <2>3. QED
    BY <2>1, <2>2
<1>12. QED
  BY <1>7, <1>8, <1>9, <1>10, <1>11 DEF TCInv

-----------------------------------------------------------------------------
LEMMA TCInvHolds == TCSpec => []TCInv
<1>1. TCInit => TCInv
  <2> SUFFICES ASSUME TCInit
               PROVE  TCInv
    OBVIOUS
  <2>1. /\ at = "out" /\ _a = 0 /\ _i = 0 /\ inverted = 0 /\ calls = 0
        /\ encrypt_table = [k \in 1..Size |-> 0] /\ decrypt_table = encrypt_table
        /\ stack = <<>> /\ ltmp = <<>> /\ rtmp = <<>> /\ before = encrypt_table
    BY DEF TCInit
  <2>2. Size \in Nat \ {0} /\ Passes \in Nat /\ MaxCalls \in Nat
    BY TableAssumption
  <2>3. encrypt_table \in Tables /\ inverted \in Bytes
    BY <2>1, <2>2 DEF Tables, Bytes
  <2>4. TCTypeOK
    BY <2>1, <2>2, <2>3, EmptySeq DEF TCTypeOK
  <2>5. TablesPermuted /\ TablesInverted
    BY <2>1 DEF TablesPermuted, TablesInverted
  <2>6. \A j \in 1..Len(stack) : FALSE
    BY <2>1, EmptySeq
  <2>7. CallsNested(stack) /\ SegmentsSorted
    BY <2>1, <2>6 DEF CallsNested, SegmentsSorted
  <2>8. QED
    BY <2>4, <2>5, <2>7 DEF TCInv
<1>2. TCInv /\ [TCNext]_tcVars => TCInv'
  <2> SUFFICES ASSUME TCInv, [TCNext]_tcVars
               PROVE  TCInv'
    OBVIOUS
  <2>1. CASE \E hash \in Hashes : GetTable(hash)
    BY <2>1, GetTableKeeps
  <2>2. CASE StartPass
    BY <2>2, StartPassKeeps
  <2>3. CASE MergeSort
    BY <2>3, ReturnsSorted, ReturnKeeps, SortLeftKeeps, SortRightKeeps,
       CopyHalvesKeeps, TakeLeftKeeps, TakeRightKeeps DEF MergeSort
  <2>4. CASE Sorted
    BY <2>4, SortedKeeps
  <2>5. CASE Invert
    BY <2>5, InvertKeeps
  <2>6. CASE UNCHANGED tcVars
    <3>1. UNCHANGED <<at, _a, decrypt_table, inverted, calls, _i, encrypt_table,
                      stack, ltmp, rtmp, before>>
      BY <2>6 DEF tcVars, get_table_vars, merge_vars
    <3>2. pass' = pass /\ Top' = Top
      BY <3>1, PassStays DEF Top
    <3>3. TCTypeOK' /\ TablesPermuted'
      BY <3>1 DEF TCInv, TCTypeOK, TablesPermuted
    <3>4. CallsNested(stack)'
      BY <3>1 DEF TCInv
    <3>5. SegmentsSorted'
      BY <3>1, <3>2 DEF TCInv, SegmentsSorted
    <3>6. TablesInverted'
      BY <3>1 DEF TCInv, TablesInverted, InvertedSoFar
    <3>7. QED
      BY <3>3, <3>4, <3>5, <3>6 DEF TCInv
  <2>7. QED
    BY <2>1, <2>2, <2>3, <2>4, <2>5, <2>6 DEF TCNext
<1>3. QED
  BY <1>1, <1>2, PTL DEF TCSpec

(* The tables are of bytes, and with them everything the sort holds, its   *)
(* calls and its two temporary copies included.                             *)
THEOREM TableTypes == TCSpec => []TCTypeOK
<1>1. TCInv => TCTypeOK
  BY DEF TCInv
<1>2. QED
  BY <1>1, TCInvHolds, PTL

(* merge never writes past its own part of the table, and has room in it   *)
(* for everything that is left in ltmp and rtmp: what was taken out of the  *)
(* copies and what *result has passed over are always as many.              *)
StaysInside ==
  stack # <<>> /\ Top.step = "merge" =>
    /\ Top.from + Top.length <= Size
    /\ Len(ltmp) + Len(rtmp) <= Top.length
    /\ Len(ltmp) + Len(rtmp) > 0 => Result \in (Top.from + 1)..(Top.from + Top.length)

THEOREM MergeStaysInside == TCSpec => []StaysInside
<1>1. ASSUME TCInv, stack # <<>>, Top.step = "merge"
      PROVE  /\ Top.from + Top.length <= Size
             /\ Len(ltmp) + Len(rtmp) <= Top.length
             /\ Len(ltmp) + Len(rtmp) > 0 =>
                  Result \in (Top.from + 1)..(Top.from + Top.length)
  <2> DEFINE k == Len(ltmp)
             l == Len(rtmp)
             x == Top.from
             n == Top.length
  <2>1. /\ k \in Nat /\ l \in Nat /\ x \in Nat /\ n \in Nat
        /\ k + l <= n /\ x + n <= Size
    BY <1>1, InMerge
  <2>2. Result = x + n - k - l + 1
    BY DEF Result
  <2> HIDE DEF k, l, x, n
  <2>3. k + l > 0 => Result \in (x + 1)..(x + n)
    BY <2>1, <2>2
  <2>4. QED
    BY <2>1, <2>3 DEF k, l, x, n
<1>2. TCInv => StaysInside
  BY <1>1 DEF StaysInside
<1>3. QED
  BY <1>2, TCInvHolds, PTL

(* TablesInverse: outside get_table the two tables undo each other, for     *)
(* every number of bytes and of passes, every hash, and whatever table was  *)
(* there before (get_table's last loop, table_encrypt, table_decrypt).      *)
THEOREM TablesAreInverse == TCSpec => []TablesInverse
<1>1. TCInv => TablesInverse
  <2> SUFFICES ASSUME TCInv, at = "out", calls > 0, NEW b \in Bytes
               PROVE  Decrypted(Encrypted(b)) = b /\ Encrypted(Decrypted(b)) = b
    BY DEF TablesInverse
  <2>1. InvertedSoFar(Size)
    BY DEF TCInv, TablesInverted
  <2>2. Permutation(encrypt_table) /\ encrypt_table \in Tables
    BY DEF TCInv, TCTypeOK, TablesPermuted
  <2>3. Size \in Nat
    BY TableAssumption
  <2>4. ASSUME NEW c \in Bytes
        PROVE  Decrypted(Encrypted(c)) = c
    BY <2>1, <2>4 DEF InvertedSoFar, Decrypted, Encrypted, Bytes
  <2>5. PICK k \in 1..Size : encrypt_table[k] = b
    BY <2>2 DEF Permutation, HasAll
  <2>6. k - 1 \in Bytes /\ (k - 1) + 1 = k
    BY <2>3 DEF Bytes
  <2>7. Encrypted(k - 1) = b
    BY <2>5, <2>6 DEF Encrypted
  <2>8. Decrypted(b) = k - 1
    BY <2>4, <2>6, <2>7
  <2>9. QED
    BY <2>4, <2>7, <2>8
<1>2. QED
  BY <1>1, TCInvHolds, PTL

(* SortsStably: every pass leaves a permutation in the order of the         *)
(* remainders, ties as they were, whatever its keys are (merge_sort, merge, *)
(* random_compare).                                                         *)
THEOREM PassesSortStably == TCSpec => SortsStably
<1> DEFINE Ordered ==
      /\ \A b \in Bytes : \E k \in 1..Size : encrypt_table'[k] = b
      /\ \A k, l \in 1..Size :
           k < l => Precedes(encrypt_table'[k], encrypt_table'[l])
<1>1. ASSUME TCInv, stack # <<>>, Done(encrypt_table, pass, Top.from, Top.length),
             Return, _i' = _i + 1
      PROVE  Ordered
  <2>1. /\ Len(stack) \in Nat \ {0} /\ Top \in Frames /\ PassOK(pass)
        /\ _i \in Nat /\ Size \in Nat /\ Permutation(before)
    BY <1>1, InPass
  <2>2. Callers = <<>>
    BY <1>1, <2>1 DEF Return
  <2>3. Len(stack) = 1
    <3>1. Len(Callers) = Len(stack) - 1
      BY <1>1, LastCall DEF TCInv, TCTypeOK, Callers
    <3>2. QED
      BY <3>1, <2>1, <2>2, EmptySeq
  <2>4. Top.from = 0 /\ Top.length = Size
    BY <1>1, <2>3 DEF TCInv, CallsNested, Top
  <2>5. Done(encrypt_table, pass, 0, Size) /\ encrypt_table \in Tables
    BY <1>1, <2>4 DEF TCInv, TCTypeOK
  <2>6. encrypt_table' = encrypt_table
    BY <1>1 DEF Return
  <2>7. Permutation(encrypt_table)
    BY <2>1, <2>5, DonePermutes
  <2>8. ASSUME NEW k \in 1..Size, NEW l \in 1..Size, k < l
        PROVE  Precedes(encrypt_table[k], encrypt_table[l])
    <3> DEFINE b == encrypt_table[k]
               c == encrypt_table[l]
    <3>1. Within(k, 0, Size) /\ Within(l, 0, Size)
      BY <2>1 DEF Within
    <3>2. <<b, c>> \in pass.order
      BY <3>1, <2>5, <2>8 DEF Done, InOrder
    <3>3. b \in Bytes /\ c \in Bytes
      BY <2>5 DEF Tables
    <3> HIDE DEF b, c
    <3>4. \/ Remainder(b) < Remainder(c)
          \/ Remainder(b) = Remainder(c) /\ places[b] < places[c]
      BY <3>2, <3>3, InTheOrder DEF pass
    <3>5. /\ places[b] \in 1..Size /\ before[places[b]] = b
          /\ places[c] \in 1..Size /\ before[places[c]] = c
      <4>1. before \in Tables
        BY <1>1 DEF TCInv, TCTypeOK
      <4>2. QED
        BY <4>1, <3>3, <2>1, PlacesOfBytes
    <3>6. places[b] < places[c] => Before(b, c)
      BY <3>5 DEF Before
    <3>7. Precedes(b, c)
      BY <3>4, <3>6 DEF Precedes
    <3>8. QED
      BY <3>7 DEF b, c
  <2>9. QED
    BY <2>6, <2>7, <2>8 DEF Permutation, HasAll
<1>2. ASSUME TCInv, [TCNext]_tcVars, at = "sort", _i' = _i + 1
      PROVE  Ordered
  <2>1. _i \in Nat /\ _i' # _i
    <3>1. _i \in Nat
      BY <1>2, TableAssumption DEF TCInv, TCTypeOK
    <3>2. QED
      BY <3>1, <1>2
  <2>2. TooShort \/ Merged
    BY <1>2, <2>1 DEF TCNext, MergeSort, GetTable, StartPass, Sorted, Invert, SortLeft,
       SortRight, CopyHalves, TakeLeft, TakeRight, PutBack, tcVars
  <2>3. QED
    BY <1>1, <1>2, <2>2, ReturnsSorted
<1>3. TCInv /\ [TCNext]_tcVars =>
        [at = "sort" /\ _i' = _i + 1 => Ordered]_tcVars
  BY <1>2
<1>4. QED
  BY <1>3, TCInvHolds, PTL DEF TCSpec, SortsStably
=============================================================================
