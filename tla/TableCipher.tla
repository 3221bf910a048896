----------------------------- MODULE TableCipher -----------------------------
(***************************************************************************)
(* The table cipher (table.m): get_table shuffles the bytes by sorting     *)
(* them again and again, each time by another key made of the hash of the  *)
(* password, and inverts the result.  It is called again, over the tables  *)
(* of the password before, whenever the configuration is loaded.           *)
(*                                                                         *)
(* Both ends make the table for themselves, the far one with the sorting   *)
(* function of another language, so the order in which merge_sort leaves   *)
(* bytes of equal keys matters.  merge_sort is modelled call by call and   *)
(* merge byte by byte.                                                     *)
(***************************************************************************)
EXTENDS Integers, Sequences

CONSTANTS Size,      \* the bytes there are: 256
          Passes,    \* sorting stops before this one: 1024
          Hashes,    \* the first eight bytes of the MD5 of passwords
          ByteRange, \* 2 to the width of uint8_t
          LongRange, \* 2 to the width of uint64_t
          IntRange,  \* 2 to the width of int
          MaxCalls   \* bound on the calls of get_table

ASSUME TableAssumption ==
  /\ ByteRange \in Nat /\ IntRange \in Nat
  /\ Size \in Nat \ {0} /\ Passes \in Nat \ {0} /\ MaxCalls \in Nat
  /\ Hashes \subseteq Nat
  /\ Size <= ByteRange /\ 2 * (Size + Passes) <= IntRange
  /\ LongRange \in Nat \ {0} /\ LongRange % IntRange = 0

VARIABLES
  at,             \* where get_table is: "sort", "invert" or "out"
  _a, _i,         \* the hash, and the pass: the globals random_compare reads
  encrypt_table,  \* the table; the code of byte b has the index b + 1
  decrypt_table,
  inverted,       \* the loop variable of the last loop
  calls,
  stack,          \* the calls of merge_sort under way, the innermost last
  ltmp, rtmp,     \* what merge has still to put back from each half
  before          \* history: encrypt_table when this pass began

merge_vars == <<ltmp, rtmp>>
get_table_vars == <<at, _a, decrypt_table, inverted, calls>>
tcVars == <<get_table_vars, _i, encrypt_table, stack, merge_vars, before>>

Bytes == 0..(Size - 1)
Tables == [1..Size -> Bytes]

(* A call of merge_sort: its segment begins at index from + 1; step is how  *)
(* far it has come, and so where the call of its that is under way returns. *)
Frames == [from : 0..Size, length : 0..Size,
           step : {"enter", "left", "right", "merge"}]

TCTypeOK ==
  /\ at \in {"out", "sort", "invert"} /\ _a \in Nat /\ _i \in 0..Passes
  /\ encrypt_table \in Tables /\ decrypt_table \in Tables /\ before \in Tables
  /\ inverted \in Bytes /\ calls \in 0..MaxCalls
  /\ stack \in Seq(Frames) /\ ltmp \in Seq(Bytes) /\ rtmp \in Seq(Bytes)

-----------------------------------------------------------------------------
(* The difference of two uint64_t is one itself, and is returned as an int. *)
AsUnsigned(d) == d % LongRange
AsInt(d) ==
  LET low == AsUnsigned(d) % IntRange
  IN  IF 2 * low < IntRange THEN low ELSE low - IntRange

RandomCompare(x, y) == AsInt((_a % (x + _i)) - (_a % (y + _i)))

(* The left one of two equal bytes goes first. *)
LeftFirst(x, y) == RandomCompare(x, y) <= 0

-----------------------------------------------------------------------------
(* merge_sort and merge, which work in place. *)

Call(from, length) == [from |-> from, length |-> length, step |-> "enter"]
Top == stack[Len(stack)]
Callers == SubSeq(stack, 1, Len(stack) - 1)
GoneTo(step) == Append(Callers, [Top EXCEPT !.step = step])
AtStep(step) == at = "sort" /\ stack # <<>> /\ Top.step = step

(* middle is a uint8_t. *)
Middle(f)  == (f.length \div 2) % ByteRange
LLength(f) == f.length - Middle(f)

(* The outermost call returns to get_table, whose loop goes on. *)
Return ==
  /\ stack' = Callers
  /\ _i' = IF Callers = <<>> THEN _i + 1 ELSE _i
  /\ UNCHANGED <<get_table_vars, encrypt_table, merge_vars, before>>

TooShort == AtStep("enter") /\ Top.length <= 1 /\ Return

SortLeft ==
  /\ AtStep("enter") /\ Top.length > 1
  /\ stack' = Append(GoneTo("left"), Call(Top.from, LLength(Top)))
  /\ UNCHANGED <<get_table_vars, _i, encrypt_table, merge_vars, before>>

SortRight ==
  /\ AtStep("left")
  /\ stack' = Append(GoneTo("right"), Call(Top.from + LLength(Top), Middle(Top)))
  /\ UNCHANGED <<get_table_vars, _i, encrypt_table, merge_vars, before>>

CopyHalves ==
  /\ AtStep("right")
  /\ LET right == Top.from + LLength(Top)
     IN  /\ ltmp' = SubSeq(encrypt_table, Top.from + 1, right)
         /\ rtmp' = SubSeq(encrypt_table, right + 1, Top.from + Top.length)
  /\ stack' = GoneTo("merge")
  /\ UNCHANGED <<get_table_vars, _i, encrypt_table, before>>

(* *result, an index into the table. *)
Result == Top.from + Top.length - Len(ltmp) - Len(rtmp) + 1

PutBack(byte) ==
  /\ encrypt_table' = [encrypt_table EXCEPT ![Result] = byte]
  /\ UNCHANGED <<get_table_vars, _i, stack, before>>

LeftNext == ltmp # <<>> /\ (rtmp # <<>> => LeftFirst(Head(ltmp), Head(rtmp)))

TakeLeft ==
  /\ AtStep("merge") /\ LeftNext
  /\ PutBack(Head(ltmp)) /\ ltmp' = Tail(ltmp) /\ UNCHANGED rtmp

TakeRight ==
  /\ AtStep("merge") /\ rtmp # <<>> /\ ~LeftNext
  /\ PutBack(Head(rtmp)) /\ rtmp' = Tail(rtmp) /\ UNCHANGED ltmp

Merged == AtStep("merge") /\ ltmp = <<>> /\ rtmp = <<>> /\ Return

MergeSort == TooShort \/ SortLeft \/ SortRight \/ CopyHalves \/ TakeLeft \/ TakeRight \/ Merged

-----------------------------------------------------------------------------
(* get_table. *)

GetTable(hash) ==
  /\ at = "out" /\ calls < MaxCalls
  /\ at' = "sort" /\ calls' = calls + 1
  /\ _a' = hash /\ _i' = 1
  /\ encrypt_table' = [k \in 1..Size |-> k - 1]
  /\ UNCHANGED <<decrypt_table, inverted, stack, merge_vars, before>>

StartPass ==
  /\ at = "sort" /\ stack = <<>> /\ _i < Passes
  /\ stack' = <<Call(0, Size)>> /\ before' = encrypt_table
  /\ UNCHANGED <<get_table_vars, _i, encrypt_table, merge_vars>>

Sorted ==
  /\ at = "sort" /\ stack = <<>> /\ _i = Passes
  /\ at' = "invert" /\ inverted' = 0
  /\ UNCHANGED <<_a, _i, encrypt_table, decrypt_table, calls, stack, merge_vars, before>>

LastButOne == Size - 2
LastByte   == Size - 1

Invert ==
  /\ at = "invert"
  /\ decrypt_table' = [decrypt_table EXCEPT ![encrypt_table[inverted + 1] + 1] = inverted]
  /\ IF inverted < LastByte
     THEN inverted' = inverted + 1 /\ UNCHANGED at
     ELSE at' = "out" /\ UNCHANGED inverted
  /\ UNCHANGED <<_a, _i, encrypt_table, calls, stack, merge_vars, before>>

TCInit ==
  /\ at = "out" /\ _a = 0 /\ _i = 0 /\ inverted = 0 /\ calls = 0
  /\ encrypt_table = [k \in 1..Size |-> 0] /\ decrypt_table = encrypt_table
  /\ stack = <<>> /\ ltmp = <<>> /\ rtmp = <<>> /\ before = encrypt_table

TCNext == (\E hash \in Hashes : GetTable(hash)) \/ StartPass \/ MergeSort \/ Sorted \/ Invert

TCSpec == TCInit /\ [][TCNext]_tcVars

-----------------------------------------------------------------------------
(* What table_encrypt makes of a byte, and table_decrypt of that: outside   *)
(* get_table every byte comes back, and every byte is the code of one, also *)
(* when the tables were made for another password before: no entry of the   *)
(* old decrypt_table is left over (table.m:149-152).                        *)
Encrypted(b) == encrypt_table[b + 1]
Decrypted(b) == decrypt_table[b + 1]

TablesInverse ==
  at = "out" /\ calls > 0 =>
    \A b \in Bytes : Decrypted(Encrypted(b)) = b /\ Encrypted(Decrypted(b)) = b

(* A pass sorts stably: it leaves every byte once, ordered by the           *)
(* remainders of the hash, and those with equal remainders as they were.    *)
(* With this the table is the one that any stable sorting function makes at *)
(* the far end (merge_sort, merge, random_compare).                         *)
Remainder(b) == _a % (b + _i)
Before(b, c) == \E k, l \in 1..Size : k < l /\ before[k] = b /\ before[l] = c
Precedes(b, c) ==
  \/ Remainder(b) < Remainder(c)
  \/ Remainder(b) = Remainder(c) /\ Before(b, c)

SortsStably ==
  [][at = "sort" /\ _i' = _i + 1 =>
       /\ \A b \in Bytes : \E k \in 1..Size : encrypt_table'[k] = b
       /\ \A k, l \in 1..Size :
            k < l => Precedes(encrypt_table'[k], encrypt_table'[l])]_tcVars
=============================================================================
