------------------------------- MODULE Checksum -------------------------------
(***************************************************************************)
(* One's complement checksums (include/hash/onescomplement.hh) of a packet *)
(* in fragments: each is summed up eight bytes at a time with carries      *)
(* (checksum_adc) or with SSE (checksum_sse), and the rest of it byte by   *)
(* byte; the caller adds up the sums of all fragments and words of the     *)
(* pseudo header (include/header), and folds the result into 16 bits.      *)
(*                                                                         *)
(* Data is whatever a load may return; instead of the data there is the    *)
(* checksum it ought to have, by definition: the sum of the 16-bit words   *)
(* modulo 2^16 - 1, and zero for zeros only.  The variants that copy while *)
(* they sum (checksum_move_) sum alike.                                    *)
(***************************************************************************)
EXTENDS Naturals

CONSTANTS
    BYTE,           \* values of a byte: 2^8 in the code
    LONG_WORDS,     \* sizeof(unsigned long)/2
    UNROLLED        \* loads per round of checksum_adc: 4 in the code

ASSUME WidthAssumption ==
    /\ BYTE \in Nat \ {0, 1} /\ UNROLLED \in Nat \ {0}
    /\ LONG_WORDS \in {2 * n : n \in 1 .. LONG_WORDS}

LONG_BYTES == 2 * LONG_WORDS

\* Values of n bytes.
Values[n \in 0 .. LONG_BYTES] == IF n = 0 THEN 1 ELSE BYTE * Values[n - 1]

WORD == BYTE * BYTE                     \* values of uint16_t
LONG == Values[LONG_BYTES]              \* of unsigned long
HALF == Values[LONG_WORDS]              \* of a 32-bit element of a vector

VARIABLES
    sum,            \* the caller's state
    odd,
    summing,        \* where the thread is
    rstate,         \* the function's state
    load, carry,    \* checksum_adc: which load is next, and the carry flag
    \* history
    right,          \* the checksum of the data so far, by definition
    lost            \* what sse_final has lost

sumVars == <<sum, odd, summing, rstate, load, carry, right, lost>>

ChecksumTypeOK ==
    /\ sum \in 0 .. LONG - 1 /\ rstate \in 0 .. LONG - 1
    /\ odd \in BOOLEAN
    /\ summing \in {"off", "caller", "adc", "sse", "rest"}
    /\ load \in 1 .. UNROLLED /\ carry \in {0, 1}
    /\ right \in 0 .. WORD - 1 /\ lost \in 0 .. WORD - 1

ChecksumInit(start) ==
    /\ sum = 0 /\ odd = FALSE /\ summing = start
    /\ rstate = 0 /\ load = 1 /\ carry = 0
    /\ right = 0 /\ lost = 0

-----------------------------------------------------------------------------
\* Words by definition: n, reduced modulo WORD - 1, and zero for zero only.
Reduce(n) == IF n = 0 THEN 0 ELSE ((n - 1) % (WORD - 1)) + 1

\* The data seen is worth n if it begins at an even place.
Seen(n) == right' = Reduce(right + IF odd THEN n * BYTE ELSE n)

\* Mutant: the carry is forgotten.
AddOnly(a, b) == (a + b) % LONG

\* add: with the carry around the end.
Add(a, b) == LET s == a + b IN (s % LONG) + (s \div LONG)

\* d[0] + ... + d[n - 1]
SumOf(d, n) ==
    LET s[i \in 0 .. n] == IF i = 0 THEN 0 ELSE s[i - 1] + d[i - 1]
    IN  s[n]

\* fold: the carry of the words goes to the result, the carry of that is lost.
WordOf(n, i) == (n \div Values[2 * i]) % WORD
WordSum(n)   == SumOf([i \in 0 .. LONG_WORDS - 1 |-> WordOf(n, i)], LONG_WORDS)
Fold(n)      == (WordSum(n) + WordSum(n) \div WORD) % WORD
FoldLoses(n) == ((WordSum(n) % WORD) + WordSum(n) \div WORD) \div WORD

\* bswap16 and bswapl
Swap16(n)    == (n % BYTE) * BYTE + n \div BYTE
ByteOf(n, i) == (n \div Values[i]) % BYTE
SwapLong(n)  == SumOf([i \in 0 .. LONG_BYTES - 1 |-> ByteOf(n, i) * Values[LONG_BYTES - 1 - i]],
                     LONG_BYTES)

\* What a signed 32-bit value is as an unsigned long.
SignExtend(n) == IF 2 * n >= HALF THEN n + LONG - HALF ELSE n

-----------------------------------------------------------------------------
(* The caller *)

\* Addresses, length and protocol of the pseudo header.
AddPseudoHeader ==
    /\ summing = "caller" /\ ~odd
    /\ \E n \in 0 .. LONG - 1 : sum' = Add(sum, n) /\ Seen(n)
    /\ UNCHANGED <<odd, summing, rstate, load, carry, lost>>

NextFragment(function) ==
    /\ summing = "caller"
    /\ summing' = function
    /\ UNCHANGED <<sum, odd, rstate, load, carry, right, lost>>

-----------------------------------------------------------------------------
(* checksum_adc: one instruction a step *)

\* Mutant: the loop has one load too many.
LoadsPast == IF load > UNROLLED THEN 1 ELSE load + 1

NextLoad == IF load = UNROLLED THEN 1 ELSE load + 1

\* add or adc, and adc $0 behind the last one.
AdcLoad ==
    /\ summing = "adc"
    /\ \E n \in 0 .. LONG - 1 :
        LET s == rstate + n + carry
        IN  /\ IF load = UNROLLED
                 THEN rstate' = Add(rstate + carry, n) /\ carry' = 0
                 ELSE rstate' = s % LONG /\ carry' = s \div LONG
            /\ Seen(n)
    /\ load' = NextLoad
    /\ UNCHANGED <<sum, odd, summing, lost>>

\* Less than a round is left.
AdcEnd ==
    /\ summing = "adc" /\ load = 1
    /\ rstate' = IF odd THEN SwapLong(rstate) ELSE rstate
    /\ summing' = "rest"
    /\ UNCHANGED <<sum, odd, load, carry, right, lost>>

-----------------------------------------------------------------------------
(* checksum_sse *)

\* sse_step: the eight 32-bit words of two vectors, which are summed up in two lanes
\* of 64 bits.  No buffer is so long that these overflow.
SseStep ==
    /\ summing = "sse"
    /\ \E n \in 0 .. 8 * (HALF - 1) :
        /\ rstate + n < LONG
        /\ rstate' = rstate + n
        /\ Seen(n)
    /\ UNCHANGED <<sum, odd, summing, load, carry, lost>>

\* sse_final: the upper half of the sum is added to the lower one without a carry,
\* and fold may lose one.
SseFinal ==
    LET s    == (rstate % HALF) + (rstate \div HALF)
        half == SignExtend(s % HALF)
    IN  /\ summing = "sse"
        /\ rstate' = IF odd THEN Swap16(Fold(half)) ELSE half
        /\ lost' = Reduce(lost + IF odd THEN (s \div HALF + FoldLoses(half)) * BYTE
                                        ELSE s \div HALF)
        /\ summing' = "rest"
        /\ UNCHANGED <<sum, odd, load, carry, right>>

-----------------------------------------------------------------------------
(* checksum_rest *)

RestByte ==
    /\ summing = "rest"
    /\ \E v \in 0 .. BYTE - 1 :
        /\ rstate' = Add(rstate, IF odd THEN Swap16(v) ELSE v)
        /\ Seen(v)
    /\ odd' = ~odd
    /\ UNCHANGED <<sum, summing, load, carry, lost>>

\* The function returns, and its caller adds up.
Return ==
    /\ summing = "rest"
    /\ sum' = Add(sum, rstate)
    /\ rstate' = 0
    /\ summing' = "caller"
    /\ UNCHANGED <<odd, load, carry, right, lost>>

-----------------------------------------------------------------------------
ChecksumNext ==
    \/ AddPseudoHeader
    \/ \E function \in {"adc", "sse"} : NextFragment(function)
    \/ AdcLoad \/ AdcEnd
    \/ SseStep \/ SseFinal
    \/ RestByte \/ Return

ChecksumSpec == ChecksumInit("caller") /\ [][ChecksumNext]_sumVars

-----------------------------------------------------------------------------
(* Properties *)

\* However a packet is split into fragments, at odd places too, and whichever way
\* each is summed up, the sum is right but for the two carries sse_final loses, its
\* own and that of its fold: no other one is lost, and no byte is added at the wrong
\* place.
CarriesKept == summing = "caller" => Reduce(sum + lost) = right

\* What test/checksums.cc expects: folded, the sum of the fragments is the checksum.
ChecksumRight == summing = "caller" /\ lost = 0 => Fold(sum) = right

=============================================================================
