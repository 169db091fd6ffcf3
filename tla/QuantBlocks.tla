---------------------------- MODULE QuantBlocks ----------------------------
(***************************************************************************)
(* The quantized weight formats of swamp-gguf (dtype.rs, quant/*.rs) and   *)
(* the fused kernels of swamp-kernels that read the same blocks without    *)
(* dequantizing them.  Floating-point values are left out.  What is kept   *)
(* is the addressing, which is where such code goes wrong: for element i   *)
(* of a block, the set of bits of the block its quantum, its high bits,    *)
(* its scale and its minimum are taken from.                               *)
(*                                                                         *)
(* Bit 8 * b + s is bit s of byte b of the block.                          *)
(***************************************************************************)
EXTENDS Naturals, FiniteSets, FiniteSetsExt

\* GgmlDType: the formats quant::dequantize implements with blocks.
Formats == {"Q4_0", "Q8_0", "Q2_K", "Q3_K", "Q4_K", "Q5_K", "Q6_K", "IQ2_XXS"}

\* block_size and type_size.
BlockElems(f) == IF f \in {"Q4_0", "Q8_0"} THEN 32 ELSE 256
TypeSize(f) ==
    CASE f = "Q4_0" -> 18 [] f = "Q8_0" -> 34  [] f = "Q2_K" -> 84
      [] f = "Q3_K" -> 110 [] f = "Q4_K" -> 144 [] f = "Q5_K" -> 176
      [] f = "Q6_K" -> 210 [] f = "IQ2_XXS" -> 66

\* nbytes_for: blocks are whole, the last one may be filled in part only.
NBytesFor(f, n) == ((n + BlockElems(f) - 1) \div BlockElems(f)) * TypeSize(f)

\* Where each dequant starts reading block b of a row.
BlockBase(f, b) == b * TypeSize(f)

\* n bits from bit s of byte b on.
Bits(b, s, n) == (8 * b + s) .. (8 * b + s + n - 1)

(***************************************************************************)
(* What the dequantizers read for element i.                               *)
(***************************************************************************)

\* q3_k.rs: the sixteen scales, packed as six bits in twelve bytes by the word
\* masks (four low bits, then two high bits out of the last four bytes).
Q3Scale(k) == LET b == k % 4  w == k \div 4 IN
    Bits(96 + b + 4 * (w % 2), 4 * (w \div 2), 4) \cup Bits(104 + b, 2 * w, 2)

\* unpack_scales of q4_k.rs, and unpack_scales_q4k of the fused kernel.
Q4Scale(j) == IF j < 4 THEN Bits(4 + j, 0, 6)
                       ELSE Bits(4 + j + 4, 0, 4) \cup Bits(4 + j - 4, 6, 2)
Q4Min(j)   == IF j < 4 THEN Bits(4 + j + 4, 0, 6)
                       ELSE Bits(4 + j + 4, 4, 4) \cup Bits(4 + j, 6, 2)

\* q5_k.rs: s0, s1 and s2 of sub-block j.  The bits of s2 that a scale shifts
\* past bit 5 are masked away, so a scale is the low six bits of s0 or s1.
Q5Scale(j) == Bits(4 + (j \div 2) + 4 * (j % 2), 0, 6)
Q5Min(j)   == Bits(4 + (j \div 2) + 4 * (j % 2), 6, 2)
                \cup Bits(4 + (j \div 2) + 8, 4 * (j % 2), 4)

\* What the value of element i is computed from: the bits of its quantum, high bits
\* included, of the scale that multiplies it and of the minimum subtracted from it, and
\* whether the scale is read as a signed number.
Reads(q, scale, min) == [q |-> q, scale |-> scale, min |-> min, signed |-> TRUE]

\* q4_0.rs, and the three paths of q8_0.rs: only the factor of the block.
dequant_q4_0(i) == Reads(Bits(2 + (i \div 2), 4 * (i % 2), 4), {}, {})
dequant_q8_0(i) == Reads(Bits(2 + i, 0, 8), {}, {})

dequant_q2k(i) ==
    LET sb == i \div 16 IN
    Reads(Bits(16 + 4 * sb + ((i % 16) \div 4), 2 * (i % 4), 2),
          Bits(sb \div 2, 4 * (sb % 2), 4), Bits(8 + (sb \div 2), 4 * (sb % 2), 4))

\* The mask bit m moves on with every j and is not reset for the second half.
dequant_q3k_reset(i) ==
    LET n == i \div 128  j == (i % 128) \div 32  l == i % 32 IN
    Reads(Bits(32 + 32 * n + l, 2 * j, 2) \cup Bits(l, j, 1), Q3Scale(i \div 16), {})
dequant_q3k(i) ==
    LET n == i \div 128  j == (i % 128) \div 32  l == i % 32 IN
    Reads(Bits(32 + 32 * n + l, 2 * j, 2) \cup Bits(l, 4 * n + j, 1), Q3Scale(i \div 16), {})

dequant_q4k(i) ==
    LET sb == i \div 32 IN
    Reads(Bits(16 + 32 * (sb \div 2) + (i % 32), 4 * (sb % 2), 4), Q4Scale(sb), Q4Min(sb))

dequant_q5k(i) ==
    LET sb == i \div 32 IN
    Reads(Bits(48 + 16 * sb + (i % 16), 4 * ((i % 32) \div 16), 4) \cup Bits(16 + (i \div 8), i % 8, 1),
          Q5Scale(sb), Q5Min(sb))

dequant_q6k(i) ==
    LET n == i \div 128  r == (i % 128) \div 32  l == i % 32 IN
    Reads(Bits(64 * n + l + 32 * (r % 2), 4 * (r \div 2), 4) \cup Bits(128 + 32 * n + l, 2 * r, 2),
          Bits(192 + 8 * n + (l \div 16) + 2 * r, 0, 8), {})

\* Eight elements share an index into the grid and a scale; the sign, here in place of
\* the minimum, is shared by two.
dequant_iq2_xxs(i) ==
    Reads(Bits(2 + 2 * (i \div 8), 0, 8), Bits(3 + 2 * (i \div 8), 0, 4),
          Bits(3 + 2 * (i \div 8), 4 + ((i % 8) \div 2), 1))

\* dequantize: the dispatch.
Dequantized(f, i) ==
    CASE f = "Q4_0" -> dequant_q4_0(i) [] f = "Q8_0" -> dequant_q8_0(i)
      [] f = "Q2_K" -> dequant_q2k(i)  [] f = "Q3_K" -> dequant_q3k(i)
      [] f = "Q4_K" -> dequant_q4k(i)  [] f = "Q5_K" -> dequant_q5k(i)
      [] f = "Q6_K" -> dequant_q6k(i)  [] f = "IQ2_XXS" -> dequant_iq2_xxs(i)

\* The block's own f16 factors d and dmin.
BlockFactors(f) ==
    CASE f \in {"Q4_0", "Q8_0", "IQ2_XXS"} -> Bits(0, 0, 16)
      [] f = "Q2_K" -> Bits(80, 0, 32)
      [] f = "Q3_K" -> Bits(108, 0, 16)
      [] f \in {"Q4_K", "Q5_K"} -> Bits(0, 0, 32)
      [] f = "Q6_K" -> Bits(208, 0, 16)

(***************************************************************************)
(* The fused kernels.  A kernel walks a row in its own order; its operator *)
(* gives what it multiplies x[i] with, in the same terms.                  *)
(***************************************************************************)

\* Pairs of sub-blocks share 32 bytes, the even one in the low nibbles.
Q4Pairs_swapped(i) ==
    LET pair == i \div 64  odd == (i % 64) \div 32 IN
    Reads(Bits(16 + 32 * pair + (i % 32), 4 * (1 - odd), 4),
          Q4Scale(2 * pair + odd), Q4Min(2 * pair + odd))
Q4Pairs(i) ==
    LET pair == i \div 64  odd == (i % 64) \div 32 IN
    Reads(Bits(16 + 32 * pair + (i % 32), 4 * odd, 4),
          Q4Scale(2 * pair + odd), Q4Min(2 * pair + odd))
fused_gemv_q4k_scalar(i) == Q4Pairs(i)
fused_gemv_q4k_multi(i) == Q4Pairs(i)
batched_scalar(i) == Q4Pairs(i)

\* Sub-block sb in 16 bytes at 16 * sb, its first half in the low nibbles.
Q4Halves(i) ==
    LET sb == i \div 32  half == (i % 32) \div 16 IN
    Reads(Bits(16 + 16 * sb + (i % 16), 4 * half, 4), Q4Scale(sb), Q4Min(sb))
fused_gemv_q4k_avx2(i) == Q4Halves(i)
batched_avx2(i) == Q4Halves(i)

\* pre_quant_vnni: the element of x in byte k of the 64 bytes of sub-block sb.  The
\* second half starts 16 elements on, not 32, and so runs into the next sub-block.
Activation(sb, k) == 32 * sb + (IF k < 32 THEN k ELSE k - 16)
\* The 32 weights of a sub-block stand in both halves of the register; one sum of a row
\* takes them all, before any scale.
Q4Vnni(i) ==
    LET lanes == {l \in (0..7) \X (0..63) : Activation(l[1], l[2]) = i}
    IN  Reads(UNION {Q4Halves(32 * l[1] + (l[2] % 32)).q : l \in lanes}, {}, Q4Min(i \div 32))
fused_gemv_q4k_vnni(i) == Q4Vnni(i)
batched_vnni(i) == Q4Vnni(i)

\* Two halves of 128, four quanta for each l.
Q6Lanes(i) ==
    LET half == i \div 128  lane == (i % 128) \div 32  l == i % 32 IN
    Reads(Bits(64 * half + l + (IF lane \in {1, 3} THEN 32 ELSE 0), IF lane \in {2, 3} THEN 4 ELSE 0, 4)
            \cup Bits(128 + 32 * half + l, 2 * lane, 2),
          Bits(192 + 8 * half + (l \div 16) + 2 * lane, 0, 8), {})
fused_gemv_q6k_scalar(i) == Q6Lanes(i)
\* sc_h[is] as f32 of an unsigned byte
fused_gemv_q6k_avx2(i) == [Q6Lanes(i) EXCEPT !.signed = FALSE]
fused_gemv_q6k_avx512(i) == [Q6Lanes(i) EXCEPT !.signed = FALSE]

ScalarKernels == {"q4k_scalar", "q4k_multi", "q4k_batched_scalar", "q6k_scalar"}
SimdKernels == {"q4k_avx2", "q4k_batched_avx2", "q4k_vnni", "q4k_batched_vnni",
                "q6k_avx2", "q6k_avx512"}
Kernels == ScalarKernels \cup SimdKernels
FormatOf(k) == IF k \in {"q6k_scalar", "q6k_avx2", "q6k_avx512"} THEN "Q6_K" ELSE "Q4_K"

Fused(k, i) ==
    CASE k = "q4k_scalar" -> fused_gemv_q4k_scalar(i)
      [] k = "q4k_multi" -> fused_gemv_q4k_multi(i)
      [] k = "q4k_batched_scalar" -> batched_scalar(i)
      [] k = "q4k_avx2" -> fused_gemv_q4k_avx2(i)
      [] k = "q4k_batched_avx2" -> batched_avx2(i)
      [] k = "q4k_vnni" -> fused_gemv_q4k_vnni(i)
      [] k = "q4k_batched_vnni" -> batched_vnni(i)
      [] k = "q6k_scalar" -> fused_gemv_q6k_scalar(i)
      [] k = "q6k_avx2" -> fused_gemv_q6k_avx2(i)
      [] k = "q6k_avx512" -> fused_gemv_q6k_avx512(i)

(***************************************************************************)
(* Reference statements about one format or one kernel.                    *)
(***************************************************************************)
Elements(f) == 0 .. BlockElems(f) - 1
Quanta(f) == {Dequantized(f, i).q : i \in Elements(f)}
SubFactors(f) == UNION {{Dequantized(f, i).scale, Dequantized(f, i).min} : i \in Elements(f)} \ {{}}
Fields(f) == Quanta(f) \cup SubFactors(f) \cup {BlockFactors(f)}

\* The fields tile the block: no two overlap, none reaches outside, no bit is unused.
Tiles(f) ==
    /\ UNION Fields(f) = 0 .. (8 * TypeSize(f) - 1)
    /\ MapThenSumSet(LAMBDA n : n * Cardinality({x \in Fields(f) : Cardinality(x) = n}), 1..32)
         = 8 * TypeSize(f)
    /\ f /= "IQ2_XXS" => Cardinality(Quanta(f)) = BlockElems(f)

\* Every one of n elements has its whole block inside the bytes reserved for n.
Covers(f, n) ==
    n > 0 => BlockBase(f, (n - 1) \div BlockElems(f)) + TypeSize(f) <= NBytesFor(f, n)

\* The same bits of the block for every element.  That both sides make the same number
\* of them is not compared: f16_to_f32_raw of the Q6_K kernels gives a factor of exponent
\* 0 (zero, or a subnormal one) another value than the half::f16 of the dequantizer.
Agrees(k) == \A i \in Elements(FormatOf(k)) : Fused(k, i) = Dequantized(FormatOf(k), i)
=============================================================================
