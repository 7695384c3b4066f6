------------------------------- MODULE Arithmetic -------------------------------
(***************************************************************************)
(* Three decisions that more than one layer takes for itself, with         *)
(* integers of a fixed width:                                              *)
(*  - whether an integer is exactly a float64 (element.go, registry.rs);   *)
(*  - whether the two buffers of a minification overlap (minify.go,        *)
(*    simdjson_bridge.cpp);                                                *)
(*  - what limits a parser gets (parser_options.go, registry.rs, the       *)
(*    bridge).                                                             *)
(* No call here changes anything.                                          *)
(***************************************************************************)
EXTENDS Integers, Sequences

CONSTANTS
  WordBits,     \* 64
  MantissaBits, \* 53
  AddressMax,   \* the largest uintptr_t
  MinCapacity,  \* MIN_MAX_CAPACITY, 32
  MaxCapacity,  \* DEFAULT_MAX_CAPACITY, 2^32 - 1
  MaxDepth      \* MAX_SUPPORTED_DEPTH and DEFAULT_MAX_DEPTH, 1024

ASSUME ArithmeticAssumption ==
  /\ WordBits \in Nat \ {0} /\ MantissaBits \in Nat \ {0}
  /\ AddressMax \in Nat \ {0}
  /\ MinCapacity \in Nat \ {0} /\ MaxCapacity \in Nat /\ MinCapacity <= MaxCapacity
  /\ MaxDepth \in Nat \ {0}

-----------------------------------------------------------------------------
(* Exact float64 values *)

Pow2[n \in Nat] == IF n = 0 THEN 1 ELSE 2 * Pow2[n - 1]

Modulus == Pow2[WordBits]
MinInt64 == -Pow2[WordBits - 1]
MaxInt64 == Pow2[WordBits - 1] - 1

\* u64::trailing_zeros, of a value that is not 0
TrailingZeros[v \in Nat \ {0}] == IF v % 2 = 1 THEN 0 ELSE 1 + TrailingZeros[v \div 2]
\* u64::BITS - leading_zeros; bits.Len64
BitLength[v \in Nat] == IF v = 0 THEN 0 ELSE 1 + BitLength[v \div 2]

\* Mutated form: the bits are counted with the trailing zeros.
WideNotExact(v) == v = 0 \/ BitLength[v] <= MantissaBits
\* uint64_is_exact_float64, exactFloat64Uint64
Uint64IsExact(v) == v = 0 \/ BitLength[v \div Pow2[TrailingZeros[v]]] <= MantissaBits

\* v.wrapping_neg() as u64: the least integer is its own negation.
MagnitudeRust(v) ==
  LET negated == IF v = MinInt64 THEN v ELSE -v
  IN  (IF v < 0 THEN negated ELSE v) % Modulus

\* uint64(^value) + 1
MagnitudeGo(v) == IF v < 0 THEN (((-v - 1) % Modulus) + 1) % Modulus ELSE v % Modulus

\* What the parser makes of a number: an int64 if it fits, else a uint64 if it fits.
IntegerElements ==
  [kind : {"int64"}, value : MinInt64 .. MaxInt64]
    \cup [kind : {"uint64"}, value : MaxInt64 + 1 .. Modulus - 1]
OtherElements == [kind : {"float64", "bigint", "string", "null"}, value : {0}]

Value(v) == [rc |-> "ok", value |-> v]
Error(rc) == [rc |-> rc, value |-> 0]

\* psimdjson_element_get_int64_at, psimdjson_element_get_uint64_at,
\* psimdjson_element_get_float64_at; the conversion of an integer to a double is left to
\* the hardware, and is not used for one that would be rounded.
GetInt64(e) ==
  CASE e.kind = "int64" -> Value(e.value)
    [] e.kind = "uint64" -> Error("number_out_of_range")
    [] OTHER -> Error("wrong_type")
GetUint64(e) ==
  CASE e.kind = "uint64" -> Value(e.value)
    [] e.kind = "int64" ->
         IF e.value < 0 THEN Error("number_out_of_range") ELSE Value(e.value)
    [] OTHER -> Error("wrong_type")
GetDouble(e) ==
  IF e.kind \in {"int64", "uint64", "float64"} THEN Value(e.value) ELSE Error("wrong_type")

IfExact(answer, exact) ==
  IF answer.rc = "ok" /\ ~exact THEN Error("precision_loss") ELSE answer

\* element_get_float64
GetFloat64Rust(e) ==
  CASE e.kind = "int64" -> IfExact(GetInt64(e), Uint64IsExact(MagnitudeRust(e.value)))
    [] e.kind = "uint64" -> IfExact(GetUint64(e), Uint64IsExact(e.value))
    [] OTHER -> GetDouble(e)

\* Element.GetFloat64, for an element whose view carries the hint.
GetFloat64Go(hint, e) ==
  CASE hint = "int64" -> IfExact(GetInt64(e), Uint64IsExact(MagnitudeGo(e.value)))
    [] hint = "uint64" -> IfExact(GetUint64(e), Uint64IsExact(e.value))
    [] OTHER -> GetFloat64Rust(e)

-----------------------------------------------------------------------------
(* Overlapping buffers *)

\* psimdjson_minify, up to the implementation's gate; 0 is the null pointer.
MinifyChecks(src, srcLen, dst, dstCap) ==
  CASE dstCap < srcLen -> "buffer_too_small"
    [] dstCap >= srcLen /\ srcLen # 0 /\ (src = 0 \/ dst = 0) -> "invalid_argument"
    [] dstCap >= srcLen /\ srcLen # 0 /\ src # 0 /\ dst # 0 /\ src # dst
         /\ (\/ srcLen > AddressMax - src \/ dstCap > AddressMax - dst
             \/ (src < dst + dstCap /\ dst < src + srcLen)) -> "invalid_argument"
    [] OTHER -> "ok"

\* Mutated form: whether one begins inside the other is asked of the source only.
OverlapOneWay(dst, dstLen, src, srcLen) ==
  dstLen # 0 /\ srcLen # 0 /\ dst # src /\ dst < src /\ src - dst < dstLen
\* byteSlicesPartiallyOverlap; the subtraction never wraps.
SlicesPartiallyOverlap(dst, dstLen, src, srcLen) ==
  /\ dstLen # 0 /\ srcLen # 0 /\ dst # src
  /\ IF dst < src THEN src - dst < dstLen ELSE dst - src < srcLen

\* MinifyInto, up to the native call.
MinifyIntoChecks(src, srcLen, dst, dstLen) ==
  CASE dstLen < srcLen -> "buffer_too_small"
    [] dstLen >= srcLen /\ SlicesPartiallyOverlap(dst, dstLen, src, srcLen) -> "invalid_argument"
    [] OTHER -> "ok"

-----------------------------------------------------------------------------
(* Limits of a parser *)

DefaultConfig == [capacity |-> MaxCapacity, depth |-> MaxDepth]

\* The body of the loop in normalizeParserOptions.
OptionAccepted(option) ==
  \/ option.value = 0
  \/ option.kind = "capacity" /\ option.value \in MinCapacity .. MaxCapacity
  \/ option.kind = "depth" /\ option.value \in 1 .. MaxDepth
ApplyOption(config, option) ==
  IF option.kind = "capacity"
  THEN [config EXCEPT !.capacity = IF option.value = 0 THEN MaxCapacity ELSE option.value]
  ELSE [config EXCEPT !.depth = IF option.value = 0 THEN MaxDepth ELSE option.value]

\* registry.rs: parser_new_configured; it leaves the depth to the bridge.
RustAccepts(capacity) == capacity = 0 \/ capacity \in MinCapacity .. MaxCapacity
RustConfig(capacity, depth) ==
  [capacity |-> IF capacity = 0 THEN MaxCapacity ELSE capacity,
   depth |-> IF depth = 0 THEN MaxDepth ELSE depth]

\* The bridge: parser_new_configured_with_selection_lock.
BridgeAccepts(capacity, depth) ==
  /\ capacity # 0 => capacity \in MinCapacity .. MaxCapacity
  /\ depth <= MaxDepth
BridgeConfig(capacity, depth) ==
  [capacity |-> IF capacity = 0 THEN MaxCapacity ELSE capacity,
   depth |-> IF depth = 0 THEN MaxDepth ELSE depth]

-----------------------------------------------------------------------------
(* Properties *)

\* A sign, an integer of as many bits as the mantissa has, and zeros behind it.
IsFloat64(v) ==
  \E m \in 0 .. Pow2[MantissaBits] - 1, shift \in 0 .. WordBits :
    v = m * Pow2[shift] \/ v = -(m * Pow2[shift])

\* GetFloat64 returns every integer that a float64 holds exactly, unchanged, and refuses
\* all others with precision_loss, whichever layer decides: Go by the view's hint, Rust
\* by the native kind when there is no valid hint.  The least int64 is among the former.
FloatsExact ==
  \A e \in IntegerElements \cup OtherElements : \A hint \in {e.kind, "invalid"} :
    LET answer == GetFloat64Go(hint, e) IN
    /\ answer = GetFloat64Rust(e)
    /\ e \in IntegerElements =>
         answer = IF IsFloat64(e.value) THEN Value(e.value) ELSE Error("precision_loss")
    /\ e.kind = "bigint" => answer.rc = "wrong_type"

Addresses == 0 .. AddressMax

Span(start, length) == {a \in Addresses : start <= a /\ a < start + length}

\* A buffer that exists: not at the null pointer, and ending below the top of memory.
Exists(start, length) == length # 0 => start # 0 /\ start + length <= AddressMax

\* A minification that is let through never writes what it has yet to read: the buffers
\* begin at one address or share no byte, whatever lengths a C caller declares.  For
\* buffers that exist the check of the Go API and the check of the bridge are the same.
OverlapsRefused ==
  \A src, dst, srcLen, dstCap \in Addresses :
    LET apart == srcLen = 0 \/ src = dst \/ Span(src, srcLen) \cap Span(dst, dstCap) = {}
    IN  /\ MinifyChecks(src, srcLen, dst, dstCap) = "ok" => apart
        /\ Exists(src, srcLen) /\ Exists(dst, dstCap) =>
             /\ MinifyIntoChecks(src, srcLen, dst, dstCap) = MinifyChecks(src, srcLen, dst, dstCap)
             /\ dstCap >= srcLen /\ apart => MinifyChecks(src, srcLen, dst, dstCap) = "ok"
=============================================================================
