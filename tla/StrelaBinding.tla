--------------------------- MODULE StrelaBinding ---------------------------
(***************************************************************************)
(* One input column of a submission, from the numbers a client gives to    *)
(* the words that are read for it: strela_binding_check and the u32 and u64 *)
(* arithmetic in it, strela_input_size, and the loop with which the        *)
(* simulated device reads the column; and strela_check_bounds, with which  *)
(* the character device checks a column in u32.  Sources:                  *)
(* driver/strela_job.c, driver/strela_core.c and driver/strela_driver.c.   *)
(* The config and the outputs are the case stride = 1.                     *)
(*                                                                         *)
(* The widths are parameters: HalfWord is 2^16, the base of the two fields *)
(* of a size register, from which u32 and u64 follow; WordSize is 4.       *)
(***************************************************************************)
EXTENDS Integers

CONSTANTS
  HalfWord,   \* values of half a size register
  WordSize,   \* STRELA_WORD_SIZE
  Offsets, Counts, Strides,   \* u32 values a client may give
  ObjSizes,   \* sizes of buffer objects, in bytes
  RegionSize  \* STRELA_DATA_REGION_SIZE of the character device, in bytes

U32 == HalfWord * HalfWord
U64 == U32 * U32

ASSUME BindingAssumption ==
  /\ HalfWord \in Nat /\ WordSize \in Nat
  /\ 0 < WordSize /\ WordSize < HalfWord
  /\ Offsets \subseteq 0 .. U32 - 1
  /\ Counts \subseteq 0 .. U32 - 1
  /\ Strides \subseteq 0 .. U32 - 1
  /\ ObjSizes \subseteq 0 .. U64 - 1
  /\ RegionSize \in 0 .. U32 - 1

\* STRELA_MAX_COLUMN_BYTES
MaxColumnBytes == HalfWord - 1

VARIABLES
  binding,    \* what the client gave: offset, count, stride
  obj_size,   \* size of the object the handle named
  pc,         \* how far the submission has got
  size_reg,   \* the column's size register
  outs,       \* count of the output column fed by this one
  words       \* words of the input column read so far

bindingVars == <<binding, obj_size, pc, size_reg, outs, words>>

Stride(b) == IF b.stride = 0 THEN 1 ELSE b.stride

\* span_bytes and end, in u64.
SpanBytes(b) == (((b.count * Stride(b)) % U64) * WordSize) % U64
End(b) == (((b.offset * WordSize) % U64) + SpanBytes(b)) % U64

BindingInit ==
  /\ binding \in [offset : Offsets, count : Counts, stride : Strides]
  /\ obj_size \in ObjSizes
  /\ outs \in Counts
  /\ pc = "submit"
  /\ size_reg = 0
  /\ words = 0

\* Mutant: the stride is not checked by itself.
StrideFitsAlways(b) == TRUE

\* "The hardware ignores the stride of a column that moves nothing."
StrideFits(b) ==
  b.count # 0 => (Stride(b) * WordSize) % U64 <= MaxColumnBytes

\* Mutant: one byte too many.
SpanFitsOne(b) == SpanBytes(b) <= MaxColumnBytes + 1

SpanFits(b) == SpanBytes(b) <= MaxColumnBytes

\* Mutant: the end is compared in words.
EndFitsWords(b) == b.offset + b.count <= obj_size

EndFits(b) == End(b) <= obj_size

\* strela_binding_check
BindingCheck ==
  /\ pc = "submit"
  /\ pc' = IF SpanFits(binding) /\ StrideFits(binding) /\ EndFits(binding)
           THEN "accepted" ELSE "EINVAL"
  /\ UNCHANGED <<binding, obj_size, size_reg, outs, words>>

\* check_mul_overflow and check_add_overflow tell whether the u32 result wraps
\* around, and store it.
MulOverflows(x, y) == x * y >= U32
AddOverflows(x, y) == x + y >= U32
Mul32(x, y) == (x * y) % U32
Add32(x, y) == (x + y) % U32

\* strela_check_bounds
CheckBounds(b) ==
  LET offset_bytes == Mul32(b.offset, WordSize)
      count_words == Mul32(b.count, b.stride)
      count_bytes == Mul32(count_words, WordSize)
  IN \/ MulOverflows(b.offset, WordSize)
     \/ MulOverflows(b.count, b.stride)
     \/ MulOverflows(count_words, WordSize)
     \/ AddOverflows(offset_bytes, count_bytes)
     \/ Add32(offset_bytes, count_bytes) > RegionSize

\* IOCTL_STRELA_CONTROL of the character device, which takes the same numbers.
Control ==
  /\ pc = "submit"
  /\ pc' = IF CheckBounds(binding) THEN "cdev_EINVAL" ELSE "cdev_accepted"
  /\ UNCHANGED <<binding, obj_size, size_reg, outs, words>>

\* strela_input_size, in u32.  The high half has its low bits clear and the
\* checked low half its high bits, so that | is a sum.
InputSize(b) ==
  LET stride == (((b.stride * WordSize) % U32) * HalfWord) % U32
      bytes == (((Stride(b) * b.count) % U32) * WordSize) % U32
  IN (stride + bytes) % U32

\* strela_hw_program
HwProgram ==
  /\ pc = "accepted"
  /\ pc' = "programmed"
  /\ size_reg' = InputSize(binding)
  /\ UNCHANGED <<binding, obj_size, outs, words>>

\* The word of the object that iteration i of the simulated device reads.
WordRead(b, i) == b.offset + ((i * b.stride) % U32)

\* strela_sim_bypass_column: the shorter of the two counts is copied.
SimWord ==
  /\ pc = "programmed"
  /\ words < binding.count
  /\ words < outs
  /\ words' = words + 1
  /\ UNCHANGED <<binding, obj_size, pc, size_reg, outs>>

\* The column is over.
Over ==
  /\ \/ pc \in {"EINVAL", "cdev_EINVAL", "cdev_accepted"}
     \/ pc = "programmed" /\ ~ (words < binding.count /\ words < outs)
  /\ UNCHANGED bindingVars

BindingNext == BindingCheck \/ Control \/ HwProgram \/ SimWord \/ Over

BindingSpec == BindingInit /\ [][BindingNext]_bindingVars

-----------------------------------------------------------------------------
(* Properties. *)

\* What the register holds is a u32 (strela_input_size), and the copy loop does
\* not run past one.
BindingTypeOK ==
  /\ binding \in [offset : Offsets, count : Counts, stride : Strides]
  /\ obj_size \in ObjSizes
  /\ pc \in {"submit", "EINVAL", "accepted", "programmed",
             "cdev_EINVAL", "cdev_accepted"}
  /\ size_reg \in 0 .. U32 - 1
  /\ outs \in Counts
  /\ words \in 0 .. U32 - 1

\* The column in exact arithmetic.
ExactSpan(b) == b.count * Stride(b) * WordSize

\* strela_binding_check decides in u64 exactly what it would decide without
\* wrapping around: a column is accepted if and only if its span and its stride
\* fit their fields and it ends inside its object.  strela_check_bounds of the
\* character device does so in u32, for the end of the column alone, which may
\* be the end of the region (RegionEndIsRefused is what its comment says of it).
CheckIsExact ==
  /\ pc \in {"EINVAL", "accepted", "programmed"} =>
       (pc # "EINVAL" <=>
          /\ ExactSpan(binding) <= MaxColumnBytes
          /\ binding.count # 0 => Stride(binding) * WordSize <= MaxColumnBytes
          /\ binding.offset * WordSize + ExactSpan(binding) <= obj_size)
  /\ pc \in {"cdev_EINVAL", "cdev_accepted"} =>
       (pc = "cdev_accepted" <=>
          binding.offset * WordSize + binding.count * binding.stride * WordSize
            <= RegionSize)

\* The test as the comment in strela_check_bounds has it, "offset_words*WORD_SIZE
\* + count_words*stride*WORD_SIZE >= DATA_REGION_SIZE": a column that ends where
\* the region ends is refused.  The code has > and accepts it.
RegionEndIsRefused ==
  pc = "cdev_accepted" =>
    binding.offset * WordSize + binding.count * binding.stride * WordSize
      < RegionSize

\* "Anything from 64 KiB upwards would silently corrupt the stride field"
\* (strela_binding_check): the register that is written for an accepted column
\* decodes to the stride and the byte count the client asked for.
RegisterDecodes ==
  pc = "programmed" =>
    /\ size_reg % HalfWord = ExactSpan(binding)
    /\ binding.count # 0 => size_reg \div HalfWord = binding.stride * WordSize

\* "Both bindings were checked against their buffers at submit time" (the copy
\* loop): every word read lies inside the object.
WordsInBounds ==
  pc = "programmed" =>
    \A i \in 0 .. words - 1 : (WordRead(binding, i) + 1) * WordSize <= obj_size
=============================================================================
