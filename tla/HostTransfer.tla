---------------------------- MODULE HostTransfer ----------------------------
(***************************************************************************)
(* A host array's way to the device and back: BufferFromHostBuffer,        *)
(* StridedGather and the emulated wire codes (metal_client.cc,             *)
(* metal_dtypes.cc), then ToLiteral and CopyRawToHost (metal_buffer.cc).   *)
(*                                                                         *)
(* input.kind = "transfer": dims, byte strides (<<>>: contiguous), the     *)
(* item's bytes, a wire type, what the host holds at each byte offset, and *)
(* which of the steps fail.  A code is what a wire byte holds of an        *)
(* emulated type; any other wire's value is the offset it was read from.   *)
(***************************************************************************)
EXTENDS Integers, Sequences, FiniteSets, FiniteSetsExt, SequencesExt, Case

\* WireTypeOf, and EmulatedKindOfPrimitive's table for the integer grids:
\* [item, widen, lanes, bits, signed]; bits = 0: not emulated.
Wire(type) ==
  LET plain(item, widen, lanes) == [item |-> item, widen |-> widen, lanes |-> lanes,
                                    bits |-> 0, signed |-> TRUE]
      grid(bits, signed) == [item |-> 1, widen |-> FALSE, lanes |-> 1,
                             bits |-> bits, signed |-> signed]
  IN CASE type = "s8" -> plain(1, FALSE, 1)
       [] type = "s16" -> plain(2, FALSE, 1)
       [] type = "f64" -> plain(8, TRUE, 1)
       [] type = "c128" -> plain(16, TRUE, 2)
       [] type = "s2" -> grid(2, TRUE)
       [] type = "u2" -> grid(2, FALSE)

\* (mutant) the first dimension turns fastest.
TurnedFirst(dims, idx) ==
  LET turns(d) == \A e \in 1 .. d - 1 : idx[e] + 1 >= dims[e]
  IN [d \in DOMAIN dims |-> IF ~ turns(d) THEN idx[d] ELSE IF idx[d] + 1 < dims[d] THEN idx[d] + 1 ELSE 0]
\* The odometer: a dimension turns when those after it are through.
Turned(dims, idx) ==
  LET turns(d) == \A e \in d + 1 .. Len(dims) : idx[e] + 1 >= dims[e]
  IN [d \in DOMAIN dims |-> IF ~ turns(d) THEN idx[d] ELSE IF idx[d] + 1 < dims[d] THEN idx[d] + 1 ELSE 0]
Odometer(dims) ==
  LET idx[n \in 0 .. Product(dims) - 1] ==
        IF n = 0 THEN [d \in DOMAIN dims |-> 0] ELSE Turned(dims, idx[n - 1])
  IN idx
Dot(a, b) == Total([d \in DOMAIN a |-> a[d] * b[d]])

\* StridedGather, or one memcpy: where each staged item is read from.
StridedGather(x) ==
  LET at == Odometer(x.dims)
  IN [n \in 0 .. Product(x.dims) - 1 |->
        IF x.strides = <<>> THEN n * Wire(x.type).item ELSE Dot(at[n], x.strides)]

\* (mutant) a stride's reach is counted from the lowest address.
SpanUpward(x) ==
  [lo |-> 0, hi |-> Wire(x.type).item
     + Total([d \in DOMAIN x.strides |-> (x.dims[d] - 1) * Max({x.strides[d], - x.strides[d]})])]
\* The caller's bytes: a view's bounding box starts below its first element
\* when a stride is negative.
Span(x) ==
  LET reach(d) == (x.dims[d] - 1) * x.strides[d]
      item == Wire(x.type).item
  IN IF x.strides = <<>> THEN [lo |-> 0, hi |-> item * Product(x.dims)]
     ELSE [lo |-> Total([d \in DOMAIN x.dims |-> IF reach(d) < 0 THEN reach(d) ELSE 0]),
           hi |-> item + Total([d \in DOMAIN x.dims |-> IF reach(d) < 0 THEN 0 ELSE reach(d)])]

\* (mutant) Whatever the box holds beside the view.
ReleaseSparse(x) == Span(x).lo .. Span(x).hi - 1
\* The range handed to release_page_cache once the copy is made: the box,
\* unless the view is sparse in it.
Release(x) ==
  LET span == Span(x).hi - Span(x).lo
  IN IF span > 0 /\ span <= 2 * (Product(x.dims) * Wire(x.type).item)
     THEN Span(x).lo .. Span(x).hi - 1 ELSE {}

Pow2(n) == IF n = 2 THEN 4 ELSE IF n = 1 THEN 2 ELSE 16
\* EmulatedDecode and EmulatedEncode of the integer grids: two's complement
\* in the low bits.
EmulatedDecode(w, code) ==
  LET masked == code % Pow2(w.bits)
  IN IF w.signed /\ masked >= Pow2(w.bits) \div 2 THEN masked - Pow2(w.bits) ELSE masked
EmulatedEncode(w, v) == v % Pow2(w.bits)

\* (mutant) the last scalar first.
NarrowBackwards(scalars) ==
  LET stage[i \in 0 .. scalars] ==
        IF i = 0 THEN [h \in 0 .. 2 * scalars - 1 |-> h]
        ELSE LET last == stage[i - 1]
                 k == scalars - i
             IN [last EXCEPT ![k] = IF last[2 * k] = 2 * k /\ last[2 * k + 1] = 2 * k + 1
                                    THEN - k - 1 ELSE 2 * scalars]
  IN stage[scalars]
\* Doubles narrowed in place, half by half: -k - 1 is scalar k narrowed, and
\* a scalar one of whose halves was overwritten is lost.
Narrow(scalars) ==
  LET stage[i \in 0 .. scalars] ==
        IF i = 0 THEN [h \in 0 .. 2 * scalars - 1 |-> h]
        ELSE LET last == stage[i - 1]
                 k == i - 1
             IN [last EXCEPT ![k] = IF last[2 * k] = 2 * k /\ last[2 * k + 1] = 2 * k + 1
                                    THEN - k - 1 ELSE 2 * scalars]
  IN stage[scalars]

Lost == 999
\* What the device holds of the n-th staged item.
Held(x, n) ==
  LET w == Wire(x.type)
      o == StridedGather(x)[n]
      half == Narrow(Product(x.dims) * w.lanes)
  IN IF w.bits > 0 THEN EmulatedDecode(w, x.host[o])
     ELSE IF w.widen /\ \E k \in n * w.lanes .. (n + 1) * w.lanes - 1 : half[k] # - k - 1
     THEN Lost
     ELSE o

\* (mutant) the callback is left to the caller on a refusal.
RefusedQuietly(status) == [status |-> status, calls |-> 0, array |-> <<>>, released |-> {}]
\* What a transfer comes to: its status, how often the caller's callback ran,
\* the device's array, and the bytes whose pages were given back.
Refused(status) == [status |-> status, calls |-> 1, array |-> <<>>, released |-> {}]
Rejected(status, released) == [status |-> status, calls |-> 0, array |-> <<>>, released |-> released]
Sent(array, released) == [status |-> "ok", calls |-> 1, array |-> array, released |-> released]

WellShaped(x) ==
  /\ x.strides = <<>> \/ Len(x.strides) = Len(x.dims)
  /\ \A d \in DOMAIN x.dims : x.dims[d] >= 0
BufferFromHostBuffer(x) ==
  LET w == Wire(x.type) IN
  IF ~ WellShaped(x) THEN Rejected("invalid", {})
  ELSE IF Product(x.dims) = 0 THEN Sent(<<>>, {})
  ELSE IF x.fails = "admit" \/ x.fails = "stage" THEN Refused("exhausted")
  ELSE IF w.bits > 0 /\ x.fails = "decode" THEN Rejected("exhausted", Release(x))
  ELSE Sent([n \in 1 .. Product(x.dims) |-> Held(x, n - 1)], Release(x))

\* ToLiteral into `size` bytes, and CopyOut of part of a buffer.
ToLiteral(x, array, size) ==
  LET w == Wire(x.type)
      device == IF w.widen THEN w.item \div 2 ELSE w.item
  IN IF w.bits > 0
     THEN IF size # Len(array) THEN <<>>
          ELSE [n \in DOMAIN array |-> EmulatedEncode(w, array[n])]
     ELSE IF w.widen
     THEN IF size # Len(array) * w.lanes * (w.item \div w.lanes) THEN <<>> ELSE array
     ELSE IF size > Len(array) * device THEN <<>> ELSE array

\* What the host array holds, by coordinate.
HostOffset(x, c) ==
  IF x.strides = <<>> THEN RowMajor(x.dims, c) * Wire(x.type).item ELSE Dot(c, x.strides)
HostElement(x, c) ==
  IF Wire(x.type).bits > 0 THEN x.host[HostOffset(x, c)] ELSE HostOffset(x, c)

---------------------------------------------------------------------------
\* What was transferred is read back in row-major order, whatever the host's
\* layout, element for element.
TransfersRoundTrip ==
  input.kind = "transfer" =>
    LET sent == BufferFromHostBuffer(input)
        n == Product(input.dims)
        literal == ToLiteral(input, sent.array, n * Wire(input.type).item)
    IN sent.status = "ok" /\ n > 0 =>
         /\ Len(literal) = n
         /\ \A c \in Coords(input.dims) :
              literal[1 + RowMajor(input.dims, c)] = HostElement(input, c)

\* Where each byte of the staging block was read from.
BytesRead(x) ==
  LET item == Wire(x.type).item
      at == StridedGather(x)
  IN [b \in 0 .. Product(x.dims) * item - 1 |-> at[b \div item] + (b % item)]

\* The pages given back span exactly what the transfer read, from its lowest
\* byte to its highest; a view that fills its box gives all of it back; and
\* "a SPARSE view is left alone: its bounding box holds bytes this transfer
\* never read ... Half the box is the line", of a view that reads no byte
\* twice (the code counts bytes copied, so one that repeats them is not
\* known to be sparse).
PagesAreRead ==
  input.kind = "transfer" /\ WellShaped(input) /\ Product(input.dims) > 0 =>
    LET sent == BufferFromHostBuffer(input)
        reads == BytesRead(input)
        bytes == Range(reads)
        box == Min(bytes) .. Max(bytes)
    IN /\ sent.released \in {{}, box}
       /\ sent.status = "ok" /\ bytes = box => sent.released = box
       /\ Cardinality(bytes) = Cardinality(DOMAIN reads) =>
            Cardinality(sent.released) <= 2 * Cardinality(bytes)

\* "The callback still runs: the caller's host buffer is no longer ours to
\* read whether or not we managed to copy it": once the arguments are good,
\* on every outcome.
HostIsReleased ==
  input.kind = "transfer" =>
    LET sent == BufferFromHostBuffer(input)
    IN sent.status \in {"ok", "exhausted"} => sent.calls = 1

\* The same, of the transfers whose decode finds its memory.
DecodeFails(x) == Wire(x.type).bits > 0 /\ x.fails = "decode"
HostIsReleasedOtherwise ==
  input.kind = "transfer" /\ ~ DecodeFails(input) => HostIsReleased

\* A transfer keeps every element, gives back no page of a neighbour's, and
\* lets go of the host's data.
TransfersAreWhole ==
  TransfersRoundTrip /\ PagesAreRead /\ HostIsReleasedOtherwise
=============================================================================
