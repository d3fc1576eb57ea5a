----------------------------- MODULE VideoLayout -----------------------------
(***************************************************************************)
(* Planes of pixels in memory: what a VideoFormat and a Buffer accept, what*)
(* a provider's capability requires of them, and the layout it asks for    *)
(* when what it is offered will not do.                                    *)
(*                                                                         *)
(* Every size is a std::size_t, here of a width small enough to overflow.  *)
(* The code checks each operation; the steps of a layout only ever grow a  *)
(* size, so one that overflowed is still above MaxSize at the end, and is  *)
(* looked at there.                                                        *)
(***************************************************************************)
EXTENDS Integers, Sequences, SequencesExt

CONSTANT MaxSize   \* std::numeric_limits<std::size_t>::max()

Sizes    == 0..MaxSize
Overflow == MaxSize + 1

align_up(value, alignment) == ((value + alignment - 1) \div alignment) * alignment

greatest_common_divisor[sizes \in Sizes \X Sizes] ==
  LET left  == sizes[1]
      right == sizes[2]
  IN IF right = 0 THEN left ELSE greatest_common_divisor[<<right, left % right>>]

\* Mutant: the larger of the two
least_common_multiple_Larger(left, right) == IF left > right THEN left ELSE right
least_common_multiple(left, right) ==
  (left \div greatest_common_divisor[<<left, right>>]) * right

\* how many samples, or rows, of a subsampled plane cover an extent
Subsampled(extent, subsampling) ==
  IF extent + subsampling - 1 \in Sizes THEN (extent + subsampling - 1) \div subsampling
                                        ELSE Overflow

------------------------------------------------------------------------------
(***************************************************************************)
(* Ranges of dimensions.  The alignment is that of the storage, so a value *)
(* is in range when what it is stored in is.                               *)
(***************************************************************************)
Ranges == [minimum : Int, maximum : Int, step : Int, alignment : Int]

RangeValid(range) ==
  /\ range.minimum > 0 /\ range.maximum >= range.minimum
  /\ range.step > 0 /\ range.alignment > 0
  /\ align_up(range.minimum, range.alignment) <= range.maximum

InRange(range, value) ==
  /\ RangeValid(range) /\ value \in range.minimum..range.maximum
  /\ (value - range.minimum) % range.step = 0
  /\ align_up(value, range.alignment) <= range.maximum

------------------------------------------------------------------------------
(***************************************************************************)
(* Formats.  A pixel format is a model of its planes: how each samples the *)
(* picture, and in how many bytes.                                         *)
(***************************************************************************)
Sampling(h, v, bytes) == [h |-> h, v |-> v, bytes |-> bytes]
PixelFormats ==
  [yuyv422 |-> <<Sampling(1, 1, 2)>>,
   rgb24   |-> <<Sampling(1, 1, 3)>>,
   nv12    |-> <<Sampling(1, 1, 1), Sampling(2, 2, 2)>>,
   yuv420p |-> <<Sampling(1, 1, 1), Sampling(2, 2, 1), Sampling(2, 2, 1)>>]

is_within(offset, size, capacity) == offset <= capacity /\ size <= capacity - offset

Memories == {"cpu", "mmap", "dmabuf", "opaque"}
Planes   == [offset : Sizes, size : Sizes, stride : Sizes]
Formats  == [pixel : DOMAIN PixelFormats, memory : Memories, width : Int, height : Int,
             planes : Seq(Planes)]

Overlap(left, right) ==
  left.offset < right.offset + right.size /\ right.offset < left.offset + left.size

\* every plane within the limit, and none over another
PlanesApart(planes, limit) ==
  /\ \A i \in DOMAIN planes : is_within(planes[i].offset, planes[i].size, limit)
  /\ \A i \in DOMAIN planes : \A j \in 1..(i - 1) : ~Overlap(planes[i], planes[j])

OddUnsupported(pixel, width, height) ==
  \/ pixel \in {"yuyv422", "nv12", "yuv420p"} /\ width % 2 # 0
  \/ pixel \in {"nv12", "yuv420p"} /\ height % 2 # 0

\* VideoFormat::create.  The order tells an odd size from a bad plane.
FormatStatus(format) ==
  LET samplings == PixelFormats[format.pixel]
      PlaneGood(plane, sampling) ==
        /\ plane.stride >= (format.width \div sampling.h) * sampling.bytes
        /\ plane.size >= plane.stride * (format.height \div sampling.v)
  IN IF format.width <= 0 \/ format.height <= 0 \/ ~PlanesApart(format.planes, MaxSize)
       THEN "invalid"
     ELSE IF OddUnsupported(format.pixel, format.width, format.height) THEN "unsupported"
     ELSE IF Len(format.planes) # Len(samplings)
             \/ \E i \in DOMAIN samplings : ~PlaneGood(format.planes[i], samplings[i]) THEN "invalid"
     ELSE "ok"

------------------------------------------------------------------------------
(***************************************************************************)
(* FormatMemoryDomain: the constraints a provider puts on each plane of a  *)
(* pixel format in a kind of memory.                                       *)
(***************************************************************************)
Constraints == [h : Int, v : Int, bytes : Sizes, stride : Sizes, offset : Sizes, size : Sizes,
                address : Sizes]
Domains     == [pixel : DOMAIN PixelFormats, memory : Memories, planes : Seq(Constraints)]

DomainValid(domain) ==
  /\ Len(domain.planes) = Len(PixelFormats[domain.pixel])
  /\ \A i \in DOMAIN domain.planes : \A field \in DOMAIN domain.planes[i] :
       domain.planes[i][field] > 0

\* the first entry for the pixel format in that memory; 0 is NULL
find_format(domains, format) ==
  SelectInSeq(domains, LAMBDA d : d.pixel = format.pixel /\ d.memory = format.memory)

\* what a row of one plane takes
Strided(constraint, width) ==
  align_up(Subsampled(width, constraint.h) * constraint.bytes, constraint.stride)

\* a plane's address is its storage's plus its offset: both must be aligned
\* Mutant: the offset is forgotten
plane_address_is_proven_BaseOnly(constraint, plane, address) ==
  constraint.address = 1 \/ (address # 0 /\ address % constraint.address = 0)
plane_address_is_proven(constraint, plane, address) ==
  \/ constraint.address = 1
  \/ /\ address # 0 /\ address % constraint.address = 0
     /\ plane.offset % constraint.address = 0

layout_matches(format, domain, width_range, height_range, address) ==
  LET PlaneMatches(plane, constraint) ==
        /\ plane.stride >= Strided(constraint, align_up(format.width, width_range.alignment))
        /\ plane.stride % constraint.stride = 0
        /\ plane.offset % constraint.offset = 0
        /\ plane.size % constraint.size = 0
        /\ plane_address_is_proven(constraint, plane, address)
        /\ plane.size >= plane.stride *
             Subsampled(align_up(format.height, height_range.alignment), constraint.v)
  IN /\ DomainValid(domain) /\ Len(format.planes) = Len(domain.planes)
     /\ InRange(width_range, format.width) /\ InRange(height_range, format.height)
     /\ PlanesApart(format.planes, MaxSize)
     /\ \A i \in DOMAIN format.planes : PlaneMatches(format.planes[i], domain.planes[i])

Refusal(status) == [status |-> status]
Made(format)    == [status |-> "ok", format |-> format]

\* the next plane, behind those laid out already
Laid(constraint, width, height, after) ==
  LET stride == Strided(constraint, width)
      unit   == least_common_multiple(constraint.offset, constraint.address)
  IN [offset |-> IF unit \in Sizes THEN align_up(after, unit) ELSE Overflow,
      size   |-> align_up(stride * Subsampled(height, constraint.v), constraint.size),
      stride |-> stride]

End(planes) == IF planes = <<>> THEN 0 ELSE Last(planes).offset + Last(planes).size

LaidOut(constraints, width, height) ==
  LET planes[n \in 0..Len(constraints)] ==
        IF n = 0 THEN <<>>
        ELSE Append(planes[n - 1], Laid(constraints[n], width, height, End(planes[n - 1])))
  IN planes[Len(constraints)]

make_actual_format(requested, domain, width_range, height_range) ==
  LET actual == [requested EXCEPT !.planes =
                   LaidOut(domain.planes, align_up(requested.width, width_range.alignment),
                           align_up(requested.height, height_range.alignment))]
  IN IF ~DomainValid(domain) THEN Refusal("mismatch")
     ELSE IF End(actual.planes) \notin Sizes THEN Refusal("exhausted")
     ELSE IF FormatStatus(actual) # "ok" THEN Refusal(FormatStatus(actual))
     ELSE Made(actual)

------------------------------------------------------------------------------
(***************************************************************************)
(* Buffers.  A storage promises the alignment of its address and holds     *)
(* capacity bytes; a buffer is planes of one storage.                      *)
(***************************************************************************)
BufferStatus(storage, planes) ==
  IF /\ planes # <<>> /\ storage.alignment # 0
     /\ \A i \in DOMAIN planes : planes[i].stride # 0
     /\ PlanesApart(planes, storage.capacity) THEN "ok" ELSE "invalid"

plane_address_alignment(storage, plane) ==
  IF plane.offset = 0 THEN storage.alignment
  ELSE greatest_common_divisor[<<storage.alignment, plane.offset>>]

\* what a provider checks of a frame it is submitted, on the buffer it has
validate_frame_plane_alignment(storage, planes, format, domain) ==
  IF /\ DomainValid(domain)
     /\ format.pixel = domain.pixel /\ format.memory = domain.memory
     /\ Len(planes) = Len(domain.planes)
     /\ \A i \in DOMAIN planes :
          plane_address_alignment(storage, planes[i]) % domain.planes[i].address = 0
    THEN "ok" ELSE "mismatch"
==============================================================================
