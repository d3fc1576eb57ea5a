------------------------------ MODULE FramePath ------------------------------
(***************************************************************************)
(* From a selection to a frame in a backend: BackendRegistry chooses, the  *)
(* client allocates a storage, makes a Buffer of the negotiated planes,    *)
(* slices and maps it, and submits frames of it to the selected provider,  *)
(* which checks their addresses.  A request only promises an alignment;    *)
(* the buffer shows the one there is.                                      *)
(*                                                                         *)
(* Buffers and mapped regions share the storage and hold it (shared_ptr).  *)
(* The client selects once the registry is frozen, as the platforms do in  *)
(* initialize(), and a behaviour follows the one selection it made: select *)
(* is const and gives a copy, so another cannot reach the first.           *)
(***************************************************************************)
EXTENDS BackendRegistry

CONSTANTS
  Capacities, Alignments,  \* of the storages the client may allocate
  Cuts,                    \* the offsets and lengths of slices
  Regions,                 \* the client's MappedRegion variables
  MaxBuffers,              \* a bound: the buffers over one storage
  Framed                   \* a bound: the requests whose frames are followed

ASSUME FrameAssumption ==
  /\ Capacities \subseteq Sizes /\ Alignments \subseteq Sizes \ {0} /\ Cuts \subseteq Sizes
  /\ IsFiniteSet(Regions)

VARIABLES
  storage,    \* the storage, and the address it was given
  buffers,    \* the Buffers over it, each its planes
  regions,
  mapped,     \* the storage's: calls of map less calls of unmap
  submitted   \* the answer to the last frame submitted from the storage

frameVars == <<storage, buffers, regions, mapped, submitted>>
vars == <<registryVars, frameVars>>

NoStorage    == [capacity |-> 0, alignment |-> 0, base |-> 0]
Absent       == [is |-> "absent"]
Emptied      == [is |-> "region", holds |-> FALSE, data |-> FALSE, plane |-> "none"]

FrameInit ==
  /\ Init
  /\ storage = NoStorage /\ buffers = {} /\ regions = [r \in Regions |-> Absent]
  /\ mapped = 0 /\ submitted = "none"

------------------------------------------------------------------------------
Holds(region) == region.is = "region" /\ region.holds

\* the storage is freed with the last that holds it
Shared(left, mapping) ==
  IF left = {} /\ \A r \in Regions : ~Holds(mapping[r]) THEN NoStorage ELSE storage

Negotiated == selection.result.formats[1]

\* Buffer::create; refused, it leaves nothing behind
Allocate ==
  /\ Selected /\ selection.request \in Framed /\ storage = NoStorage
  /\ \E capacity \in Capacities, alignment \in Alignments :
       LET new == [capacity |-> capacity, alignment |-> alignment, base |-> 3 * alignment]
       IN /\ BufferStatus(new, Negotiated.planes) = "ok"
          /\ storage' = new
  /\ buffers' = {Negotiated.planes} /\ submitted' = "none"
  /\ UNCHANGED <<registryVars, regions, mapped>>

\* Mutant: the offset is taken from the storage
Part_Absolute(plane, offset, length) ==
  [plane EXCEPT !.offset = offset, !.size = length]
Part(plane, offset, length) ==
  [plane EXCEPT !.offset = @ + offset, !.size = length]

Slice(planes, index, offset, length) ==
  LET sliced == <<Part(planes[index], offset, length)>>
  IN /\ Cardinality(buffers \cup {sliced}) <= MaxBuffers
     /\ is_within(offset, length, planes[index].size)
     /\ BufferStatus(storage, sliced) = "ok"
     /\ buffers' = buffers \cup {sliced}
     /\ UNCHANGED <<registryVars, storage, regions, mapped, submitted>>

DropBuffer(planes) ==
  /\ buffers' = buffers \ {planes}
  /\ storage' = Shared(buffers', regions)
  /\ UNCHANGED <<registryVars, regions, mapped, submitted>>

MappedAgain(covered) == IF covered THEN mapped + 1 ELSE mapped

\* map_plane: the storage may refuse, map less than it holds, or give no
\* address; what does not cover the plane is unmapped at once
MapPlane(planes, index, r) ==
  /\ regions[r] = Absent
  /\ \E size \in {0, storage.capacity}, address \in BOOLEAN :
       LET plane   == planes[index]
           covered == is_within(plane.offset, plane.size, size) /\ (address \/ plane.size = 0)
       IN /\ mapped' = MappedAgain(covered)
          /\ regions' = IF covered
               THEN [regions EXCEPT ![r] = [is |-> "region", holds |-> TRUE,
                                            data |-> address, plane |-> plane]]
               ELSE regions
  /\ UNCHANGED <<registryVars, storage, buffers, submitted>>

Unmapped(region) == IF Holds(region) THEN mapped - 1 ELSE mapped

\* Mutant: the storage is copied, not moved
MovedFrom_Holding(region) == [Emptied EXCEPT !.holds = region.holds]
MovedFrom(region) == Emptied

MoveConstruct(r, from) ==
  /\ regions[r] = Absent /\ regions[from] # Absent
  /\ regions' = [regions EXCEPT ![r] = regions[from], ![from] = MovedFrom(regions[from])]
  /\ UNCHANGED <<registryVars, storage, buffers, mapped, submitted>>

\* to itself it does nothing
MoveAssign(r, from) ==
  /\ r # from /\ regions[r] # Absent /\ regions[from] # Absent
  /\ mapped' = Unmapped(regions[r])
  /\ regions' = [regions EXCEPT ![r] = regions[from], ![from] = MovedFrom(regions[from])]
  /\ storage' = Shared(buffers, regions')
  /\ UNCHANGED <<registryVars, buffers, submitted>>

DestroyRegion(r) ==
  /\ regions[r] # Absent
  /\ mapped' = Unmapped(regions[r])
  /\ regions' = [regions EXCEPT ![r] = Absent]
  /\ storage' = Shared(buffers, regions')
  /\ UNCHANGED <<registryVars, buffers, submitted>>

\* VideoFrame::create takes a buffer of exactly the format's planes, and the
\* provider checks the frame it is given
Submit(planes) ==
  /\ planes = Negotiated.planes
  /\ submitted' = validate_frame_plane_alignment(storage, planes, Negotiated,
                    Domain(selection.result.capability, selection.request, 1))
  /\ UNCHANGED <<registryVars, storage, buffers, regions, mapped>>

FrameNext ==
  \/ /\ \/ \E p \in Providers : Register(p)
        \/ Freeze
        \/ frozen /\ selection = NoSelection /\ \E request \in Requests : Select(request)
     /\ UNCHANGED frameVars
  \/ Allocate
  \/ \E planes \in buffers : DropBuffer(planes) \/ Submit(planes)
  \/ \E planes \in buffers : \E index \in DOMAIN planes :
       \/ \E offset, length \in Cuts : Slice(planes, index, offset, length)
       \/ \E r \in Regions : MapPlane(planes, index, r)
  \/ \E r, from \in Regions : MoveConstruct(r, from) \/ MoveAssign(r, from)
  \/ \E r \in Regions : DestroyRegion(r)

Spec == FrameInit /\ [][FrameNext]_vars

------------------------------------------------------------------------------
(***************************************************************************)
(* Properties                                                              *)
(***************************************************************************)
\* Every map of the storage is undone by exactly one region, through moves,
\* assignments and mappings that fall short, and neither a buffer nor a region
\* that points into the storage outlives it.
MapsAccounted ==
  /\ mapped = Cardinality({r \in Regions : Holds(regions[r])})
  /\ \A r \in Regions : regions[r] # Absent /\ regions[r].data => Holds(regions[r])
  /\ mapped > 0 \/ buffers # {} => storage # NoStorage

\* A buffer, sliced however often, stays inside one plane of the frame it comes
\* from, and the alignment it claims for a plane is one its address really has.
BuffersHonest ==
  \A planes \in buffers : \A i \in DOMAIN planes :
    /\ \E whole \in Range(Negotiated.planes) :
         /\ whole.offset <= planes[i].offset
         /\ planes[i].offset + planes[i].size <= whole.offset + whole.size
    /\ (storage.base + planes[i].offset) % plane_address_alignment(storage, planes[i]) = 0

\* A frame the provider takes has the addresses its capability requires; and
\* one that was negotiated without a conversion, in a storage that keeps the
\* promise of the request, is taken.
PromiseKept ==
  storage # NoStorage /\ submitted # "none" =>
    LET required == Domain(selection.result.capability, selection.request, 1).planes
        promised == selection.request.sides[1].address
    IN /\ submitted = "ok" =>
            \A i \in DOMAIN required :
              (storage.base + Negotiated.planes[i].offset) % required[i].address = 0
       /\ ~selection.result.conversion /\ (promised = 0 \/ storage.alignment % promised = 0)
            => submitted = "ok"
==============================================================================
