--------------------------- MODULE BackendRegistry ---------------------------
(***************************************************************************)
(* Providers of media backends: what each can do, how a request for a      *)
(* processor or an encoder is matched against it and negotiated with it,   *)
(* and how BackendRegistry chooses among those registered.  A provider is  *)
(* probed anew at every selection and may answer differently each time:    *)
(* unplugged, taken by another process, or with other capabilities.        *)
(*                                                                         *)
(* A request has a side for its input and, for a processor, one for its    *)
(* output: a format and the alignment promised for its address.            *)
(***************************************************************************)
EXTENDS VideoLayout, FiniteSets

CONSTANTS
  Providers,  \* the provider objects
  IdOf,       \* the id each reports
  IdOrder,    \* the ids, in the order of strings
  ProbesOf,   \* what probe() of each may answer
  Requests,   \* the requests for a processor or an encoder
  Addresses   \* a bound: the addresses at which a negotiated layout is looked at

Ids == Range(IdOrder)

ASSUME RegistryAssumption ==
  /\ MaxSize \in Nat \ {0}
  /\ IdOf \in [Providers -> Ids] /\ IdOrder \in Seq(STRING) /\ IsInjective(IdOrder)
  /\ Addresses \subseteq Sizes \ {0}

\* a processor has an input and an output, an encoder an input
Sides(kind) == IF kind = "processor" THEN 1..2 ELSE 1..1

\* The formats of a request are those VideoFormat::create has accepted.
ASSUME RequestAssumption ==
  \A request \in Requests :
    /\ request.preferred \in Seq(STRING)
    /\ request.sides \in [Sides(request.kind) -> [format : Formats, address : Sizes]]
    /\ \A side \in Sides(request.kind) : FormatStatus(request.sides[side].format) = "ok"

\* the answers that describe the provider
Answers == {probe \in UNION {ProbesOf[p] : p \in Providers} : probe.status = "ok"}

ASSUME AnswerAssumption ==
  \A probe \in Answers :
    /\ probe.kind \in {"hardware", "software", "reference"}
    /\ probe.capabilities \in Seq(Range(probe.capabilities))
    /\ \A c \in Range(probe.capabilities) :
         /\ {c.widths, c.heights} \subseteq [Sides(c.kind) -> Ranges]
         /\ c.domains \in [Sides(c.kind) -> Seq(Domains)]

VARIABLES
  providers,  \* providers_: a provider for each registered id
  frozen,
  selection   \* the last selection made: what was asked and seen, and the result

registryVars == <<providers, frozen, selection>>

NoSelection == [result |-> Refusal("none")]

Init ==
  /\ providers = <<>> /\ frozen = FALSE
  /\ selection = NoSelection

------------------------------------------------------------------------------
(***************************************************************************)
(* One capability against one request.                                     *)
(***************************************************************************)
WholeInput(request) ==
  [x |-> 0, y |-> 0, width |-> request.sides[1].format.width,
   height |-> request.sides[1].format.height]

Rotated(request) ==
  IF request.rotation \in {90, 270} THEN <<request.crop.height, request.crop.width>>
                                    ELSE <<request.crop.width, request.crop.height>>

requires_operation(request, operation) ==
  LET input  == request.sides[1].format
      output == request.sides[2].format
  IN CASE operation = "scaling"    -> Rotated(request) # <<output.width, output.height>>
       [] operation = "cropping"   -> request.crop # WholeInput(request)
       [] operation = "rotation"   -> request.rotation # 0
       [] operation = "conversion" -> input.pixel # output.pixel

Operations == {"scaling", "cropping", "rotation", "conversion"}

Domain(capability, request, side) ==
  capability.domains[side][find_format(capability.domains[side], request.sides[side].format)]

Found(capability, request, side) ==
  find_format(capability.domains[side], request.sides[side].format) # 0

SideMatches(capability, request, side) ==
  LET offered == request.sides[side]
  IN /\ Found(capability, request, side)
     /\ layout_matches(offered.format, Domain(capability, request, side),
                       capability.widths[side], capability.heights[side], offered.address)

requires_explicit_conversion(capability, request) ==
  \E side \in DOMAIN request.sides : ~SideMatches(capability, request, side)

uses_zero_copy(capability, request) ==
  capability.zero_copy /\ ~requires_explicit_conversion(capability, request)

\* the part of match that a processor and an encoder share
SidesMatch(capability, request) ==
  \A side \in DOMAIN request.sides :
    LET format == request.sides[side].format
    IN /\ InRange(capability.widths[side], format.width)
       /\ InRange(capability.heights[side], format.height)
       /\ Found(capability, request, side)
       /\ DomainValid(Domain(capability, request, side))

ProcessorMatches(capability, request) ==
  /\ capability.identical => request.sides[1].format = request.sides[2].format
  /\ request.operations \subseteq capability.operations
  /\ \A operation \in Operations :
       requires_operation(request, operation) => operation \in capability.operations

EncoderMatches(capability, request) ==
  /\ request.sides[1].format.width = request.width
  /\ request.sides[1].format.height = request.height
  /\ request.mode \in capability.modes   \* codec, profile, level and rate control

ZeroCopyMatches(capability, request) ==
  request.zero_copy => uses_zero_copy(capability, request)

Matches(capability, request) ==
  /\ capability.kind = request.kind
  /\ SidesMatch(capability, request)
  /\ IF request.kind = "processor" THEN ProcessorMatches(capability, request)
                                   ELSE EncoderMatches(capability, request)
  /\ ZeroCopyMatches(capability, request)

\* negotiated_config and actual_input_format: all the formats as they were
\* offered, or all of them laid out anew
ActualFormats(capability, request) ==
  LET Actual(side) ==
        make_actual_format(request.sides[side].format, Domain(capability, request, side),
                           capability.widths[side], capability.heights[side])
      refused == {side \in DOMAIN request.sides : Actual(side).status # "ok"}
  IN IF ~requires_explicit_conversion(capability, request)
       THEN [status |-> "ok", formats |-> [side \in DOMAIN request.sides |->
                                             request.sides[side].format]]
     ELSE IF refused # {}
       THEN Actual(CHOOSE side \in refused : \A other \in refused : side <= other)
     ELSE [status |-> "ok", formats |-> [side \in DOMAIN request.sides |->
                                           Actual(side).format]]

------------------------------------------------------------------------------
(***************************************************************************)
(* One provider, as its probe describes it.                                *)
(***************************************************************************)
\* the first capability that matches; 0 is none
Matching ==
  [request \in Requests |-> [probe \in Answers |->
     SelectInSeq(probe.capabilities, LAMBDA c : Matches(c, request))]]

Capability(probe, request) == probe.capabilities[Matching[request][probe]]

\* ProviderCapability::match
MatchStatus(probe, id, request) ==
  IF request.required \notin {"none", id} THEN "mismatch"
  ELSE IF probe.available # "ok" THEN probe.available
  ELSE IF Matching[request][probe] = 0 THEN "mismatch" ELSE "ok"

\* negotiate: with the first capability that matches
Negotiation(capability, request) ==
  LET actual == ActualFormats(capability, request)
  IN IF actual.status # "ok" THEN Refusal(actual.status)
     ELSE [status     |-> "ok",
           conversion |-> requires_explicit_conversion(capability, request),
           zero_copy  |-> uses_zero_copy(capability, request),
           capability |-> capability,
           formats    |-> actual.formats]

Negotiate ==
  [request \in Requests |-> [probe \in Answers |->
     IF Matching[request][probe] = 0 THEN Refusal("mismatch")
     ELSE Negotiation(Capability(probe, request), request)]]

preferred_provider_rank(preferred, id) ==
  LET index == SelectInSeq(preferred, LAMBDA p : p = id)
  IN IF index = 0 THEN Len(preferred) + 1 ELSE index - 1

provider_kind_rank(kind, prefer_hardware) ==
  IF ~prefer_hardware THEN 0
  ELSE CASE kind = "hardware" -> 0 [] kind = "software" -> 1 [] kind = "reference" -> 2

\* Mutant: what the capability declares, whatever the layout
zero_copy_rank_Declared(capability, request) ==
  IF request.prefer_zero_copy /\ ~capability.zero_copy THEN 1 ELSE 0
zero_copy_rank(capability, request) ==
  IF request.prefer_zero_copy /\ ~uses_zero_copy(capability, request) THEN 1 ELSE 0

\* preference_score, the id last
Score(probe, id, request) ==
  <<preferred_provider_rank(request.preferred, id),
    provider_kind_rank(probe.kind, request.prefer_hardware),
    zero_copy_rank(Capability(probe, request), request),
    SelectInSeq(IdOrder, LAMBDA i : i = id)>>

Less(left, right) ==
  \E i \in DOMAIN left : left[i] < right[i] /\ \A j \in 1..(i - 1) : left[j] = right[j]

------------------------------------------------------------------------------
(***************************************************************************)
(* The registry.                                                           *)
(***************************************************************************)
\* register_provider probes for the id, so a provider whose probe fails then
\* is not registered; nothing is after freeze
Register(p) ==
  /\ ~frozen
  /\ \E probe \in ProbesOf[p] : probe.status = "ok"
  /\ IdOf[p] \notin DOMAIN providers
  /\ providers' = [id \in DOMAIN providers \cup {IdOf[p]} |->
                     IF id = IdOf[p] THEN p ELSE providers[id]]
  /\ UNCHANGED <<frozen, selection>>

Freeze ==
  /\ frozen' = TRUE
  /\ UNCHANGED <<providers, selection>>

Candidates(probes, request) ==
  {id \in DOMAIN probes : probes[id].status = "ok"
                            /\ MatchStatus(probes[id], id, request) = "ok"}

Best(probes, request) ==
  CHOOSE id \in Candidates(probes, request) :
    \A other \in Candidates(probes, request) \ {id} :
      Less(Score(probes[id], id, request), Score(probes[other], other, request))

\* ProcessorSelection, EncoderSelection, or why there is none
Refused(status) == [provider |-> "none", result |-> Refusal(status)]
Served(probes, id, request) == [provider |-> id, result |-> Negotiate[request][probes[id]]]

\* select with a required provider: that one or none
Required(probes, request) ==
  LET id == request.required
  IN IF id \notin DOMAIN providers THEN Refused("not_found")
     ELSE IF probes[id].status # "ok" THEN Refused(probes[id].status)
     ELSE IF MatchStatus(probes[id], id, request) # "ok"
       THEN Refused(MatchStatus(probes[id], id, request))
     ELSE Served(probes, id, request)

\* and without: an exception out of any probe ends the selection
Chosen(probes, request) ==
  IF \E id \in DOMAIN probes : probes[id].status = "internal" THEN Refused("internal")
  ELSE IF Candidates(probes, request) = {} THEN Refused("mismatch")
  ELSE Served(probes, Best(probes, request), request)

\* the providers that a selection probes
Probed(request) ==
  IF request.required = "none" THEN DOMAIN providers
                               ELSE {request.required} \cap DOMAIN providers

Select(request) ==
  /\ \E probes \in [Probed(request) -> UNION {ProbesOf[p] : p \in Providers}] :
       /\ \A id \in DOMAIN probes : probes[id] \in ProbesOf[providers[id]]
       /\ LET outcome == IF request.required = "none" THEN Chosen(probes, request)
                                                      ELSE Required(probes, request)
          IN selection' = [request |-> request, probes |-> probes,
                           provider |-> outcome.provider, result |-> outcome.result]
  /\ UNCHANGED <<providers, frozen>>

------------------------------------------------------------------------------
(***************************************************************************)
(* Properties                                                              *)
(***************************************************************************)
Selected == selection.result.status = "ok"

\* What is asked of a selected provider comes in this order: it is earlier in
\* the list of preferred providers, it is nearer to hardware where that is
\* preferred, and where zero copy is preferred it needs no copy.
Outranks(id, other) ==
  LET request == selection.request
      Listed(i) == {n \in DOMAIN request.preferred : request.preferred[n] = i}
      Earlier(i, j) == Listed(i) # {} /\ \A n \in Listed(j) : \E m \in Listed(i) : m < n
      Nearer(i, j) ==
        LET kinds == <<selection.probes[i].kind, selection.probes[j].kind>>
        IN request.prefer_hardware
             /\ kinds \in {<<"hardware", "software">>, <<"hardware", "reference">>,
                           <<"software", "reference">>}
      Copies(i) == ~Negotiate[request][selection.probes[i]].zero_copy
      Leaner(i, j) == /\ request.prefer_zero_copy
                      /\ Negotiate[request][selection.probes[i]].status = "ok"
                      /\ Negotiate[request][selection.probes[j]].status = "ok"
                      /\ ~Copies(i) /\ Copies(j)
  IN \/ Earlier(id, other)
     \/ /\ ~Earlier(other, id)
        /\ Nearer(id, other) \/ (~Nearer(other, id) /\ Leaner(id, other))

\* No provider that could have served the request, and comes before the one
\* selected by the request's own preferences, is passed over.
BestSelected ==
  Selected /\ selection.request.required = "none" =>
    \A other \in Candidates(selection.probes, selection.request) :
      ~Outranks(other, selection.provider)

\* What was negotiated can be used as it is: laid out again it would not
\* change, because it is a valid format whose planes the selected capability
\* takes without a conversion, at any address that is aligned as every plane
\* requires; and what needs no conversion is what was offered, which is what
\* a request for zero copy gets.
NegotiatedIsUsable ==
  Selected =>
    LET request    == selection.request
        negotiated == selection.result
        capability == negotiated.capability
        Aligned(address, side) ==
          \A plane \in Range(Domain(capability, request, side).planes) : address % plane.address = 0
    IN /\ \A side \in DOMAIN negotiated.formats :
            /\ FormatStatus(negotiated.formats[side]) = "ok"
            /\ \A address \in Addresses : Aligned(address, side) =>
                 layout_matches(negotiated.formats[side], Domain(capability, request, side),
                                capability.widths[side], capability.heights[side], address)
       /\ ~negotiated.conversion =>
            \A side \in DOMAIN negotiated.formats :
              negotiated.formats[side] = request.sides[side].format
       /\ request.zero_copy => ~negotiated.conversion /\ negotiated.zero_copy
==============================================================================
