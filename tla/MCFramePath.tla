----------------------------- MODULE MCFramePath -----------------------------
(***************************************************************************)
(* Three provider ids, one of them reported by two objects, over pictures  *)
(* of four by two pixels in a memory of 128 bytes: enough for planes that  *)
(* fit, that have to be laid out again, and that then no longer fit.       *)
(***************************************************************************)
EXTENDS FramePath

Plane(offset, size, stride) == [offset |-> offset, size |-> size, stride |-> stride]
Picture(pixel, width, height, planes) ==
  [pixel |-> pixel, memory |-> "cpu", width |-> width, height |-> height, planes |-> planes]

Nv12    == Picture("nv12", 4, 2, <<Plane(0, 8, 4), Plane(8, 4, 4)>>)
Spaced  == Picture("nv12", 4, 2, <<Plane(0, 24, 8), Plane(24, 24, 8)>>)
Shifted == Picture("nv12", 4, 2, <<Plane(2, 24, 8), Plane(36, 24, 8)>>)
Skewed  == Picture("nv12", 4, 2, <<Plane(0, 24, 8), Plane(30, 24, 8)>>)
Yuv420p == Picture("yuv420p", 4, 2, <<Plane(0, 8, 4), Plane(8, 2, 2), Plane(10, 2, 2)>>)
Rgb24   == Picture("rgb24", 4, 2, <<Plane(0, 24, 12)>>)
Upright == Picture("rgb24", 2, 4, <<Plane(0, 24, 6)>>)
Yuyv    == Picture("yuyv422", 2, 2, <<Plane(4, 8, 4)>>)

\* a domain that puts the same constraints on each plane of a pixel format
On(pixel, stride, offset, size, address) ==
  [pixel |-> pixel, memory |-> "cpu",
   planes |-> [i \in DOMAIN PixelFormats[pixel] |->
     PixelFormats[pixel][i] @@ [stride |-> stride, offset |-> offset, size |-> size,
                                address |-> address]]]
Loose(pixel) == On(pixel, 1, 1, 1, 1)

Whole   == [minimum |-> 1, maximum |-> 8, step |-> 1, alignment |-> 1]
Stored8 == [minimum |-> 2, maximum |-> 8, step |-> 2, alignment |-> 8]
Stored2 == [minimum |-> 2, maximum |-> 4, step |-> 2, alignment |-> 2]
TooWide == [minimum |-> 2, maximum |-> 6, step |-> 2, alignment |-> 4]

Processor(width, domains, operations, zero_copy, identical) ==
  [kind |-> "processor", widths |-> <<width, width>>, heights |-> <<Whole, Whole>>,
   domains |-> <<domains, domains>>, operations |-> operations,
   zero_copy |-> zero_copy, identical |-> identical]
Encoder(width, domains, zero_copy) ==
  [kind |-> "encoder", widths |-> <<width>>, heights |-> <<Stored2>>, domains |-> <<domains>>,
   modes |-> {"main"}, zero_copy |-> zero_copy]

Aligned == On("nv12", 8, 6, 4, 4)   \* planes at multiples of 12
Large   == On("yuv420p", 4, 4, 64, 4)

Answer(kind, capabilities) ==
  [status |-> "ok", available |-> "ok", kind |-> kind, capabilities |-> capabilities]
Away == [status |-> "ok", available |-> "unavailable", kind |-> "hardware", capabilities |-> <<>>]
Broken(status) == [status |-> status]

Hardware == Answer("hardware",
  <<Processor(Stored8, <<Aligned, On("rgb24", 4, 4, 8, 8)>>, {"conversion", "rotation"}, TRUE, FALSE),
    Encoder(Stored8, <<Aligned, Large>>, TRUE)>>)
Software == Answer("software",
  <<Encoder(TooWide, <<Loose("nv12")>>, FALSE),
    Processor(Whole, <<Loose("rgb24"), Loose("nv12"), Loose("yuyv422")>>, Operations, FALSE, FALSE),
    Encoder(Whole, <<On("nv12", 4, 1, 2, 2), Loose("yuv420p")>>, TRUE)>>)
Reference == Answer("reference",
  <<Processor(Whole, <<Loose("rgb24"), Loose("nv12")>>, {}, TRUE, TRUE),
    Encoder(Whole, <<Loose("nv12"), Loose("yuv420p")>>, TRUE)>>)

MCIdOf     == [mpp |-> "hard", rga |-> "hard", soft |-> "soft", ref |-> "ref"]
MCIdOrder  == <<"hard", "ref", "soft">>
MCProbesOf ==
  [mpp |-> {Hardware, Away, Broken("failed")}, rga |-> {Hardware},
   soft |-> {Software, Broken("internal")}, ref |-> {Reference}]

Asked(kind, sides) ==
  [kind |-> kind, sides |-> sides, zero_copy |-> FALSE, required |-> "none", preferred |-> <<>>,
   prefer_hardware |-> FALSE, prefer_zero_copy |-> FALSE]
Side(format, address) == [format |-> format, address |-> address]
Encode(format, address) ==
  Asked("encoder", <<Side(format, address)>>)
    @@ [mode |-> "main", width |-> format.width, height |-> format.height]
Convert(input, address, output, rotation) ==
  Asked("processor", <<Side(input, address), Side(output, 8)>>)
    @@ [operations |-> {}, rotation |-> rotation,
        crop |-> [x |-> 0, y |-> 0, width |-> input.width, height |-> input.height]]

Plain ==
  {Encode(f, a) : f \in {Nv12, Spaced, Shifted, Skewed, Yuv420p}, a \in {0, 4}}
    \cup {Convert(Nv12, 2, Rgb24, 0), Convert(Rgb24, 8, Upright, 90), Convert(Spaced, 4, Spaced, 0),
          Convert(Spaced, 4, Rgb24, 0),
          Convert(Yuyv, 4, Rgb24, 0), Convert(Rgb24, 8, Rgb24, 0)}
    \cup {[Convert(Rgb24, 1, Rgb24, 0) EXCEPT !.crop.width = 2],
          [Encode(Nv12, 4) EXCEPT !.mode = "high"]}

MCRequests ==
  Plain \cup
  {[r EXCEPT !.zero_copy = TRUE] : r \in Plain} \cup
  {[r EXCEPT !.prefer_hardware = TRUE] : r \in Plain} \cup
  {[r EXCEPT !.prefer_zero_copy = TRUE] : r \in Plain} \cup
  {[r EXCEPT !.preferred = <<"soft", "ref">>, !.prefer_hardware = TRUE] : r \in Plain} \cup
  {[r EXCEPT !.required = id] : r \in Plain, id \in {"hard", "soft"}}

\* a layout that is taken as it is, one that is converted, and one at an offset
MCFramed ==
  {[r EXCEPT !.required = "hard"] : r \in {Encode(Spaced, 4), Encode(Skewed, 4)}}
    \cup {[Encode(Shifted, 4) EXCEPT !.required = "soft"]}

Symmetry == Permutations(Regions)
==============================================================================
