----------------------------- MODULE MCEventLoop -----------------------------
(***************************************************************************)
(* Three sources over four descriptors: two of one pipeline, the first with*)
(* two descriptors; the third shares a descriptor with the first.          *)
(***************************************************************************)
EXTENDS EventLoop

MCDescriptors == [video |-> <<1, 2>>, audio |-> <<3>>, shared |-> <<4, 2>>]
MCEvents == <<{"in"}, {"rdnorm"}, {"in", "pri"}, {"out"}>>
MCReady == <<{"in"}, {"in"}, {"in", "hup"}, {"err"}>>
MCPipelines == [video |-> "live", audio |-> "live", shared |-> "other"]
==============================================================================
