------------------------------ MODULE MCXcpDaqRun ------------------------------
(***************************************************************************)
(* List 1 samples, from ports and channels too; of its first ODT the       *)
(* second entry does not fit into a frame.  List 2 can be turned to STIM.  *)
(***************************************************************************)
EXTENDS XcpDaqRun

Of(ext, addr, len) == [ext |-> ext, addr |-> addr, len |-> len]

Sampling == << <<Of("MEMORY", 0, 1), Of("DEBUG", 0, 2)>>, <<Of("DIO_PORT", 1, 2), Of("DIO_CHAN", 0, 1)>> >>
Stimulated == << <<Of("MEMORY", 3, 2), Of("DIO_CHAN", 1, 1)>>, <<Of("MEMORY", 5, 1)>> >>
Ports == << <<Of("DIO_PORT", 2, 2)>> >>

Layouts == <<Sampling, Stimulated>>
PortLayouts == <<Ports>>

At(b, levels) == [mem |-> [a \in 0..5 |-> b + a], chan |-> [c \in 0..1 |-> b % 2], port |-> levels]
TwoStores == {At(0, (0 :> 513) @@ (1 :> 1027) @@ (2 :> 0)), At(7, (0 :> 65280) @@ (1 :> 255) @@ (2 :> 0))}
OneStore == {At(0, (0 :> 513) @@ (1 :> 1027) @@ (2 :> 0))}
================================================================================
