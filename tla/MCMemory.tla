------------------------------ MODULE MCMemory ------------------------------
(***************************************************************************)
(* TLC instance of Memory: a stack of two bitmap words, accesses at the    *)
(* ends of the stack, across the words and around the end of every region. *)
(***************************************************************************)
EXTENDS Memory

\* All bytes differ, so that no shifted or truncated store goes unseen.
MCWords == {[i \in 0..7 |-> 10 + i]}

MCPayloads == {<<2, 3>>}

MCAddrs ==
    {Low - 1, Low + 62, Low + 63, StackBase - 1,
     PacketBase, MapScratchBase + 1, XdpMdBase + 4, RodataBase}
=============================================================================
