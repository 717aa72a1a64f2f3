--------------------------- MODULE MCMemorySteps ----------------------------
(***************************************************************************)
(* A small instance of MemorySteps: 40 words, of which 4 to 24 may be      *)
(* allocated.  The regions are listed out of order, so that the gap below  *)
(* one of them is in the way of another, and the last wraps, so that it    *)
(* never is in the way.                                                    *)
(***************************************************************************)
EXTENDS MemorySteps

UnorderedRegions ==
    <<[Start |-> 22, Length |-> 1], [Start |-> 14, Length |-> 3],
      [Start |-> 19, Length |-> 0], [Start |-> 36, Length |-> 8]>>
=============================================================================
