----------------------------- MODULE FramePool -----------------------------
(***************************************************************************)
(* What the trait PhysicalFrameAllocator promises its callers: a fixed set *)
(* of frames, each of which is available or handed out, never both.        *)
(***************************************************************************)
EXTENDS FiniteSets, Integers

CONSTANT Frame

VARIABLES available, taken

Init ==
  /\ available \in SUBSET Frame
  /\ taken = {}

\* Some available frame is handed out.
Take ==
  \E f \in available :
    /\ available' = available \ {f}
    /\ taken' = taken \cup {f}

\* A frame that was handed out comes back.
Give ==
  \E f \in taken :
    /\ available' = available \cup {f}
    /\ taken' = taken \ {f}

Spec == Init /\ [][Take \/ Give]_<<available, taken>>
=============================================================================
