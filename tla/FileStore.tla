----------------------------- MODULE FileStore -----------------------------
(***************************************************************************)
(* What the RAM file system promises: files with distinct names that are   *)
(* created empty, never go away and never shrink.  A write replaces the    *)
(* bytes from an offset on and may leave a hole, which reads as zeros.     *)
(***************************************************************************)
EXTENDS Integers, Sequences, FiniteSets

CONSTANTS FileName, Byte, MaxFiles, MaxSize

VARIABLE store    \* a function from the names of the files to their bytes

Init == store = [n \in {} |-> <<>>]

Create(name) ==
  /\ name \notin DOMAIN store
  /\ Cardinality(DOMAIN store) < MaxFiles
  /\ store' = [n \in DOMAIN store \cup {name} |-> IF n = name THEN <<>> ELSE store[n]]

Overwritten(old, offset, bytes) ==
  LET end == offset + Len(bytes)
  IN [i \in 1 .. (IF end > Len(old) THEN end ELSE Len(old)) |->
        IF offset < i /\ i <= end THEN bytes[i - offset]
        ELSE IF i <= Len(old) THEN old[i] ELSE 0]

Write(name, offset, bytes) ==
  /\ name \in DOMAIN store
  /\ offset + Len(bytes) <= MaxSize
  /\ store' = [store EXCEPT ![name] = Overwritten(@, offset, bytes)]

Next ==
  \E name \in FileName :
    \/ Create(name)
    \/ \E offset \in 0 .. MaxSize, length \in 0 .. MaxSize :
         \E bytes \in [1 .. length -> Byte] : Write(name, offset, bytes)

Spec == Init /\ [][Next]_store
=============================================================================
