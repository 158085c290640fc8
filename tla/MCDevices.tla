----------------------------- MODULE MCDevices -----------------------------
(***************************************************************************)
(* An instance of the terminals and the drivers for TLC.  They have no     *)
(* state in common, so each behaviour runs one of them and leaves the      *)
(* others at their initial states.                                         *)
(***************************************************************************)
EXTENDS Ring, Pty, Console, Sata, VirtioRandom

VARIABLE part

parts == <<ringVars, ptyVars, consoleVars, sataVars, randomVars>>

DevicesInit ==
  /\ part \in 1 .. 5
  /\ RingInit /\ PtyInit /\ ConsoleInit /\ SataInit /\ RandomInit
  /\ part # 1 => buffer = [i \in Index |-> 0]
  /\ part # 3 => MULTI_TTY_ENABLED
  /\ part # 5 => port

DevicesNext ==
  \/ part = 1 /\ RingNext /\ UNCHANGED <<part, ptyVars, consoleVars, sataVars, randomVars>>
  \/ part = 2 /\ PtyNext /\ UNCHANGED <<part, ringVars, consoleVars, sataVars, randomVars>>
  \/ part = 3 /\ ConsoleNext /\ UNCHANGED <<part, ringVars, ptyVars, sataVars, randomVars>>
  \/ part = 4 /\ SataNext /\ UNCHANGED <<part, ringVars, ptyVars, consoleVars, randomVars>>
  \/ part = 5 /\ RandomNext /\ UNCHANGED <<part, ringVars, ptyVars, consoleVars, sataVars>>

DevicesSpec == DevicesInit /\ [][DevicesNext]_<<part, parts>>
=============================================================================
