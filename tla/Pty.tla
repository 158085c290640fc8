-------------------------------- MODULE Pty --------------------------------
(***************************************************************************)
(* The pseudo-terminals of kernel-core/src/pty.rs and the console binding  *)
(* of each process (ConsoleTarget in user.rs) that routes its console      *)
(* calls to a terminal or to the slave end of a pty.                       *)
(*                                                                         *)
(* A ring is the sequence of the bytes that wait in it; module Ring shows  *)
(* that the ring buffer of the code implements that.  A byte stands for    *)
(* the session of the pty it was written in: open() number `session' of a  *)
(* pty starts that session.                                                *)
(***************************************************************************)
EXTENDS RingCapacity, Sequences, FiniteSets, FiniteSetsExt

CONSTANTS
  PTY_COUNT,
  MaxPid,         \* pids in use
  MaxSessions     \* bound on the number of open() calls per pty

ASSUME PtyAssumption ==
  /\ PTY_COUNT \in Nat
  /\ MaxPid \in Nat \ {0} /\ MaxSessions \in Nat

PtyIds == 0 .. (PTY_COUNT - 1)
Pids == 1 .. MaxPid
NoOwner == 0
Tty == PTY_COUNT        \* ConsoleTarget::Tty(_): any terminal

VARIABLES
  ptys,        \* PTYS
  console,     \* PROCESS_STATE[pid - 1].console, a pty or Tty
  session      \* sessions the pty has had

ptyVars == <<ptys, console, session>>

\* Pty::EMPTY
NoPty == [allocated |-> FALSE, owner |-> NoOwner, to_master |-> <<>>, to_slave |-> <<>>]

PtyInit ==
  /\ ptys = [id \in PtyIds |-> NoPty]
  /\ console = [p \in Pids |-> Tty]
  /\ session = [id \in PtyIds |-> 0]

-----------------------------------------------------------------------------
\* Mutation: the ring is not emptied.
Reset_Nothing(ring) == ring

\* Ring::reset()
Reset(ring) == <<>>

\* Ring::push() of n bytes of session s until one does not fit, and
\* Ring::pop() of up to n bytes.
PushAll(ring, n, s) ==
  ring \o [i \in 1 .. Min({n, RING_CAPACITY - Len(ring)}) |-> s]
PopUpTo(ring, n) == SubSeq(ring, Min({n, Len(ring)}) + 1, Len(ring))

Owns(p, id) == ptys[id].allocated /\ ptys[id].owner = p

\* open(): the first entry that is not allocated.
Open(p) ==
  /\ \E id \in PtyIds : ~ ptys[id].allocated
  /\ LET id == Min({i \in PtyIds : ~ ptys[i].allocated})
     IN /\ session[id] < MaxSessions
        /\ ptys' = [ptys EXCEPT ![id] =
                      [allocated |-> TRUE, owner |-> p,
                       to_master |-> Reset(@.to_master), to_slave |-> Reset(@.to_slave)]]
        /\ session' = [session EXCEPT ![id] = @ + 1]
  /\ UNCHANGED console

\* close(); by a process that does not own the pty it returns false.
Close(p, id) ==
  /\ Owns(p, id)
  /\ ptys' = [ptys EXCEPT ![id] =
                [allocated |-> FALSE, owner |-> NoOwner,
                 to_master |-> Reset(@.to_master), to_slave |-> Reset(@.to_slave)]]
  /\ UNCHANGED <<console, session>>

\* read_master() and write_master() with a buffer of n bytes.
ReadMaster(p, id, n) ==
  /\ Owns(p, id)
  /\ ptys' = [ptys EXCEPT ![id].to_master = PopUpTo(@, n)]
  /\ UNCHANGED <<console, session>>

WriteMaster(p, id, n) ==
  /\ Owns(p, id)
  /\ ptys' = [ptys EXCEPT ![id].to_slave = PushAll(@, n, session[id])]
  /\ UNCHANGED <<console, session>>

\* syscall_pty_attach_slave(): any process may attach to any allocated pty.
AttachSlave(p, id) ==
  /\ ptys[id].allocated
  /\ console' = [console EXCEPT ![p] = id]
  /\ UNCHANGED <<ptys, session>>

\* bind_tty().  It is also all that happens here when the process ends and
\* user::spawn() gives its pid to another one: the new process starts on
\* terminal 0, and the ptys of the old one stay open under its pid.
BindTty(p) ==
  /\ console' = [console EXCEPT ![p] = Tty]
  /\ UNCHANGED <<ptys, session>>

\* The console calls of a process bound to a pty: slave_write() of n bytes and
\* slave_poll_key().  Nothing happens when the pty is not allocated.
SlaveWrite(p, n) ==
  /\ console[p] # Tty
  /\ ptys[console[p]].allocated
  /\ ptys' = [ptys EXCEPT ![console[p]].to_master = PushAll(@, n, session[console[p]])]
  /\ UNCHANGED <<console, session>>

SlavePollKey(p) ==
  /\ console[p] # Tty
  /\ ptys[console[p]].allocated
  /\ ptys' = [ptys EXCEPT ![console[p]].to_slave = PopUpTo(@, 1)]
  /\ UNCHANGED <<console, session>>

PtyNext ==
  \E p \in Pids :
    \/ Open(p) \/ BindTty(p) \/ SlavePollKey(p)
    \/ \E id \in PtyIds : Close(p, id) \/ AttachSlave(p, id)
    \/ \E n \in 1 .. RING_CAPACITY :
         \/ SlaveWrite(p, n)
         \/ \E id \in PtyIds : ReadMaster(p, id, n) \/ WriteMaster(p, id, n)

PtySpec == PtyInit /\ [][PtyNext]_ptyVars

-----------------------------------------------------------------------------
\* Whoever opens a pty finds it empty and only ever sees bytes written while
\* it is open: nothing left by an earlier owner, by a slave that is still
\* bound to it, or by a write that raced with the close gets through.
FreshSession ==
  \A id \in PtyIds :
    ptys[id].allocated =>
      \A i \in 1 .. RING_CAPACITY :
        /\ i <= Len(ptys[id].to_master) => ptys[id].to_master[i] = session[id]
        /\ i <= Len(ptys[id].to_slave) => ptys[id].to_slave[i] = session[id]
=============================================================================
