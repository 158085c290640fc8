------------------------------- MODULE Startup -------------------------------
(***************************************************************************)
(* How the arguments of a new process get from the program that spawns it  *)
(* to the stack it starts on: spawn_process() of init and of the shell,    *)
(* syscall_process_spawn() of kernel-core/src/arch.rs, which copies them   *)
(* while the caller's address space is active, and                         *)
(* initialize_process_stack() of kernel-core/src/user.rs, which writes     *)
(* them when that of the new process is.                                   *)
(*                                                                         *)
(* A string is which one it is and how long it is.                         *)
(***************************************************************************)
EXTENDS Integers, Sequences, FiniteSetsExt

CONSTANTS
  MAX_ARGUMENTS,     \* 4: entries of init's pointers, the most the kernel reads
  BUFFER_LENGTH,     \* 32: bytes the caller has for an argument and its NUL
  ARGUMENT_LIMIT,    \* 64: bytes in which the kernel looks for the NUL
  WORD,              \* 8
  STACK_TOP,         \* stack_pointer + 8 of the new process
  Callers,           \* programs that spawn: "init" and "shell"
  PassedLengths,     \* lengths of the arguments they pass
  MaxPassed,         \* bound on their number
  NameLengths        \* lengths of the paths of programs

Text(string, length) == [string |-> string, length |-> length]
NUL == 0
Char(string, i) == 1000 * string + i + 1       \* above every address
Name(length) == Text(1, length)                \* the program's own path
PATH == Text(2, 3)                             \* "PATH=/bin"
PWD == Text(3, 2)                              \* "PWD=/"
Argument(i, length) == Text(3 + i, length)

\* What the strings and the vector may take of the stack, alignment included.
Needed(name_length) ==
  (name_length + 1) + (PATH.length + 1) + (PWD.length + 1) + BUFFER_LENGTH * MAX_ARGUMENTS
    + 2 * WORD + WORD * (MAX_ARGUMENTS + 7)

\* The stack is four pages of 4096 bytes, and paths have less than 64.
ASSUME StartupAssumption ==
  /\ MAX_ARGUMENTS \in Nat \ {0} /\ BUFFER_LENGTH \in Nat \ {0}
  /\ ARGUMENT_LIMIT \in Nat /\ ARGUMENT_LIMIT >= BUFFER_LENGTH
  /\ WORD \in Nat \ {0} /\ STACK_TOP \in Nat /\ STACK_TOP % (2 * WORD) = 0
  /\ Callers \subseteq {"init", "shell"}
  /\ PassedLengths \subseteq Nat /\ MaxPassed \in Nat /\ NameLengths \subseteq Nat
  /\ \A length \in NameLengths : Needed(length) <= STACK_TOP

NULL == 0
Wild == -1                \* a word that is no user address
Elsewhere == -2           \* a user address where some other string is
Passed == UNION {[1 .. n -> PassedLengths] : n \in 0 .. MaxPassed}

VARIABLES
  spawning,      \* where the call is: "idle", "copy", "strings", "vector", "started", "refused"
  given,         \* the program's path and the arguments its caller gave
  argv,          \* the words at the argv pointer, pointing to buffers; empty for 0
  buffers,       \* the caller's buffers
  arguments,     \* the kernel's copies
  stack,         \* the bytes of the new process's stack
  stack_pointer

startupVars == <<spawning, given, argv, buffers, arguments, stack, stack_pointer>>

StartupInit ==
  /\ spawning = "idle"
  /\ given = [name |-> Name(0), passed |-> <<>>]
  /\ argv = <<>> /\ buffers = <<>> /\ arguments = <<>>
  /\ stack = [a \in 0 .. (STACK_TOP - 1) |-> 0]
  /\ stack_pointer = STACK_TOP

-----------------------------------------------------------------------------
\* copy_from_slice() of what fits in a buffer with its NUL.
Truncated(text) == [text EXCEPT !.length = Min({@, BUFFER_LENGTH - 1})]

\* What the kernel may read of `pointers': init has an entry for every word the
\* kernel reads; the shell has one, and whatever is beyond it on the stack.
Pointers(caller, count, beyond) ==
  IF count = 0 THEN <<>>
  ELSE [i \in 1 .. MAX_ARGUMENTS |->
          IF i <= count THEN i ELSE IF caller = "init" THEN NULL ELSE beyond]

\* spawn_process() of either program; the shell passes one argument at most.
PassArguments(caller, name_length, lengths) ==
  /\ spawning = "idle" /\ spawning' = "copy"
  /\ caller = "shell" => Len(lengths) <= 1
  /\ LET passed == [i \in DOMAIN lengths |-> Argument(i, lengths[i])]
         taken == SubSeq(passed, 1, Min({Len(passed), MAX_ARGUMENTS}))
     IN /\ given' = [name |-> Name(name_length), passed |-> taken]
        /\ buffers' = [i \in DOMAIN taken |-> Truncated(taken[i])]
        /\ \E beyond \in {NULL, Wild, Elsewhere} :
             /\ caller = "init" => beyond = NULL
             /\ argv' = Pointers(caller, Len(taken), beyond)
  /\ UNCHANGED <<arguments, stack, stack_pointer>>

\* The string a word of argv points to, in the caller's memory.
Target(pointer) == IF pointer = Elsewhere THEN Text(0, 1) ELSE buffers[pointer]

\* syscall_process_spawn(): the words up to the first null one.
Ends == {i \in DOMAIN argv : argv[i] = NULL}
Count == IF Ends = {} THEN Len(argv) ELSE Min(Ends) - 1

CopyArguments ==
  /\ spawning = "copy"
  /\ IF \A i \in 1 .. Count : argv[i] # Wild /\ Target(argv[i]).length < ARGUMENT_LIMIT
     THEN /\ arguments' = [i \in 1 .. Count |-> Target(argv[i])]
          /\ spawning' = "strings"
     ELSE spawning' = "refused" /\ UNCHANGED arguments
  /\ UNCHANGED <<given, argv, buffers, stack, stack_pointer>>

-----------------------------------------------------------------------------
(***************************************************************************)
(* initialize_process_stack(): the strings from the top down, the last     *)
(* argument first, then the vector.                                        *)
(***************************************************************************)
Strings == <<PWD, PATH, given.name>> \o arguments

\* Mutation: no room for the NUL.
Starts_NoNul(strings) ==
  LET cursor[k \in 1 .. (Len(strings) + 1)] ==
        IF k > Len(strings) THEN STACK_TOP ELSE cursor[k + 1] - strings[k].length
  IN cursor

\* Where the strings are, each below the ones written before it.
Starts(strings) ==
  LET cursor[k \in 1 .. (Len(strings) + 1)] ==
        IF k > Len(strings) THEN STACK_TOP ELSE cursor[k + 1] - (strings[k].length + 1)
  IN cursor

StringStart(k) == Starts(Strings)[k]

StringByte(k, a) ==
  IF a = StringStart(k) + Strings[k].length THEN NUL
  ELSE Char(Strings[k].string, a - StringStart(k))

\* The string written last that covers a byte is the lowest.
WriteStrings ==
  /\ spawning = "strings" /\ spawning' = "vector"
  /\ stack' =
       [a \in DOMAIN stack |->
          LET covering == {k \in DOMAIN Strings :
                             StringStart(k) <= a /\ a <= StringStart(k) + Strings[k].length}
          IN IF covering = {} THEN stack[a] ELSE StringByte(Min(covering), a)]
  /\ stack_pointer' = StringStart(1)
  /\ UNCHANGED <<given, argv, buffers, arguments>>

\* argc, argv, null, envp, null and the padding word, upwards; every byte of a
\* word is shown as the word.
StartupVector ==
  <<Len(Strings) - 2>> \o [i \in 1 .. (Len(Strings) - 2) |-> StringStart(i + 2)]
    \o <<NULL, StringStart(2), StringStart(1), NULL, 0>>

WriteVector ==
  /\ spawning = "vector" /\ spawning' = "started"
  /\ LET top == (stack_pointer \div (2 * WORD)) * (2 * WORD)
         bottom == top - WORD * Len(StartupVector)
     IN /\ stack' = [a \in DOMAIN stack |->
                       IF bottom <= a /\ a < top
                       THEN StartupVector[(a - bottom) \div WORD + 1] ELSE stack[a]]
        /\ stack_pointer' = bottom
  /\ UNCHANGED <<given, argv, buffers, arguments>>

\* The process runs, or the call has failed.
StartupDone ==
  /\ spawning \in {"started", "refused"}
  /\ UNCHANGED startupVars

StartupNext ==
  \/ \E caller \in Callers, length \in NameLengths, lengths \in Passed :
        PassArguments(caller, length, lengths)
  \/ CopyArguments \/ WriteStrings \/ WriteVector \/ StartupDone

StartupSpec == StartupInit /\ [][StartupNext]_startupVars

-----------------------------------------------------------------------------
\* What a program sees: word i from its stack pointer, and whether a pointer is
\* to a string.
WordAt(i) == stack[stack_pointer + WORD * i]
Intact(i) == \A b \in 0 .. (WORD - 1) : stack[stack_pointer + WORD * i + b] = WordAt(i)
IsString(pointer, text) ==
  /\ \A i \in 0 .. (text.length - 1) : stack[pointer + i] = Char(text.string, i)
  /\ stack[pointer + text.length] = NUL

\* A program that starts finds its own path and the arguments its caller passed
\* (the first MAX_ARGUMENTS), in order and nothing else, each as much of it as
\* fits in the caller's buffer, then its environment; and no string runs into another or
\* into the vector, whatever their number and lengths.  init gets this right;
\* the shell's list of pointers has no end.
ArgumentsDelivered ==
  spawning = "started" =>
    LET count == Len(given.passed)
    IN /\ \A i \in 0 .. (count + 6) : Intact(i)
       /\ WordAt(0) = count + 1
       /\ IsString(WordAt(1), given.name)
       /\ \A i \in 1 .. count : IsString(WordAt(i + 1), Truncated(given.passed[i]))
       /\ WordAt(count + 2) = NULL
       /\ IsString(WordAt(count + 3), PATH) /\ IsString(WordAt(count + 4), PWD)
       /\ WordAt(count + 5) = NULL
=============================================================================
