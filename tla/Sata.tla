-------------------------------- MODULE Sata --------------------------------
(***************************************************************************)
(* The AHCI driver of kernel-core/src/sata.rs and the disk behind it.      *)
(*                                                                         *)
(* A system call runs with interrupts masked, so one command is issued at  *)
(* a time, but the controller runs beside the CPU: it reads the command    *)
(* table and writes the data buffer when it likes, also after the driver   *)
(* has given up.  Table, buffer and status registers are shared, and the   *)
(* steps of the driver are those that touch them in another order than the *)
(* controller could tell apart.                                            *)
(*                                                                         *)
(* The driver only reads, so a sector's data is named by the command that  *)
(* asks for it.                                                            *)
(***************************************************************************)
EXTENDS Integers, FiniteSets

CONSTANTS
  Command,       \* ATA_IDENTIFY, and ATA_READ_DMA_EXT of each sector
  NoCommand      \* a zeroed table, and a zeroed buffer

ASSUME SataAssumption == NoCommand \notin Command

VARIABLES
  controller,    \* CONTROLLER is Some
  call,          \* where the driver is, the command it was called for
  outcome,       \* what the last call returned
  command_table, \* the command in the command table
  data_buffer,   \* whose data the data buffer holds
  issued,        \* PORT_CI, bit 0
  busy,          \* PORT_TFD, BSY or DRQ
  err,           \* PORT_TFD, ERR
  disk,          \* what the controller does, and the command it does it for
  abandoned      \* commands the driver has stopped waiting for

sataVars == <<controller, call, outcome, command_table, data_buffer, issued, busy, err, disk, abandoned>>
driverVars == <<controller, call, outcome, abandoned>>
diskVars == <<issued, busy, err, disk>>

NoCall == [at |-> "idle", command |-> NoCommand]
SataReturned(status, command, data) == [status |-> status, command |-> command, data |-> data]
NoOutcome == SataReturned("none", NoCommand, NoCommand)

SataInit ==
  /\ controller = FALSE
  /\ call = NoCall
  /\ outcome = NoOutcome
  /\ command_table = NoCommand /\ data_buffer = NoCommand
  /\ issued = FALSE /\ busy = FALSE /\ err = FALSE
  /\ disk = [at |-> "boot", command |-> NoCommand]
  /\ abandoned = {}

-----------------------------------------------------------------------------
(***************************************************************************)
(* The driver.                                                             *)
(***************************************************************************)

\* initialize_controller(): the first port with a disk decides.  When the frames
\* for it run out, or it cannot be stopped, no other is tried, and the frames
\* taken until then are lost: this module does not count frames.
Ports == 1 .. 2    \* as many as it takes for one to come before another
PortState == {"no_disk", "no_frames", "not_stopped", "ready"}
PortFound ==
  {\E port \in Ports : /\ ports[port] = "ready"
                      /\ \A other \in Ports : other < port => ports[other] = "no_disk" :
     ports \in [Ports -> PortState]}

\* initialize(), once, in boot(): without such a port CONTROLLER stays empty;
\* otherwise table and buffer are zeroed frames and the port is started.
SataInitialize ==
  /\ disk.at = "boot"
  /\ \E found \in PortFound :
       /\ controller' = found
       /\ disk' = [disk EXCEPT !.at = IF found THEN "idle" ELSE "absent"]
  /\ UNCHANGED <<call, outcome, command_table, data_buffer, issued, busy, err, abandoned>>

SataReturn(status, data) ==
  /\ call' = NoCall
  /\ outcome' = SataReturned(status, call.command, data)

\* identify(), read_first_sector() and read_sector() without a controller.
SataNotFound(command) ==
  /\ disk.at = "absent" /\ ~ controller
  /\ outcome' = SataReturned("NotFound", command, NoCommand)
  /\ UNCHANGED <<controller, call, command_table, data_buffer, diskVars, abandoned>>

\* With one they call issue_command().
SataCall(command) ==
  /\ controller /\ call = NoCall
  /\ call' = [at |-> "ready?", command |-> command]
  /\ outcome' = NoOutcome
  /\ UNCHANGED <<controller, command_table, data_buffer, diskVars, abandoned>>

\* wait_for() that gives up: before the command is issued, or after.
SataTimeout ==
  /\ \/ call.at = "ready?" /\ UNCHANGED abandoned
     \/ call.at = "done?" /\ abandoned' = abandoned \cup {call.command}
  /\ SataReturn("Timeout", NoCommand)
  /\ UNCHANGED <<controller, command_table, data_buffer, diskVars>>

\* The port is ready: table and buffer are zeroed.
SataPrepare ==
  /\ call.at = "ready?" /\ ~ busy
  /\ call' = [call EXCEPT !.at = "build"]
  /\ command_table' = NoCommand /\ data_buffer' = NoCommand
  /\ UNCHANGED <<controller, outcome, diskVars, abandoned>>

\* The command header, table and region descriptor are written.
SataBuild ==
  /\ call.at = "build"
  /\ call' = [call EXCEPT !.at = "issue"]
  /\ command_table' = call.command
  /\ UNCHANGED <<controller, outcome, data_buffer, diskVars, abandoned>>

\* PORT_CI is written.
SataIssue ==
  /\ call.at = "issue"
  /\ call' = [call EXCEPT !.at = "done?"]
  /\ issued' = TRUE
  /\ UNCHANGED <<controller, outcome, command_table, data_buffer, busy, err, disk, abandoned>>

\* Mutation: ERR is not looked at.
SataComplete_IgnoresErr ==
  /\ call.at = "done?" /\ ~ issued
  /\ SataReturn("Ok", data_buffer)
  /\ UNCHANGED <<controller, command_table, data_buffer, diskVars, abandoned>>

\* PORT_CI is clear: ERR decides, and a success reads the buffer.
SataComplete ==
  /\ call.at = "done?" /\ ~ issued
  /\ IF err THEN SataReturn("DeviceError", NoCommand) ELSE SataReturn("Ok", data_buffer)
  /\ UNCHANGED <<controller, command_table, data_buffer, diskVars, abandoned>>

-----------------------------------------------------------------------------
(***************************************************************************)
(* The controller and the disk (hardware).  They take an issued command    *)
(* from the table, are busy while they work on it, write the buffer, post  *)
(* their status and clear PORT_CI, one after the other.                    *)
(***************************************************************************)
DiskFetch ==
  /\ disk.at = "idle" /\ issued
  /\ disk' = [at |-> "working", command |-> command_table]
  /\ busy' = TRUE /\ err' = FALSE
  /\ UNCHANGED <<driverVars, command_table, data_buffer, issued>>

DiskTransfer ==
  /\ disk.at = "working" /\ disk.command # NoCommand
  /\ data_buffer' = disk.command
  /\ disk' = [disk EXCEPT !.at = "written"]
  /\ UNCHANGED <<driverVars, command_table, issued, busy, err>>

DiskStatus ==
  /\ disk.at = "written"
  /\ disk' = [disk EXCEPT !.at = "finishing"]
  /\ busy' = FALSE
  /\ UNCHANGED <<driverVars, command_table, data_buffer, issued, err>>

\* A command that fails, or that makes no sense, is not transferred.
DiskError ==
  /\ disk.at = "working"
  /\ disk' = [disk EXCEPT !.at = "finishing"]
  /\ busy' = FALSE /\ err' = TRUE
  /\ UNCHANGED <<driverVars, command_table, data_buffer, issued>>

DiskFinish ==
  /\ disk.at = "finishing"
  /\ disk' = [at |-> "idle", command |-> NoCommand]
  /\ issued' = FALSE
  /\ UNCHANGED <<driverVars, command_table, data_buffer, busy, err>>

\* After an error a controller may also stop, with PORT_CI set.
DiskStops ==
  /\ disk.at = "finishing" /\ err
  /\ disk' = [at |-> "stopped", command |-> NoCommand]
  /\ UNCHANGED <<driverVars, command_table, data_buffer, issued, busy, err>>

SataNext ==
  \/ SataInitialize \/ SataTimeout \/ SataPrepare \/ SataBuild \/ SataIssue \/ SataComplete
  \/ DiskFetch \/ DiskTransfer \/ DiskStatus \/ DiskError \/ DiskFinish \/ DiskStops
  \/ \E command \in Command : SataCall(command) \/ SataNotFound(command)

SataSpec == SataInit /\ [][SataNext]_sataVars

-----------------------------------------------------------------------------
\* A read that succeeds returns the sector it asked for.  After a timeout the
\* disk may still answer the command that was given up, and a later read may
\* return that answer or the zeroed buffer, but never the data of a command that
\* was neither asked for now nor given up before.
ReadsWhatItAsked ==
  outcome.status = "Ok" =>
    outcome.data \in {outcome.command}
                       \cup (IF abandoned = {} THEN {} ELSE abandoned \cup {NoCommand})
=============================================================================
