---------------------------- MODULE VirtioRandom ----------------------------
(***************************************************************************)
(* Random numbers: kernel-core/src/random.rs with the legacy virtio queue  *)
(* it shares with the entropy device.                                      *)
(*                                                                         *)
(* The driver always uses descriptor 0 and one buffer page, waits for one  *)
(* answer at a time, and does not take a request back when it stops        *)
(* waiting.  The device runs beside the CPU.  A byte is named by the       *)
(* answer it was written for; Untouched is what the page held before.      *)
(***************************************************************************)
EXTENDS Integers, Sequences

CONSTANTS
  PAGE_BYTES,        \* bytes of the buffer page, the longest request (4096)
  VIRTIO_RING_SIZE,
  IndexValues,       \* 2^16, the number of values of a ring index
  MaxRequests        \* bound on the requests of a behaviour

ASSUME VirtioRandomAssumption ==
  /\ PAGE_BYTES \in Nat \ {0} /\ VIRTIO_RING_SIZE \in Nat \ {0}
  /\ IndexValues \in Nat \ {0} /\ IndexValues % VIRTIO_RING_SIZE = 0
  /\ MaxRequests \in Nat

RingSlots == 0 .. (VIRTIO_RING_SIZE - 1)
Untouched == 0
Hardware == -1         \* a byte of rdseed or rdrand

VARIABLES
  port,              \* VIRTIO_PORT is set
  fill,              \* where fill() is, its length, the bytes copied so far
  descriptor,        \* the length in descriptor 0
  available_index,   \* index of the available ring, and VIRTIO_AVAILABLE_INDEX
  used_index,        \* VIRTIO_USED_INDEX
  used,              \* the used ring: its index, and the lengths in it
  page,              \* the answer each byte of the buffer page is from
  device,            \* what the device does, the next index it takes, a length
  requests, answers, \* how many the driver has made, the device has written
  filled,            \* what the last call of fill() returned
  handedOut,         \* the bytes earlier calls returned, as <<answer, offset>>
  timedOut           \* some request has timed out

memory == <<descriptor, available_index, used, page>>
history == <<handedOut, timedOut>>
randomVars == <<port, fill, memory, used_index, device, requests, answers, filled, history>>

Idle == [at |-> "idle", length |-> 0, output |-> <<>>]
Nothing == [ok |-> FALSE, output |-> <<>>]
FromDevice(output) ==
  {<<output[i], i>> : i \in DOMAIN output} \ {<<Hardware, i>> : i \in DOMAIN output}

\* initialize(): no device, an unsuitable queue or no two adjacent frames leave
\* the port at zero; otherwise the rings are zeroed, and the buffer is not.
RandomInit ==
  /\ port \in BOOLEAN
  /\ fill = Idle
  /\ descriptor = 0 /\ available_index = 0 /\ used_index = 0
  /\ used = [index |-> 0, length |-> [slot \in RingSlots |-> 0]]
  /\ page = [i \in 1 .. PAGE_BYTES |-> Untouched]
  /\ device = [at |-> "waiting", next |-> 0, length |-> 0]
  /\ requests = 0 /\ answers = 0
  /\ filled = Nothing
  /\ handedOut = {} /\ timedOut = FALSE

-----------------------------------------------------------------------------
(***************************************************************************)
(* The driver, called by syscall_getrandom() with interrupts masked.       *)
(***************************************************************************)

\* fill() of a number of bytes.
Fill(length) ==
  /\ fill.at = "idle" /\ requests < MaxRequests
  /\ fill' = [at |-> IF port THEN "describe" ELSE "hardware",
              length |-> length, output |-> <<>>]
  /\ requests' = requests + 1
  /\ filled' = Nothing
  /\ handedOut' = handedOut \cup FromDevice(filled.output)
  /\ UNCHANGED <<port, memory, used_index, device, answers, timedOut>>

\* fill() of no bytes.
FillNothing ==
  /\ fill.at = "idle"
  /\ filled' = [ok |-> TRUE, output |-> <<>>]
  /\ handedOut' = handedOut \cup FromDevice(filled.output)
  /\ UNCHANGED <<port, fill, memory, used_index, device, requests, answers, timedOut>>

Finish(ok, output) ==
  /\ fill' = Idle
  /\ filled' = [ok |-> ok, output |-> output]

\* fill_virtio(): the descriptor and the entry of the available ring, then its
\* index, and the notification.
Describe ==
  /\ fill.at = "describe"
  /\ descriptor' = fill.length
  /\ fill' = [fill EXCEPT !.at = "offer"]
  /\ UNCHANGED <<port, available_index, used_index, used, page, device,
                 requests, answers, filled, history>>

Offer ==
  /\ fill.at = "offer"
  /\ available_index' = (available_index + 1) % IndexValues
  /\ fill' = [fill EXCEPT !.at = "poll"]
  /\ UNCHANGED <<port, descriptor, used_index, used, page, device,
                 requests, answers, filled, history>>

\* Mutation: the driver's index of the used ring stays behind.
Poll_KeepsIndex ==
  /\ fill.at = "poll" /\ used.index # used_index
  /\ fill' = [fill EXCEPT
       !.at = IF used.length[used_index % VIRTIO_RING_SIZE] < fill.length
              THEN "hardware" ELSE "copy"]
  /\ UNCHANGED <<port, memory, used_index, device, requests, answers, filled, history>>

\* Mutation: the length of the answer is not looked at.
Poll_AnyLength ==
  /\ fill.at = "poll" /\ used.index # used_index
  /\ used_index' = (used_index + 1) % IndexValues
  /\ fill' = [fill EXCEPT !.at = "copy"]
  /\ UNCHANGED <<port, memory, device, requests, answers, filled, history>>

\* The used ring has moved on.  An answer that is too short is an error, and
\* fill_hardware() overwrites what was copied of it.
Poll ==
  /\ fill.at = "poll" /\ used.index # used_index
  /\ used_index' = (used_index + 1) % IndexValues
  /\ fill' = [fill EXCEPT
       !.at = IF used.length[used_index % VIRTIO_RING_SIZE] < fill.length
              THEN "hardware" ELSE "copy"]
  /\ UNCHANGED <<port, memory, device, requests, answers, filled, history>>

\* A million polls have seen no answer; the request stays with the device.
PollTimesOut ==
  /\ fill.at = "poll" /\ used.index = used_index
  /\ fill' = [fill EXCEPT !.at = "hardware"]
  /\ timedOut' = TRUE
  /\ UNCHANGED <<port, memory, used_index, device, requests, answers, filled, handedOut>>

\* The bytes are copied one by one, while the device may be at work.
Copy ==
  /\ fill.at = "copy"
  /\ LET output == Append(fill.output, page[Len(fill.output) + 1])
     IN IF Len(output) = fill.length
        THEN Finish(TRUE, output)
        ELSE fill' = [fill EXCEPT !.output = output] /\ UNCHANGED filled
  /\ UNCHANGED <<port, memory, used_index, device, requests, answers, history>>

\* fill_hardware(): ten attempts for each word, or Unavailable.
FillHardware ==
  /\ fill.at = "hardware"
  /\ Finish(TRUE, [i \in 1 .. fill.length |-> Hardware]) \/ Finish(FALSE, <<>>)
  /\ UNCHANGED <<port, memory, used_index, device, requests, answers, history>>

-----------------------------------------------------------------------------
(***************************************************************************)
(* The device (hardware): it takes a request with the length that is then  *)
(* in the descriptor, writes at least one byte, and puts the number of     *)
(* bytes in the used ring.                                                 *)
(***************************************************************************)
DeviceTakes ==
  /\ device.at = "waiting" /\ device.next # available_index
  /\ device' = [at |-> "writing", next |-> (device.next + 1) % IndexValues,
                length |-> descriptor]
  /\ UNCHANGED <<port, fill, memory, used_index, requests, answers, filled, history>>

DeviceWrites(n) ==
  /\ device.at = "writing" /\ n <= device.length
  /\ page' = [i \in DOMAIN page |-> IF i <= n THEN answers + 1 ELSE page[i]]
  /\ answers' = answers + 1
  /\ device' = [device EXCEPT !.at = "answering", !.length = n]
  /\ UNCHANGED <<port, fill, descriptor, available_index, used, used_index,
                 requests, filled, history>>

DeviceAnswers ==
  /\ device.at = "answering"
  /\ used' = [index |-> (used.index + 1) % IndexValues,
              length |-> [used.length EXCEPT ![used.index % VIRTIO_RING_SIZE] = device.length]]
  /\ device' = [device EXCEPT !.at = "waiting", !.length = 0]
  /\ UNCHANGED <<port, fill, descriptor, available_index, page, used_index,
                 requests, answers, filled, history>>

RandomNext ==
  \/ FillNothing \/ Describe \/ Offer \/ Poll \/ PollTimesOut \/ Copy \/ FillHardware
  \/ DeviceTakes \/ DeviceAnswers
  \/ \E n \in 1 .. PAGE_BYTES : Fill(n) \/ DeviceWrites(n)

RandomSpec == RandomInit /\ [][RandomNext]_randomVars

-----------------------------------------------------------------------------
\* Every byte fill() returns with success is a random one: written by the device
\* or made by the CPU, never what the page held before.  An answer that comes
\* late, is shorter than asked for, or belongs to an earlier request, does not
\* change that.
OnlyRandomBytes ==
  filled.ok => \A i \in DOMAIN filled.output : filled.output[i] # Untouched

\* Two calls never return the same byte, as long as no request has timed out.
\* After a timeout the driver takes the late answer for that of the next
\* request, is one answer behind, and may return a buffer a second time.
FreshUnlessTimedOut ==
  filled.ok /\ ~ timedOut => FromDevice(filled.output) \cap handedOut = {}
=============================================================================
