--------------------------- MODULE QtrmBootloader ---------------------------
(***************************************************************************)
(* The bootloader in the SmartFusion2 of each QTRM (main.c and             *)
(* user_functions.c, built for CQTRM): one endless loop that reads         *)
(* commands from a UART, receives bit streams into the SPI flash and asks  *)
(* the System Controller to check or program an image of that flash.       *)
(*                                                                         *)
(* Bytes come in cells: a command of 12 bytes is one cell, a chunk of      *)
(* 10 + 4096 + 2 bytes is ChunkCells cells.  While the thread polls the    *)
(* UART it takes a cell as it arrives; while it is busy with the flash or  *)
(* the System Controller the receive FIFO keeps FifoCells of them, and the *)
(* rest is lost.                                                           *)
(***************************************************************************)
EXTENDS Integers, Sequences

CONSTANTS
  Qtrm,          \* the modules on the QCC's serial lines
  ChunkCells,    \* cells of a chunk
  FifoCells,     \* cells the receive FIFO of the UART holds
  MaxTotal,      \* bound on the chunks of an announce
  GoldenBlocks,  \* 4 KiB blocks from GOLDEN_IMAGE_ADDRESS to IAP_IMAGE_ADDRESS
  MaxMisreads,   \* bound on the image cells a bootloader takes for a command
  MaxResets      \* bound on power cycles

ASSUME BootAssumption ==
  /\ ChunkCells \in Nat \ {0}
  /\ FifoCells \in Nat
  /\ MaxTotal \in Nat \ {0}
  /\ GoldenBlocks \in Nat
  /\ MaxMisreads \in Nat
  /\ MaxResets \in Nat

VARIABLES
  mode,       \* where the bootloader's one thread of control is
  rx,         \* the locals of recieve_bit_stream
  fifo,       \* receive FIFO of g_mss_uart1
  line,       \* cells the QCC has still to send to all modules
  flash,      \* 4 KiB blocks of the SPI flash
  directory,  \* does the SPI directory name a golden image?
  reply,      \* packets sent to the QCC that it has not passed on
  lost,       \* history: cells the module did not hear since its last announce
  misreads,   \* history: image cells parsed as a command
  resets      \* power cycles so far

bootVars == <<mode, rx, fifo, line, flash, directory, reply, lost, misreads, resets>>

Cell(k, u, n, p) == [kind |-> k, upload |-> u, arg |-> n, part |-> p]

(* The command bytes of user_common_include.h that have a case in          *)
(* wait_for_new_request, and "other" for those that have none.             *)
AnswerKinds == {"link_check", "lru_info"}
IapModes    == {"authenticate", "verify", "program"}
CommandKinds ==
  AnswerKinds \cup IapModes \cup {"mode_change", "announce", "golden", "other"}

Modes == {"fabric", "command", "receive", "write", "directory", "hung"} \cup IapModes

Busy == {"write", "directory"} \cup IapModes

Packet(k, n) == [kind |-> k, arg |-> n]

Idle == [total |-> 0, index |-> 0, golden |-> 0, size |-> 0, buf |-> <<>>]

Bug_image_base(golden) == 0

(* image_is_golden is a byte: 0, 1, or 2 for all others, which write_to_spi *)
(* takes for not golden and wait_for_new_request for golden.               *)
Flags == 0..2

(* First block of an image: the golden one starts right after the SPI      *)
(* directory, the other one GoldenBlocks further up.                       *)
image_base(golden) == IF golden = 1 THEN 0 ELSE GoldenBlocks

(* Where a reception leads in the end. *)
After(golden) == IF golden = 0 THEN "command" ELSE "directory"

Blocks == 0..(GoldenBlocks + MaxTotal - 1)

----------------------------------------------------------------------------
(* The UART. *)

(* The QCC's one serial stream reaches every module.  A cell that finds a  *)
(* FIFO full is lost there; while the pins are the fabric's, the           *)
(* bootloader hears nothing.  Polling is faster than the line.             *)
Polling == {"command", "receive"}

Hears(q) == mode[q] # "fabric" /\ Len(fifo[q]) < FifoCells

Arrive ==
  /\ line # <<>>
  /\ \A q \in Qtrm : mode[q] \in Polling => fifo[q] = <<>>
  /\ line' = Tail(line)
  /\ fifo' = [q \in Qtrm |-> IF Hears(q) THEN Append(fifo[q], Head(line)) ELSE fifo[q]]
  /\ lost' = [q \in Qtrm |-> lost[q] \/ ~Hears(q)]
  /\ UNCHANGED <<mode, rx, flash, directory, reply, misreads, resets>>

(* MSS_UART_get_rx *)
Get(q, c) ==
  /\ fifo[q] # <<>>
  /\ c = Head(fifo[q])
  /\ fifo' = [fifo EXCEPT ![q] = Tail(@)]

Heads(q) == {fifo[q][i] : i \in 1..Len(fifo[q])}

Send(q, p) == reply' = [reply EXCEPT ![q] = Append(@, p)]

----------------------------------------------------------------------------
(* wait_for_new_request.  There is no header and no checksum check, so a   *)
(* cell of an image is a command like any other: whichever its bytes spell. *)

Parse(q, c, k) ==
  /\ mode[q] = "command"
  /\ Get(q, c)
  /\ \/ c.kind = k /\ UNCHANGED misreads
     \/ c.kind = "chunk" /\ k = "other" /\ UNCHANGED misreads
     \/ /\ c.kind = "chunk" /\ k # "other"
        /\ misreads[q] < MaxMisreads
        /\ misreads' = [misreads EXCEPT ![q] = @ + 1]

(* sendLinkRes, and get_LRU_info with send_LRU_info. *)
answer(q, c, k) ==
  /\ Parse(q, c, k)
  /\ Send(q, Packet(k, 0))
  /\ UNCHANGED <<mode, rx, line, flash, directory, lost, resets>>

(* A command type without a case. *)
ignore(q, c) ==
  /\ Parse(q, c, "other")
  /\ UNCHANGED <<mode, rx, line, flash, directory, reply, lost, resets>>

(* More than 1000000 polls in a row found the FIFO empty: return to main,  *)
(* which calls again.                                                      *)
no_request(q) == mode[q] = "command" /\ fifo[q] = <<>> /\ line = <<>> /\ UNCHANGED bootVars

(* The announce of a bit stream of n chunks of s cells.  Bytes of an image *)
(* that happen to spell one may say any flag, n and s; of no chunks none   *)
(* is received.                                                            *)
start_bit_stream(q, c, golden, n, s) ==
  /\ Parse(q, c, IF golden = 0 THEN "announce" ELSE "golden")
  /\ c.kind # "chunk" => golden < 2 /\ n = c.arg /\ s = ChunkCells
  /\ mode' = [mode EXCEPT ![q] = IF n = 0 THEN After(golden) ELSE "receive"]
  /\ rx' = [rx EXCEPT ![q] = IF n = 0 THEN Idle
                             ELSE [total |-> n, index |-> 0, golden |-> golden,
                                   size |-> s, buf |-> <<>>]]
  /\ lost' = [lost EXCEPT ![q] = FALSE]
  /\ UNCHANGED <<line, flash, directory, reply, resets>>

(* mode_change_mss_to_fab: the UART pins go to the fabric ... *)
mode_change_mss_to_fab(q, c) ==
  /\ Parse(q, c, "mode_change")
  /\ mode' = [mode EXCEPT ![q] = "fabric"]
  /\ UNCHANGED <<rx, line, flash, directory, reply, lost, resets>>

(* ... until the fabric raises the mode change flag. *)
mode_change_flag(q) ==
  /\ mode[q] = "fabric"
  /\ mode' = [mode EXCEPT ![q] = "command"]
  /\ UNCHANGED <<rx, fifo, line, flash, directory, reply, lost, misreads, resets>>

----------------------------------------------------------------------------
(* iap_authenticate, iap_verify and iap_program wait for the System        *)
(* Controller.  The result of the first two goes to the QCC in a packet of *)
(* the type that also acknowledges chunks; iap_program never answers and   *)
(* spins unless the result is 0x06.                                        *)

iap(q, c, m) ==
  /\ Parse(q, c, m)
  /\ mode' = [mode EXCEPT ![q] = m]
  /\ UNCHANGED <<rx, line, flash, directory, reply, lost, resets>>

iap_result(q) ==
  /\ mode[q] \in {"authenticate", "verify"}
  /\ Send(q, Packet("iap", IF mode[q] = "authenticate" THEN 1 ELSE 3))
  /\ mode' = [mode EXCEPT ![q] = "command"]
  /\ UNCHANGED <<rx, fifo, line, flash, directory, lost, misreads, resets>>

iap_program_result(q, code6) ==
  /\ mode[q] = "program"
  /\ mode' = [mode EXCEPT ![q] = IF code6 THEN "command" ELSE "hung"]
  /\ UNCHANGED <<rx, fifo, line, flash, directory, reply, lost, misreads, resets>>

(* The spin of iap_program. *)
spin(q) == mode[q] = "hung" /\ UNCHANGED bootVars

----------------------------------------------------------------------------
(* recieve_bit_stream.  Whatever arrives fills the buffer; a full buffer   *)
(* is the next chunk.                                                      *)

receive(q, c) ==
  LET filled == Append(rx[q].buf, c)
  IN  /\ mode[q] = "receive"
      /\ Get(q, c)
      /\ IF Len(filled) < rx[q].size
         THEN /\ rx' = [rx EXCEPT ![q].buf = filled]
              /\ UNCHANGED mode
         ELSE /\ rx' = [rx EXCEPT ![q].buf = filled, ![q].index = @ + 1]
              /\ mode' = [mode EXCEPT ![q] = "write"]
      /\ UNCHANGED <<line, flash, directory, reply, lost, misreads, resets>>

Bug_BlockOf(q) == image_base(rx[q].golden) + rx[q].index

(* The block of the chunk in the buffer. *)
BlockOf(q) == image_base(rx[q].golden) + rx[q].index - 1

Bug_AckNumber(q) == rx[q].index

(* A chunk is acknowledged under the number of chunks received before it.  *)
AckNumber(q) == rx[q].index - 1

Bug_Leave(q) ==
  /\ mode' = [mode EXCEPT ![q] = After(rx[q].golden)]
  /\ UNCHANGED rx

Leave(q) ==
  /\ mode' = [mode EXCEPT ![q] = After(rx[q].golden)]
  /\ rx' = [rx EXCEPT ![q] = Idle]

(* write_to_spi erases the block and programs it; then the chunk is        *)
(* acknowledged.                                                           *)
write_to_spi(q) ==
  /\ mode[q] = "write"
  /\ flash' = [flash EXCEPT ![q][BlockOf(q)] = rx[q].buf]
  /\ Send(q, Packet("ack", AckNumber(q)))
  /\ IF rx[q].index = rx[q].total
     THEN Leave(q)
     ELSE /\ mode' = [mode EXCEPT ![q] = "receive"]
          /\ rx' = [rx EXCEPT ![q].buf = <<>>]
  /\ UNCHANGED <<fifo, line, directory, lost, misreads, resets>>

Bug_TimedOut(q) == fifo[q] = <<>> /\ line = <<>> /\ rx[q].index = 0

(* More than 2000000 polls in a row found the FIFO empty: the QCC, which    *)
(* sends what it has without a pause, has nothing left.                    *)
TimedOut(q) == fifo[q] = <<>> /\ line = <<>>

(* The error packet goes out and the bootloader waits for commands,        *)
(* whatever is missing.                                                    *)
receive_timeout(q) ==
  /\ mode[q] = "receive"
  /\ TimedOut(q)
  /\ Send(q, Packet("error", 0))
  /\ Leave(q)
  /\ UNCHANGED <<fifo, line, flash, directory, lost, misreads, resets>>

(* Also after a timeout: the directory names an image that is not there. *)
update_spi_dir(q) ==
  /\ mode[q] = "directory"
  /\ directory' = [directory EXCEPT ![q] = TRUE]
  /\ mode' = [mode EXCEPT ![q] = "command"]
  /\ UNCHANGED <<rx, fifo, line, flash, reply, lost, misreads, resets>>

(* Power cycle, or the reset that ends a successful IAP: main starts over, *)
(* sends its link response and gives the pins to the fabric.  A block that *)
(* was being written may be left erased, and so may the SPI directory.     *)
main(q) ==
  /\ resets < MaxResets
  /\ resets' = resets + 1
  /\ mode' = [mode EXCEPT ![q] = "fabric"]
  /\ rx' = [rx EXCEPT ![q] = Idle]
  /\ fifo' = [fifo EXCEPT ![q] = <<>>]
  /\ lost' = [lost EXCEPT ![q] = TRUE]
  /\ \/ UNCHANGED flash
     \/ mode[q] = "write" /\ flash' = [flash EXCEPT ![q][BlockOf(q)] = <<>>]
  /\ \/ UNCHANGED directory
     \/ mode[q] = "directory" /\ directory' = [directory EXCEPT ![q] = FALSE]
  /\ Send(q, Packet("link_check", 0))
  /\ UNCHANGED <<line, misreads>>

----------------------------------------------------------------------------
BootInit ==
  /\ mode = [q \in Qtrm |-> "command"]
  /\ rx = [q \in Qtrm |-> Idle]
  /\ fifo = [q \in Qtrm |-> <<>>]
  /\ line = <<>>
  /\ flash = [q \in Qtrm |-> [b \in Blocks |-> <<>>]]
  /\ directory = [q \in Qtrm |-> FALSE]
  /\ reply = [q \in Qtrm |-> <<>>]
  /\ lost = [q \in Qtrm |-> FALSE]
  /\ misreads = [q \in Qtrm |-> 0]
  /\ resets = 0

Command(q) ==
  \/ no_request(q)
  \/ \E c \in Heads(q) :
       \/ \E k \in AnswerKinds : answer(q, c, k)
       \/ ignore(q, c)
       \/ \E g \in Flags, n \in 0..MaxTotal, s \in 1..ChunkCells :
            start_bit_stream(q, c, g, n, s)
       \/ mode_change_mss_to_fab(q, c)
       \/ \E m \in IapModes : iap(q, c, m)

Reception(q) ==
  \/ \E c \in Heads(q) : receive(q, c)
  \/ write_to_spi(q)
  \/ receive_timeout(q)
  \/ update_spi_dir(q)

Elsewhere(q) ==
  \/ mode_change_flag(q)
  \/ iap_result(q)
  \/ \E code6 \in BOOLEAN : iap_program_result(q, code6)
  \/ spin(q)
  \/ main(q)

BootStep == Arrive \/ \E q \in Qtrm : Command(q) \/ Reception(q) \/ Elsewhere(q)

(* The bootloaders on their own: whatever stands on the other end of the   *)
(* line sends any command at any time and takes the replies one by one.    *)
(* What arrives during a reception is data, be it a command or an image:   *)
(* there one announce stands for all, and when it is left over in the FIFO *)
(* it is one.                                                              *)
Image    == {Cell("chunk", 0, 0, 1)}
Announce == {Cell(k, 0, n, 0) : k \in {"announce", "golden"}, n \in 1..MaxTotal}
Others   == {Cell(k, 0, 0, 0) : k \in CommandKinds \ {"announce", "golden"}}

LineSends ==
  /\ line = <<>>
  /\ \A q \in Qtrm : reply[q] = <<>>
  /\ \E c \in IF \A q \in Qtrm : rx[q].total = 0 /\ fifo[q] = <<>>
             THEN Image \cup Announce \cup Others
             ELSE {Cell("announce", 0, MaxTotal, 0)} : line' = <<c>>
  /\ UNCHANGED <<mode, rx, fifo, flash, directory, reply, lost, misreads, resets>>

LineTakes(q) ==
  /\ reply[q] # <<>>
  /\ reply' = [reply EXCEPT ![q] = Tail(@)]
  /\ UNCHANGED <<mode, rx, fifo, line, flash, directory, lost, misreads, resets>>

BootNext == BootStep \/ LineSends \/ \E q \in Qtrm : LineTakes(q)

(* Each bootloader's loop runs, the flash ends what it is told, and cells  *)
(* that were sent arrive.                                                  *)
BootFairness ==
  /\ WF_bootVars(Arrive)
  /\ \A q \in Qtrm : WF_bootVars(Reception(q))

BootSpec == BootInit /\ [][BootNext]_bootVars /\ BootFairness

----------------------------------------------------------------------------
(* Properties. *)

(* The bootloaders have the states main.c and user_functions.c give them,  *)
(* and a reception never counts past what was announced.                   *)
BootTypeOK ==
  /\ mode \in [Qtrm -> Modes]
  /\ \A q \in Qtrm :
       /\ rx[q].total \in 0..MaxTotal
       /\ rx[q].index \in 0..rx[q].total
       /\ rx[q].golden \in Flags
       /\ Len(rx[q].buf) <= rx[q].size
       /\ mode[q] \in {"receive", "write"} <=> rx[q].total > 0
       /\ mode[q] = "write" => rx[q].index > 0
       /\ mode[q] = "receive" => rx[q].index < rx[q].total
       /\ Len(fifo[q]) <= FifoCells
  /\ directory \in [Qtrm -> BOOLEAN]

(* The golden image is what the device falls back on and must survive the  *)
(* uploads of the other one; a golden image that fits below                *)
(* IAP_IMAGE_ADDRESS leaves the other one alone.  A reception counts on    *)
(* with the total, flag and base it was announced with, whatever the       *)
(* operator has announced since.                                           *)
RegionsKept ==
  [][\A q \in Qtrm, b \in Blocks :
       flash'[q][b] # flash[q][b] =>
         \/ rx[q].golden = 1 /\ (b < GoldenBlocks \/ rx[q].total > GoldenBlocks)
         \/ rx[q].golden # 1 /\ b >= GoldenBlocks]_bootVars

(* What packets acknowledge.                                               *)
Acknowledged(p) == IF p.kind = "ack" THEN p.arg ELSE -1

AcksOf(packets) == [i \in DOMAIN packets |-> Acknowledged(packets[i])]

(* The bootloaders keep what BitStreamReception promises, and go           *)
(* on doing so through cancelled uploads, lost bytes and power cycles.     *)
Promise == INSTANCE BitStreamReception WITH
  total <- [q \in Qtrm |-> rx[q].total],
  next  <- [q \in Qtrm |-> IF mode[q] = "write" THEN rx[q].index - 1 ELSE rx[q].index],
  acks  <- [q \in Qtrm |-> AcksOf(reply[q])]

ReceptionsRefine == Promise!Spec

(* A cancelled upload leaves the bootloader receiving, and it swallows the *)
(* next announce as data.  But it does not stay there: sooner or later it  *)
(* takes commands again (or was reset).                                    *)
ReceptionEnds ==
  \A q \in Qtrm : mode[q] \in {"receive", "write"} ~> mode[q] \notin {"receive", "write"}
=============================================================================
