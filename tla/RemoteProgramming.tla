------------------------- MODULE RemoteProgramming -------------------------
(***************************************************************************)
(* An upload end to end: the GUI's session (RemoteProgController), the QCC *)
(* that relays its frames to the QTRMs' serial lines and their answers     *)
(* back (external), and a bootloader on each line (QtrmBootloader).  The   *)
(* session is past both mode steps and addresses every QTRM.               *)
(*                                                                         *)
(* A frame of the GUI is lost as a whole or relayed to every line; a cell  *)
(* is lost at a busy bootloader; an answer is lost, delayed or passed on   *)
(* together with others in one frame.                                      *)
(***************************************************************************)
EXTENDS RemoteProgController, QtrmBootloader

CONSTANTS
  MaxUploads,   \* bound on the uploads the operator starts
  MaxFaults     \* bound on the frames and answers the network loses

ASSUME ProgrammingAssumption ==
  /\ Qtrm = QTRM
  /\ MaxTotal = MaxChunks
  /\ MaxUploads \in Nat
  /\ MaxFaults \in Nat

VARIABLES
  uploads,     \* operations started; the number of an upload tells its image
  faults,  \* frames and answers lost so far
  fresh    \* history: when the upload started nothing of an earlier
           \* operation was under way, and no bootloader was disturbed since

progVars == <<vars, bootVars, uploads, faults, fresh>>

----------------------------------------------------------------------------
(* What a frame of the session becomes on a serial line: zero-padded to    *)
(* whole words by the QCC.                                                 *)
ChunkPart(f, j) == Cell("chunk", uploads', f.arg, j)

CellsOf(frames) ==
  IF frames[1].cmd = "chunk"
  THEN [j \in 1..(ChunkCells * Len(frames)) |->
         ChunkPart(frames[1 + ((j - 1) \div ChunkCells)], 1 + ((j - 1) % ChunkCells))]
  ELSE <<Cell("announce", uploads', chunkCount', 0)>>

Fault == faults < MaxFaults /\ faults' = faults + 1

Relay ==
  /\ IF sent' = <<>>
     THEN UNCHANGED <<line, faults>>
     ELSE \/ line' = line \o CellsOf(sent') /\ UNCHANGED faults
          \/ Fault /\ UNCHANGED line
  /\ UNCHANGED <<mode, rx, fifo, flash, directory, lost, misreads, resets>>

Quiet(q) ==
  /\ mode[q] = "command"
  /\ fifo[q] = <<>>
  /\ reply[q] = <<>>

Upload(n) ==
  /\ uploads < MaxUploads
  /\ line = <<>>
  /\ start_upload(n)
  /\ uploads' = uploads + 1
  /\ fresh' = (announces = 0 /\ \A q \in Qtrm : Quiet(q))
  /\ Relay
  /\ UNCHANGED reply

Cancel == cancel /\ UNCHANGED <<uploads, fresh, reply>> /\ Relay

Settled == line = <<>> /\ announce_settled /\ UNCHANGED <<uploads, fresh, reply>> /\ Relay

Timeout ==
  /\ close_upload_pass
  /\ UNCHANGED <<uploads, fresh, reply>>
  /\ Relay

(* How parse_slot reads a packet while an upload runs: an IAP result has   *)
(* the type byte of an ack and its mode where the ack has its index.       *)
SlotOf(p) == IF p.kind \in {"ack", "iap"} THEN [idx |-> p.arg, ok |-> TRUE]
                                          ELSE NoAck

(* The QCC answers with a frame that carries what some lines have sent.    *)
Answer(from) ==
  LET slots == [q \in Qtrm |-> IF q \in from THEN SlotOf(Head(reply[q])) ELSE NoAck]
  IN  /\ \A q \in from : reply[q] # <<>>
      /\ reply' = [q \in Qtrm |-> IF q \in from THEN Tail(reply[q]) ELSE reply[q]]
      /\ IF FrameFor({"upload"}) THEN UploadFrame(slots)
         ELSE sent' = <<>> /\ UNCHANGED <<sessionVars, gateVars, uploadVars,
                                          targetVars, gotAny, iapReplied, link>>
      /\ UNCHANGED <<uploads, fresh>>
      /\ Relay

LoseAnswer(q) ==
  /\ reply[q] # <<>>
  /\ Fault
  /\ reply' = [reply EXCEPT ![q] = Tail(@)]
  /\ UNCHANGED <<vars, mode, rx, fifo, line, flash, directory, lost,
                 misreads, resets, uploads, fresh>>

Bootloader(step) ==
  /\ step
  /\ fresh' = (fresh /\ \A q \in Qtrm : misreads'[q] = misreads[q])
  /\ UNCHANGED <<vars, uploads, faults>>

ProgInit ==
  /\ link = "up"
  /\ awaiting = "none"
  /\ op = "none"
  /\ step1Done = TRUE
  /\ step2Done = TRUE
  /\ gotAny = TRUE
  /\ iapReplied = {}
  /\ timer = "off"
  /\ phase = "none"
  /\ current = NoChunk
  /\ chunkCount = 0
  /\ ackMatrix = NoAcks
  /\ target = Broadcast
  /\ announces = 0
  /\ tab = [gate |-> TRUE, step1 |-> TRUE, programmed |-> FALSE, active |-> FALSE]
  /\ sent = <<>>
  /\ outcome = "ok"
  /\ step1Target = Broadcast
  /\ step2Target = Broadcast
  /\ BootInit
  /\ uploads = 0
  /\ faults = 0
  /\ fresh = FALSE

GuiStep ==
  \/ \E n \in 1..MaxChunks : Upload(n)
  \/ Cancel
  \/ Settled
  \/ Timeout

QccStep ==
  \/ \E from \in SUBSET Qtrm \ {{}} : Answer(from)
  \/ \E q \in Qtrm : LoseAnswer(q)

QtrmStep == Bootloader(BootStep)

ProgNext == GuiStep \/ QccStep \/ QtrmStep

ProgSpec == ProgInit /\ [][ProgNext]_progVars

----------------------------------------------------------------------------
(* Properties. *)

ChunkOf(u, i) == [p \in 1..ChunkCells |-> Cell("chunk", u, i, p)]

Holds(q, i) == flash[q][image_base(0) + i] = ChunkOf(uploads, i)

(* The point of the whole exchange.  The bootloader numbers chunks by      *)
(* arrival and never looks at the index in their headers, the GUI moves on *)
(* when one QTRM has acked while others still write, and any of the frames,*)
(* cells and answers may be lost: yet an upload that started with nothing  *)
(* left over and ends complete has put every chunk of the image at its     *)
(* place in the flash of every QTRM.                                       *)
OkMeansImage ==
  [][close_upload_pass /\ op = "upload" /\ outcome' = "ok" /\ fresh =>
       \A q \in Qtrm : \A i \in 0..(chunkCount - 1) : Holds(q, i)]_progVars

(* While such an upload runs, a chunk that counts as passed by a QTRM that *)
(* has lost nothing since its announce is in that QTRM's flash.            *)
AckMeansStored ==
  op = "upload" /\ fresh =>
    \A q \in Qtrm, i \in 0..(MaxChunks - 1) :
      ackMatrix[q][i] = "pass" /\ ~lost[q] => Holds(q, i)
=============================================================================
