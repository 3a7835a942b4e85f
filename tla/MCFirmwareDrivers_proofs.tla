----------------------- MODULE MCFirmwareDrivers_proofs -----------------------
(***************************************************************************)
(* Machine-checked proofs about the firmware of a QTRM as a whole.         *)
(*                                                                         *)
(* First the bootloaders, for any number of them, any chunk and FIFO size  *)
(* and any number of chunks, blocks, misread cells and resets: they are    *)
(* well typed, keep the two images apart, and implement                    *)
(* BitStreamReception.                                                     *)
(*                                                                         *)
(* Then the firmware: whichever part it exercises, every part is in it     *)
(* what it is on its own, so that what is proved of a part holds of the    *)
(* firmware.                                                               *)
(***************************************************************************)
EXTENDS MCFirmwareDrivers, FirmwareDrivers_proofs, MssSpi_proofs, SystemServices_proofs

----------------------------------------------------------------------------
(* The bootloaders.                                                        *)

BootCells == Image \cup Announce \cup Others
Kinds     == AnswerKinds \cup {"iap", "ack", "error"}
Packets   == [kind : Kinds, arg : Int]
Locals    == [total : 0..MaxTotal, index : 0..MaxTotal, golden : Flags,
              size : 0..ChunkCells, buf : Seq(BootCells)]

BootTypes ==
  /\ mode \in [Qtrm -> Modes]
  /\ rx \in [Qtrm -> Locals]
  /\ fifo \in [Qtrm -> Seq(BootCells)]
  /\ line \in Seq(BootCells)
  /\ flash \in [Qtrm -> [Blocks -> Seq(BootCells)]]
  /\ directory \in [Qtrm -> BOOLEAN]
  /\ reply \in [Qtrm -> Seq(Packets)]

(* What the locals of recieve_bit_stream are in each mode.  A chunk that   *)
(* is being received still has room in the buffer.                         *)
BootShape(m, r) ==
  /\ r.index <= r.total
  /\ Len(r.buf) <= r.size
  /\ m \in {"receive", "write"} <=> r.total > 0
  /\ m = "write" => r.index > 0 /\ r.size > 0
  /\ m = "receive" => r.index < r.total /\ Len(r.buf) < r.size

BootInv ==
  /\ BootTypes
  /\ \A q \in Qtrm : BootShape(mode[q], rx[q]) /\ Len(fifo[q]) <= FifoCells

(* A reception at rest.                                                    *)
LEMMA IdleShape ==
  /\ Idle \in Locals
  /\ \A m \in Modes \ {"receive", "write"} : BootShape(m, Idle)
<1>1. <<>> \in Seq(BootCells) /\ Len(<<>>) = 0
  OBVIOUS
<1>2. Idle \in Locals
  BY <1>1, BootAssumption DEF Idle, Locals, Flags
<1>3. \A m \in Modes \ {"receive", "write"} : BootShape(m, Idle)
  BY <1>1 DEF Idle, BootShape
<1> QED BY <1>2, <1>3

(* The loop starts in the invariant.                                       *)
LEMMA InitBootInv == BootInit => BootInv
<1> SUFFICES ASSUME BootInit PROVE BootInv
  OBVIOUS
<1>1. mode \in [Qtrm -> Modes] /\ directory \in [Qtrm -> BOOLEAN]
  BY DEF BootInit, Modes
<1>2. rx \in [Qtrm -> Locals]
  BY IdleShape DEF BootInit
<1>3. fifo \in [Qtrm -> Seq(BootCells)] /\ line \in Seq(BootCells) /\ reply \in [Qtrm -> Seq(Packets)]
  BY DEF BootInit
<1>4. flash \in [Qtrm -> [Blocks -> Seq(BootCells)]]
  BY DEF BootInit
<1>5. \A q \in Qtrm : BootShape(mode[q], rx[q])
  BY IdleShape DEF BootInit, Modes
<1>6. \A q \in Qtrm : Len(fifo[q]) <= FifoCells
  <2>1. \A q \in Qtrm : fifo[q] = <<>>
    BY DEF BootInit
  <2>2. Len(<<>>) = 0 /\ 0 <= FifoCells
    BY BootAssumption
  <2> QED BY <2>1, <2>2
<1> QED BY <1>1, <1>2, <1>3, <1>4, <1>5, <1>6 DEF BootInv, BootTypes

----------------------------------------------------------------------------
(* Reading a cell leaves a shorter FIFO of cells, and gives a cell.        *)
LEMMA GetCell ==
  ASSUME BootInv, NEW q \in Qtrm, NEW c \in Heads(q), Get(q, c)
  PROVE  /\ c \in BootCells
         /\ fifo' \in [Qtrm -> Seq(BootCells)]
         /\ \A p \in Qtrm : Len(fifo'[p]) <= FifoCells
<1>1. fifo \in [Qtrm -> Seq(BootCells)] /\ fifo[q] \in Seq(BootCells) /\ fifo[q] # <<>>
  BY DEF BootInv, BootTypes, Get
<1>2. Tail(fifo[q]) \in Seq(BootCells) /\ Len(Tail(fifo[q])) = Len(fifo[q]) - 1 /\ Len(fifo[q]) \in Nat
      /\ Head(fifo[q]) \in BootCells
  BY <1>1
<1>3. fifo' = [fifo EXCEPT ![q] = Tail(fifo[q])] /\ c = Head(fifo[q])
  BY DEF Get
<1>4. fifo' \in [Qtrm -> Seq(BootCells)]
  BY <1>1, <1>2, <1>3
<1>5. \A p \in Qtrm : fifo'[p] = IF p = q THEN Tail(fifo[q]) ELSE fifo[p]
  BY <1>1, <1>3
<1>6. \A p \in Qtrm : Len(fifo[p]) <= FifoCells
  BY DEF BootInv
<1>7. FifoCells \in Nat
  BY BootAssumption
<1>8. ASSUME NEW p \in Qtrm PROVE Len(fifo'[p]) <= FifoCells
  <2>1. CASE p = q
    <3>1. fifo'[p] = Tail(fifo[q])
      BY <1>5, <2>1
    <3>2. Len(fifo[q]) <= FifoCells
      BY <1>6
    <3> QED BY <1>2, <1>7, <3>1, <3>2
  <2>2. CASE p # q
    BY <1>5, <1>6, <2>2
  <2> QED BY <2>1, <2>2
<1> QED BY <1>2, <1>3, <1>4, <1>8

(* A packet is put after those that wait.                                  *)
LEMMA SendPacket ==
  ASSUME reply \in [Qtrm -> Seq(Packets)], NEW q \in Qtrm, NEW k \in Kinds, NEW n \in Int,
         Send(q, Packet(k, n))
  PROVE  reply' \in [Qtrm -> Seq(Packets)]
<1>1. Packet(k, n) \in Packets
  BY DEF Packet, Packets
<1>2. reply[q] \in Seq(Packets)
  OBVIOUS
<1>3. Append(reply[q], Packet(k, n)) \in Seq(Packets)
  <2>1. ASSUME NEW s \in Seq(Packets), NEW p \in Packets PROVE Append(s, p) \in Seq(Packets)
    OBVIOUS
  <2> QED BY <1>1, <1>2, <2>1
<1>4. reply' = [reply EXCEPT ![q] = Append(reply[q], Packet(k, n))]
  BY DEF Send
<1> QED BY <1>4, <1>3

(* A step that changes the mode and the reception of one bootloader keeps  *)
(* the invariant if it does so in that bootloader.                         *)
LEMMA LocalStep ==
  ASSUME BootInv, NEW q \in Qtrm, NEW m \in Modes, NEW r \in Locals, BootShape(m, r),
         mode' = [mode EXCEPT ![q] = m], rx' = [rx EXCEPT ![q] = r],
         fifo' \in [Qtrm -> Seq(BootCells)], \A p \in Qtrm : Len(fifo'[p]) <= FifoCells,
         line' \in Seq(BootCells), flash' \in [Qtrm -> [Blocks -> Seq(BootCells)]],
         directory' \in [Qtrm -> BOOLEAN], reply' \in [Qtrm -> Seq(Packets)]
  PROVE  BootInv'
<1>1. mode \in [Qtrm -> Modes] /\ rx \in [Qtrm -> Locals] /\ \A p \in Qtrm : BootShape(mode[p], rx[p])
  BY DEF BootInv, BootTypes
<1>2. mode' \in [Qtrm -> Modes] /\ rx' \in [Qtrm -> Locals]
  BY <1>1
<1>3. \A p \in Qtrm : mode'[p] = IF p = q THEN m ELSE mode[p]
  BY <1>1
<1>4. \A p \in Qtrm : rx'[p] = IF p = q THEN r ELSE rx[p]
  BY <1>1
<1>5. \A p \in Qtrm : BootShape(mode'[p], rx'[p])
  BY <1>1, <1>3, <1>4
<1> QED BY <1>2, <1>5 DEF BootInv, BootTypes

(* The same for a step that leaves every mode and reception alone.         *)
LEMMA StillStep ==
  ASSUME BootInv, UNCHANGED <<mode, rx>>,
         fifo' \in [Qtrm -> Seq(BootCells)], \A p \in Qtrm : Len(fifo'[p]) <= FifoCells,
         line' \in Seq(BootCells), flash' \in [Qtrm -> [Blocks -> Seq(BootCells)]],
         directory' \in [Qtrm -> BOOLEAN], reply' \in [Qtrm -> Seq(Packets)]
  PROVE  BootInv'
BY DEF BootInv, BootTypes

(* A bootloader that goes from one mode without a reception to another.    *)
LEMMA ModeStep ==
  ASSUME BootInv, NEW q \in Qtrm, NEW m \in Modes \ {"receive", "write"},
         mode[q] \notin {"receive", "write"},
         mode' = [mode EXCEPT ![q] = m], UNCHANGED rx,
         fifo' \in [Qtrm -> Seq(BootCells)], \A p \in Qtrm : Len(fifo'[p]) <= FifoCells,
         line' \in Seq(BootCells), flash' \in [Qtrm -> [Blocks -> Seq(BootCells)]],
         directory' \in [Qtrm -> BOOLEAN], reply' \in [Qtrm -> Seq(Packets)]
  PROVE  BootInv'
<1>1. rx \in [Qtrm -> Locals] /\ BootShape(mode[q], rx[q])
  BY DEF BootInv, BootTypes
<1>2. rx[q] \in Locals /\ rx' = [rx EXCEPT ![q] = rx[q]]
  BY <1>1
<1>3. BootShape(m, rx[q])
  BY <1>1 DEF BootShape
<1> QED BY <1>2, <1>3, LocalStep

(* What a step leaves alone is as it was.                                  *)
LEMMA SameTypes ==
  ASSUME BootInv
  PROVE  /\ UNCHANGED fifo => fifo' \in [Qtrm -> Seq(BootCells)] /\ \A p \in Qtrm : Len(fifo'[p]) <= FifoCells
         /\ UNCHANGED line => line' \in Seq(BootCells)
         /\ UNCHANGED flash => flash' \in [Qtrm -> [Blocks -> Seq(BootCells)]]
         /\ UNCHANGED directory => directory' \in [Qtrm -> BOOLEAN]
         /\ UNCHANGED reply => reply' \in [Qtrm -> Seq(Packets)]
BY DEF BootInv, BootTypes

(* The QCC's stream brings a cell to every bootloader that hears it.       *)
LEMMA ArriveInv == BootInv /\ Arrive => BootInv'
<1> SUFFICES ASSUME BootInv, Arrive PROVE BootInv'
  OBVIOUS
<1>1. line \in Seq(BootCells) /\ line # <<>> /\ fifo \in [Qtrm -> Seq(BootCells)]
  BY DEF BootInv, BootTypes, Arrive
<1>2. Tail(line) \in Seq(BootCells) /\ Head(line) \in BootCells
  BY <1>1
<1>3. ASSUME NEW q \in Qtrm, Hears(q)
      PROVE  /\ Append(fifo[q], Head(line)) \in Seq(BootCells)
             /\ Len(Append(fifo[q], Head(line))) <= FifoCells
  <2>1. fifo[q] \in Seq(BootCells) /\ Len(fifo[q]) < FifoCells /\ FifoCells \in Nat
    BY <1>1, <1>3, BootAssumption DEF Hears
  <2>2. ASSUME NEW s \in Seq(BootCells), NEW c \in BootCells
        PROVE  Append(s, c) \in Seq(BootCells) /\ Len(Append(s, c)) = Len(s) + 1 /\ Len(s) \in Nat
    OBVIOUS
  <2> QED BY <1>2, <2>1, <2>2
<1>4. \A q \in Qtrm : fifo'[q] = IF Hears(q) THEN Append(fifo[q], Head(line)) ELSE fifo[q]
  BY DEF Arrive
<1>5. \A q \in Qtrm : fifo'[q] \in Seq(BootCells) /\ Len(fifo'[q]) <= FifoCells
  <2> TAKE q \in Qtrm
  <2>1. fifo[q] \in Seq(BootCells) /\ Len(fifo[q]) <= FifoCells
    BY <1>1 DEF BootInv
  <2>2. CASE Hears(q)
    BY <1>3, <1>4, <2>2
  <2>3. CASE ~Hears(q)
    BY <1>4, <2>1, <2>3
  <2> QED BY <2>2, <2>3
<1>6. fifo' \in [Qtrm -> Seq(BootCells)]
  <2>1. fifo' = [q \in Qtrm |-> IF Hears(q) THEN Append(fifo[q], Head(line)) ELSE fifo[q]]
    BY DEF Arrive
  <2>2. fifo' = [q \in Qtrm |-> fifo'[q]]
    BY <2>1
  <2> QED BY <1>5, <2>2
<1>7. line' \in Seq(BootCells) /\ UNCHANGED <<mode, rx, flash, directory, reply>>
  BY <1>2 DEF Arrive
<1> QED BY <1>5, <1>6, <1>7, SameTypes, StillStep

(* A command that is answered or ignored.                                  *)
LEMMA AnswerInv ==
  ASSUME BootInv, NEW q \in Qtrm, NEW c \in Heads(q),
         (\E k \in AnswerKinds : answer(q, c, k)) \/ ignore(q, c)
  PROVE  BootInv'
<1>1. Get(q, c) /\ UNCHANGED <<mode, rx, line, flash, directory>>
  BY DEF answer, ignore, Parse
<1>2. reply' \in [Qtrm -> Seq(Packets)]
  <2>1. CASE ignore(q, c)
    BY <2>1, SameTypes DEF ignore
  <2>2. ASSUME NEW k \in AnswerKinds, answer(q, c, k) PROVE reply' \in [Qtrm -> Seq(Packets)]
    <3>1. k \in Kinds /\ 0 \in Int
      BY DEF Kinds
    <3>2. Send(q, Packet(k, 0))
      BY <2>2 DEF answer
    <3>3. reply \in [Qtrm -> Seq(Packets)]
      BY DEF BootInv, BootTypes
    <3> QED BY <3>1, <3>2, <3>3, SendPacket
  <2> QED BY <2>1, <2>2
<1> QED BY <1>1, <1>2, GetCell, SameTypes, StillStep

(* Where a reception leads.                                                *)
LEMMA AfterMode == \A g : After(g) \in {"directory", "command"} /\ After(g) \in Modes \ {"receive", "write"}
BY DEF After, Modes

(* An announce starts a reception with an empty buffer, or none.           *)
LEMMA AnnounceInv ==
  ASSUME BootInv, NEW q \in Qtrm, NEW c \in Heads(q), NEW g \in Flags,
         NEW n \in 0..MaxTotal, NEW s \in 1..ChunkCells, start_bit_stream(q, c, g, n, s)
  PROVE  BootInv'
<1> DEFINE r == [total |-> n, index |-> 0, golden |-> g, size |-> s, buf |-> <<>>]
<1>1. Get(q, c) /\ UNCHANGED <<line, flash, directory, reply>>
  BY DEF start_bit_stream, Parse
<1>2. CASE n = 0
  <2>1. mode' = [mode EXCEPT ![q] = After(g)] /\ rx' = [rx EXCEPT ![q] = Idle]
    BY <1>2 DEF start_bit_stream
  <2> QED BY <1>1, <2>1, AfterMode, IdleShape, GetCell, SameTypes, LocalStep
<1>3. CASE n # 0
  <2>1. mode' = [mode EXCEPT ![q] = "receive"] /\ rx' = [rx EXCEPT ![q] = r]
    BY <1>3 DEF start_bit_stream
  <2>2. <<>> \in Seq(BootCells) /\ Len(<<>>) = 0
    OBVIOUS
  <2>3. r \in Locals /\ BootShape("receive", r)
    BY <1>3, <2>2, BootAssumption DEF Locals, BootShape
  <2>4. "receive" \in Modes
    BY DEF Modes
  <2> HIDE DEF r
  <2> QED BY <1>1, <2>1, <2>3, <2>4, GetCell, SameTypes, LocalStep
<1> QED BY <1>2, <1>3

(* A command that leads to another mode, or an end of what it led to.      *)
LEMMA ModeCommandInv ==
  ASSUME BootInv, NEW q \in Qtrm, NEW c \in Heads(q),
         mode_change_mss_to_fab(q, c) \/ \E m \in IapModes : iap(q, c, m)
  PROVE  BootInv'
<1>1. /\ Get(q, c) /\ mode[q] = "command"
      /\ UNCHANGED <<rx, line, flash, directory, reply>>
  BY DEF mode_change_mss_to_fab, iap, Parse
<1>2. PICK m \in {"fabric"} \cup IapModes : mode' = [mode EXCEPT ![q] = m]
  BY DEF mode_change_mss_to_fab, iap
<1>3. m \in Modes \ {"receive", "write"}
  BY DEF Modes, IapModes
<1> QED BY <1>1, <1>2, <1>3, GetCell, SameTypes, ModeStep

LEMMA ElsewhereInv ==
  ASSUME BootInv, NEW q \in Qtrm,
         \/ mode_change_flag(q)
         \/ iap_result(q)
         \/ \E code6 \in BOOLEAN : iap_program_result(q, code6)
         \/ update_spi_dir(q)
  PROVE  BootInv'
<1>1. reply \in [Qtrm -> Seq(Packets)] /\ directory \in [Qtrm -> BOOLEAN]
  BY DEF BootInv, BootTypes
<1>2. CASE mode_change_flag(q)
  <2>1. /\ mode[q] \notin {"receive", "write"} /\ mode' = [mode EXCEPT ![q] = "command"]
        /\ UNCHANGED <<rx, fifo, line, flash, directory, reply>>
    BY <1>2 DEF mode_change_flag
  <2> QED BY <2>1, SameTypes, ModeStep DEF Modes
<1>3. CASE iap_result(q)
  <2>1. /\ mode[q] \notin {"receive", "write"} /\ mode' = [mode EXCEPT ![q] = "command"]
        /\ UNCHANGED <<rx, fifo, line, flash, directory>>
    BY <1>3 DEF iap_result
  <2>2. PICK n \in {1, 3} : Send(q, Packet("iap", n))
    BY <1>3 DEF iap_result
  <2>3. "iap" \in Kinds /\ n \in Int
    BY DEF Kinds
  <2>4. reply' \in [Qtrm -> Seq(Packets)]
    BY <1>1, <2>2, <2>3, SendPacket
  <2> QED BY <2>1, <2>4, SameTypes, ModeStep DEF Modes
<1>4. ASSUME NEW code6 \in BOOLEAN, iap_program_result(q, code6) PROVE BootInv'
  <2>1. /\ mode[q] \notin {"receive", "write"}
        /\ UNCHANGED <<rx, fifo, line, flash, directory, reply>>
    BY <1>4 DEF iap_program_result
  <2>2. PICK m \in {"command", "hung"} : mode' = [mode EXCEPT ![q] = m]
    BY <1>4 DEF iap_program_result
  <2> QED BY <2>1, <2>2, SameTypes, ModeStep DEF Modes
<1>5. CASE update_spi_dir(q)
  <2>1. /\ mode[q] \notin {"receive", "write"} /\ mode' = [mode EXCEPT ![q] = "command"]
        /\ UNCHANGED <<rx, fifo, line, flash, reply>>
    BY <1>5 DEF update_spi_dir
  <2>2. directory' \in [Qtrm -> BOOLEAN]
    BY <1>1, <1>5 DEF update_spi_dir
  <2> QED BY <2>1, <2>2, SameTypes, ModeStep DEF Modes
<1> QED BY <1>2, <1>3, <1>4, <1>5

(* A cell of a chunk: the buffer has room for it, and a buffer it fills is *)
(* one more chunk of those announced.                                      *)
LEMMA ReceiveInv ==
  ASSUME BootInv, NEW q \in Qtrm, NEW c \in Heads(q), receive(q, c)
  PROVE  BootInv'
<1> DEFINE filled == Append(rx[q].buf, c)
           more   == [rx[q] EXCEPT !.buf = filled]
           full   == [rx[q] EXCEPT !.buf = filled, !.index = rx[q].index + 1]
<1>1. Get(q, c) /\ mode[q] = "receive" /\ UNCHANGED <<line, flash, directory, reply>>
  BY DEF receive
<1>2. rx[q] \in Locals /\ BootShape("receive", rx[q]) /\ mode \in [Qtrm -> Modes] /\ rx \in [Qtrm -> Locals]
  BY <1>1 DEF BootInv, BootTypes
<1>3. c \in BootCells
  BY <1>1, GetCell
<1>4. filled \in Seq(BootCells) /\ Len(filled) = Len(rx[q].buf) + 1 /\ Len(rx[q].buf) \in Nat
  <2>1. ASSUME NEW s \in Seq(BootCells)
        PROVE  Append(s, c) \in Seq(BootCells) /\ Len(Append(s, c)) = Len(s) + 1 /\ Len(s) \in Nat
    BY <1>3
  <2>2. rx[q].buf \in Seq(BootCells)
    BY <1>2 DEF Locals
  <2> QED BY <2>1, <2>2
<1>5. rx[q].size \in Nat /\ rx[q].index \in Nat /\ rx[q].total \in Nat /\ MaxTotal \in Nat
  BY <1>2, BootAssumption DEF Locals
<1>6. CASE Len(filled) < rx[q].size
  <2>1. mode' = mode /\ rx' = [rx EXCEPT ![q] = more]
    BY <1>2, <1>6 DEF receive
  <2>2. mode' = [mode EXCEPT ![q] = "receive"]
    BY <1>1, <1>2, <2>1
  <2>3. more \in Locals
    BY <1>2, <1>4 DEF Locals
  <2>4. /\ more.total = rx[q].total /\ more.index = rx[q].index /\ more.size = rx[q].size
        /\ more.buf = filled
    BY <1>2 DEF Locals
  <2>5. BootShape("receive", more)
    <3> HIDE DEF filled, more
    <3> QED BY <1>2, <1>4, <1>5, <1>6, <2>4 DEF BootShape
  <2> HIDE DEF more
  <2> QED BY <1>1, <2>1, <2>2, <2>3, <2>5, GetCell, SameTypes, LocalStep DEF Modes
<1>7. CASE ~(Len(filled) < rx[q].size)
  <2>1. mode' = [mode EXCEPT ![q] = "write"] /\ rx' = [rx EXCEPT ![q] = full]
    BY <1>2, <1>7 DEF receive
  <2>2. /\ full.total = rx[q].total /\ full.index = rx[q].index + 1 /\ full.size = rx[q].size
        /\ full.buf = filled
    BY <1>2 DEF Locals
  <2>3. full \in Locals
    <3>1. rx[q].index + 1 \in 0..MaxTotal
      BY <1>2, <1>5 DEF BootShape, Locals
    <3> QED BY <1>2, <1>4, <3>1 DEF Locals
  <2>4. BootShape("write", full)
    <3> HIDE DEF filled, full
    <3> QED BY <1>2, <1>4, <1>5, <2>2 DEF BootShape
  <2> HIDE DEF full
  <2> QED BY <1>1, <2>1, <2>3, <2>4, GetCell, SameTypes, LocalStep DEF Modes
<1> QED BY <1>6, <1>7

(* A reception that is over leaves nothing of it behind.                   *)
LEMMA LeaveInv ==
  ASSUME BootInv, NEW q \in Qtrm, Leave(q), UNCHANGED <<fifo, line, directory>>,
         flash' \in [Qtrm -> [Blocks -> Seq(BootCells)]], reply' \in [Qtrm -> Seq(Packets)]
  PROVE  BootInv'
<1>1. PICK m \in {"directory", "command"} : mode' = [mode EXCEPT ![q] = m]
  BY AfterMode DEF Leave
<1>2. rx' = [rx EXCEPT ![q] = Idle]
  BY DEF Leave
<1>3. m \in Modes \ {"receive", "write"}
  BY DEF Modes
<1> QED BY <1>1, <1>2, <1>3, IdleShape, SameTypes, LocalStep

(* A block of the flash takes a buffer of cells, or loses its content.     *)
LEMMA BlocksTyped ==
  ASSUME BootInv, NEW q \in Qtrm, NEW cells \in Seq(BootCells), NEW b,
         flash' = [flash EXCEPT ![q][b] = cells]
  PROVE  flash' \in [Qtrm -> [Blocks -> Seq(BootCells)]]
<1>1. flash \in [Qtrm -> [Blocks -> Seq(BootCells)]]
  BY DEF BootInv, BootTypes
<1>2. [flash[q] EXCEPT ![b] = cells] \in [Blocks -> Seq(BootCells)]
  BY <1>1
<1> QED BY <1>1, <1>2

(* A chunk is written and acknowledged: the reception goes on with an      *)
(* empty buffer, or it was the last one.                                   *)
LEMMA WriteInv == ASSUME BootInv, NEW q \in Qtrm, write_to_spi(q) PROVE BootInv'
<1> DEFINE emptied == [rx[q] EXCEPT !.buf = <<>>]
<1>1. mode[q] = "write" /\ UNCHANGED <<fifo, line, directory>>
  BY DEF write_to_spi
<1>2. rx[q] \in Locals /\ BootShape("write", rx[q]) /\ mode \in [Qtrm -> Modes] /\ rx \in [Qtrm -> Locals]
  BY <1>1 DEF BootInv, BootTypes
<1>3. flash' \in [Qtrm -> [Blocks -> Seq(BootCells)]]
  <2>1. rx[q].buf \in Seq(BootCells) /\ flash' = [flash EXCEPT ![q][BlockOf(q)] = rx[q].buf]
    BY <1>2 DEF write_to_spi, Locals
  <2> QED BY <2>1, BlocksTyped
<1>4. reply' \in [Qtrm -> Seq(Packets)]
  <2>1. AckNumber(q) \in Int /\ "ack" \in Kinds /\ reply \in [Qtrm -> Seq(Packets)]
    BY <1>2 DEF AckNumber, Locals, Kinds, BootInv, BootTypes
  <2>2. Send(q, Packet("ack", AckNumber(q)))
    BY DEF write_to_spi
  <2> QED BY <2>1, <2>2, SendPacket
<1>5. CASE rx[q].index = rx[q].total
  <2>1. Leave(q)
    BY <1>5 DEF write_to_spi
  <2> QED BY <1>1, <1>3, <1>4, <2>1, LeaveInv
<1>6. CASE rx[q].index # rx[q].total
  <2>1. mode' = [mode EXCEPT ![q] = "receive"] /\ rx' = [rx EXCEPT ![q] = emptied]
    BY <1>2, <1>6 DEF write_to_spi
  <2>2. <<>> \in Seq(BootCells) /\ Len(<<>>) = 0
    OBVIOUS
  <2>3. emptied \in Locals /\ emptied.buf = <<>> /\ emptied.total = rx[q].total
        /\ emptied.index = rx[q].index /\ emptied.size = rx[q].size
    BY <1>2, <2>2 DEF Locals
  <2>4. rx[q].size \in Nat /\ rx[q].index \in Nat /\ rx[q].total \in Nat /\ Len(rx[q].buf) \in Nat
    BY <1>2, BootAssumption DEF Locals
  <2>5. emptied.index < emptied.total
    <3> HIDE DEF emptied
    <3> QED BY <1>2, <1>6, <2>3, <2>4 DEF BootShape
  <2> HIDE DEF emptied
  <2>6. BootShape("receive", emptied)
    BY <1>2, <2>2, <2>3, <2>4, <2>5 DEF BootShape
  <2> QED BY <1>1, <1>3, <1>4, <2>1, <2>3, <2>6, SameTypes, LocalStep DEF Modes
<1> QED BY <1>5, <1>6

(* Silence ends a reception, whatever is missing.                          *)
LEMMA TimeoutInv == ASSUME BootInv, NEW q \in Qtrm, receive_timeout(q) PROVE BootInv'
<1>1. Leave(q) /\ UNCHANGED <<fifo, line, flash, directory>> /\ Send(q, Packet("error", 0))
  BY DEF receive_timeout
<1>2. reply' \in [Qtrm -> Seq(Packets)]
  <2>1. "error" \in Kinds /\ 0 \in Int /\ reply \in [Qtrm -> Seq(Packets)]
    BY DEF Kinds, BootInv, BootTypes
  <2> QED BY <1>1, <2>1, SendPacket
<1> QED BY <1>1, <1>2, SameTypes, LeaveInv

(* A power cycle ends whatever was going on.                               *)
LEMMA MainInv == ASSUME BootInv, NEW q \in Qtrm, main(q) PROVE BootInv'
<1>1. /\ mode' = [mode EXCEPT ![q] = "fabric"] /\ rx' = [rx EXCEPT ![q] = Idle]
      /\ fifo' = [fifo EXCEPT ![q] = <<>>] /\ UNCHANGED line
      /\ Send(q, Packet("link_check", 0))
  BY DEF main
<1>2. <<>> \in Seq(BootCells) /\ Len(<<>>) = 0 /\ FifoCells \in Nat
  BY BootAssumption
<1>3. fifo \in [Qtrm -> Seq(BootCells)] /\ \A p \in Qtrm : Len(fifo[p]) <= FifoCells
  BY DEF BootInv, BootTypes
<1>4. fifo' \in [Qtrm -> Seq(BootCells)]
  BY <1>1, <1>2, <1>3
<1>5. \A p \in Qtrm : Len(fifo'[p]) <= FifoCells
  <2>1. \A p \in Qtrm : fifo'[p] = IF p = q THEN <<>> ELSE fifo[p]
    BY <1>1, <1>3
  <2> TAKE p \in Qtrm
  <2>2. CASE p = q
    BY <1>2, <2>1, <2>2
  <2>3. CASE p # q
    BY <1>3, <2>1, <2>3
  <2> QED BY <2>2, <2>3
<1>6. flash' \in [Qtrm -> [Blocks -> Seq(BootCells)]]
  BY <1>2, SameTypes, BlocksTyped DEF main
<1>7. reply' \in [Qtrm -> Seq(Packets)]
  <2>1. "link_check" \in Kinds /\ 0 \in Int /\ reply \in [Qtrm -> Seq(Packets)]
    BY DEF Kinds, AnswerKinds, BootInv, BootTypes
  <2> QED BY <1>1, <2>1, SendPacket
<1>8. "fabric" \in Modes \ {"receive", "write"}
  BY DEF Modes
<1>9. directory' \in [Qtrm -> BOOLEAN]
  BY DEF main, BootInv, BootTypes
<1> QED BY <1>1, <1>4, <1>5, <1>6, <1>7, <1>8, <1>9, IdleShape, SameTypes, LocalStep

(* The other end of the line sends a cell and takes a packet.              *)
LEMMA LineInv == BootInv /\ (LineSends \/ \E q \in Qtrm : LineTakes(q)) => BootInv'
<1>1. ASSUME BootInv, LineSends PROVE BootInv'
  <2>1. PICK c : line' = <<c>> /\ c \in Image \cup Announce \cup Others \cup {Cell("announce", 0, MaxTotal, 0)}
    BY <1>1 DEF LineSends
  <2>2. Cell("announce", 0, MaxTotal, 0) \in Announce
    BY BootAssumption DEF Announce
  <2>3. line' \in Seq(BootCells)
    BY <2>1, <2>2 DEF BootCells
  <2>4. UNCHANGED <<mode, rx, fifo, flash, directory, reply>>
    BY <1>1 DEF LineSends
  <2> QED BY <1>1, <2>3, <2>4, SameTypes, StillStep
<1>2. ASSUME BootInv, NEW q \in Qtrm, LineTakes(q) PROVE BootInv'
  <2>1. reply \in [Qtrm -> Seq(Packets)] /\ reply[q] # <<>>
    BY <1>2 DEF BootInv, BootTypes, LineTakes
  <2>2. Tail(reply[q]) \in Seq(Packets)
    BY <2>1
  <2>3. reply' \in [Qtrm -> Seq(Packets)] /\ UNCHANGED <<mode, rx, fifo, line, flash, directory>>
    BY <1>2, <2>1, <2>2 DEF LineTakes
  <2> QED BY <1>2, <2>3, SameTypes, StillStep
<1> QED BY <1>1, <1>2

(* The invariant is inductive.                                             *)
LEMMA BootKept == BootInv /\ [BootNext]_bootVars => BootInv'
<1> SUFFICES ASSUME BootInv, [BootNext]_bootVars PROVE BootInv'
  OBVIOUS
<1>1. CASE UNCHANGED bootVars
  BY <1>1 DEF bootVars, BootInv, BootTypes
<1>2. CASE Arrive
  BY <1>2, ArriveInv
<1>3. ASSUME NEW q \in Qtrm, Command(q) PROVE BootInv'
  <2>1. CASE no_request(q)
    BY <1>1, <2>1 DEF no_request
  <2>2. ASSUME NEW c \in Heads(q), (\E k \in AnswerKinds : answer(q, c, k)) \/ ignore(q, c)
        PROVE  BootInv'
    BY <2>2, AnswerInv
  <2>3. ASSUME NEW c \in Heads(q), NEW g \in Flags, NEW n \in 0..MaxTotal, NEW s \in 1..ChunkCells,
               start_bit_stream(q, c, g, n, s)
        PROVE  BootInv'
    BY <2>3, AnnounceInv
  <2>4. ASSUME NEW c \in Heads(q), mode_change_mss_to_fab(q, c) \/ \E m \in IapModes : iap(q, c, m)
        PROVE  BootInv'
    BY <2>4, ModeCommandInv
  <2> QED BY <1>3, <2>1, <2>2, <2>3, <2>4 DEF Command
<1>4. ASSUME NEW q \in Qtrm, Reception(q) PROVE BootInv'
  BY <1>4, ReceiveInv, WriteInv, TimeoutInv, ElsewhereInv DEF Reception
<1>5. ASSUME NEW q \in Qtrm, Elsewhere(q) PROVE BootInv'
  <2>1. CASE spin(q)
    BY <1>1, <2>1 DEF spin
  <2>2. CASE main(q)
    BY <2>2, MainInv
  <2> QED BY <1>5, <2>1, <2>2, ElsewhereInv DEF Elsewhere
<1>6. CASE LineSends \/ \E q \in Qtrm : LineTakes(q)
  BY <1>6, LineInv
<1> QED BY <1>1, <1>2, <1>3, <1>4, <1>5, <1>6 DEF BootNext, BootStep

(* The bootloaders are always in a state that main.c and user_functions.c  *)
(* give them: what a reception counts never passes what was announced,     *)
(* its buffer never overflows, and one that is over left nothing behind.   *)
THEOREM BootTypeCorrect == BootSpec => []BootTypeOK
<1>1. BootInv => BootTypeOK
  <2> SUFFICES ASSUME BootInv PROVE BootTypeOK
    OBVIOUS
  <2>1. ASSUME NEW q \in Qtrm
        PROVE  /\ rx[q].total \in 0..MaxTotal
               /\ rx[q].index \in 0..rx[q].total
               /\ rx[q].golden \in Flags
    <3>1. rx[q] \in Locals /\ rx[q].index <= rx[q].total
      BY DEF BootInv, BootTypes, BootShape
    <3> QED BY <3>1, BootAssumption DEF Locals
  <2>2. mode \in [Qtrm -> Modes] /\ directory \in [Qtrm -> BOOLEAN]
    BY DEF BootInv, BootTypes
  <2>3. \A q \in Qtrm : BootShape(mode[q], rx[q]) /\ Len(fifo[q]) <= FifoCells
    BY DEF BootInv
  <2> QED BY <2>1, <2>2, <2>3 DEF BootTypeOK, BootShape
<1> QED BY <1>1, InitBootInv, BootKept, PTL DEF BootSpec

----------------------------------------------------------------------------
(* Only the block of a chunk that is being written changes.                *)
LEMMA FlashStep ==
  ASSUME BootInv, BootNext
  PROVE  \/ UNCHANGED flash
         \/ \E p \in Qtrm, cells \in Seq(BootCells) :
              /\ mode[p] = "write"
              /\ flash' = [flash EXCEPT ![p][BlockOf(p)] = cells]
<1>1. ASSUME NEW q \in Qtrm, write_to_spi(q)
      PROVE  \E cells \in Seq(BootCells) : /\ mode[q] = "write"
                                           /\ flash' = [flash EXCEPT ![q][BlockOf(q)] = cells]
  <2>1. rx[q].buf \in Seq(BootCells)
    BY DEF BootInv, BootTypes, Locals
  <2> QED BY <1>1, <2>1 DEF write_to_spi
<1>2. ASSUME NEW q \in Qtrm, main(q)
      PROVE  \/ UNCHANGED flash
             \/ \E cells \in Seq(BootCells) : /\ mode[q] = "write"
                                              /\ flash' = [flash EXCEPT ![q][BlockOf(q)] = cells]
  <2>1. <<>> \in Seq(BootCells)
    OBVIOUS
  <2> QED BY <1>2, <2>1 DEF main
<1>3. ASSUME NEW q \in Qtrm, Command(q) PROVE UNCHANGED flash
  BY <1>3 DEF Command, no_request, bootVars, answer, ignore, start_bit_stream, mode_change_mss_to_fab, iap
<1>4. ASSUME NEW q \in Qtrm, Reception(q), ~write_to_spi(q) PROVE UNCHANGED flash
  BY <1>4 DEF Reception, receive, receive_timeout, update_spi_dir
<1>5. ASSUME NEW q \in Qtrm, Elsewhere(q), ~main(q) PROVE UNCHANGED flash
  BY <1>5 DEF Elsewhere, mode_change_flag, iap_result, iap_program_result, spin, bootVars
<1>6. CASE Arrive \/ LineSends \/ \E q \in Qtrm : LineTakes(q)
  BY <1>6 DEF Arrive, LineSends, LineTakes
<1> QED BY <1>1, <1>2, <1>3, <1>4, <1>5, <1>6 DEF BootNext, BootStep

(* Where write_to_spi puts a chunk: below IAP_IMAGE_ADDRESS only a golden  *)
(* image is written, above it a golden one only if it was announced with   *)
(* more blocks than fit.                                                   *)
LEMMA BlockInRegion ==
  ASSUME BootInv, NEW q \in Qtrm, mode[q] = "write"
  PROVE  \/ rx[q].golden = 1 /\ (BlockOf(q) < GoldenBlocks \/ rx[q].total > GoldenBlocks)
         \/ rx[q].golden # 1 /\ BlockOf(q) >= GoldenBlocks
<1>1. rx[q] \in Locals /\ BootShape("write", rx[q]) /\ MaxTotal \in Nat /\ GoldenBlocks \in Nat
  BY BootAssumption DEF BootInv, BootTypes
<1>2. rx[q].total \in Nat /\ rx[q].index \in Nat /\ rx[q].index > 0 /\ rx[q].index <= rx[q].total
  BY <1>1 DEF BootShape, Locals
<1>3. CASE rx[q].golden = 1
  <2>1. BlockOf(q) = rx[q].index - 1
    BY <1>2, <1>3 DEF BlockOf, image_base
  <2> QED BY <1>1, <1>2, <1>3, <2>1
<1>4. CASE rx[q].golden # 1
  <2>1. BlockOf(q) = GoldenBlocks + rx[q].index - 1
    BY <1>2, <1>4 DEF BlockOf, image_base
  <2> QED BY <1>1, <1>2, <1>4, <2>1
<1> QED BY <1>2, <1>3, <1>4

(* The two images stay apart: whatever is announced, cancelled, misread or *)
(* reset, a block changes only for the image it belongs to, and a golden   *)
(* image reaches into the other's blocks only if it does not fit.          *)
THEOREM ImagesStayApart == BootSpec => RegionsKept
<1> DEFINE Apart == \A q \in Qtrm, b \in Blocks :
                     flash'[q][b] # flash[q][b] =>
                       \/ rx[q].golden = 1 /\ (b < GoldenBlocks \/ rx[q].total > GoldenBlocks)
                       \/ rx[q].golden # 1 /\ b >= GoldenBlocks
<1>1. BootInv /\ [BootNext]_bootVars => [Apart]_bootVars
  <2> SUFFICES ASSUME BootInv, BootNext PROVE Apart
    OBVIOUS
  <2>1. CASE UNCHANGED flash
    BY <2>1
  <2>2. ASSUME NEW p \in Qtrm, NEW cells \in Seq(BootCells), mode[p] = "write",
               flash' = [flash EXCEPT ![p][BlockOf(p)] = cells]
        PROVE  Apart
    <3>1. flash \in [Qtrm -> [Blocks -> Seq(BootCells)]]
      BY DEF BootInv, BootTypes
    <3>2. \A q \in Qtrm, b \in Blocks : flash'[q][b] # flash[q][b] => q = p /\ b = BlockOf(p)
      BY <2>2, <3>1
    <3> QED BY <2>2, <3>2, BlockInRegion
  <2> QED BY <2>1, <2>2, FlashStep
<1>2. BootInv /\ [BootNext]_bootVars => BootInv'
  BY BootKept
<1> QED BY <1>1, <1>2, InitBootInv, PTL DEF BootSpec, RegionsKept

----------------------------------------------------------------------------
(* What a sequence of packets acknowledges.                                *)
LEMMA AcksOfSeq ==
  ASSUME NEW s \in Seq(Packets)
  PROVE  /\ AcksOf(s) \in Seq(Int)
         /\ Len(AcksOf(s)) = Len(s)
         /\ \A i \in 1..Len(s) : AcksOf(s)[i] = Acknowledged(s[i])
<1>1. Len(s) \in Nat /\ DOMAIN s = 1..Len(s) /\ s \in [1..Len(s) -> Packets]
  BY LenProperties
<1>2. \A p \in Packets : Acknowledged(p) \in Int
  BY DEF Acknowledged, Packets
<1>3. AcksOf(s) = [i \in 1..Len(s) |-> Acknowledged(s[i])]
  BY <1>1 DEF AcksOf
<1>4. AcksOf(s) \in [1..Len(s) -> Int]
  BY <1>1, <1>2, <1>3
<1>5. AcksOf(s) \in Seq(Int)
  BY <1>1, <1>4, SeqDef
<1>6. DOMAIN AcksOf(s) = 1..Len(AcksOf(s)) /\ DOMAIN AcksOf(s) = 1..Len(s) /\ Len(AcksOf(s)) \in Nat
  BY <1>3, <1>5, LenProperties
<1>7. Len(AcksOf(s)) = Len(s)
  <2>1. ASSUME NEW m \in Nat, NEW n \in Nat, 1..m = 1..n PROVE ~(m < n)
    <3> SUFFICES ASSUME m < n PROVE FALSE
      OBVIOUS
    <3>1. n \in 1..n /\ n \notin 1..m
      OBVIOUS
    <3> QED BY <2>1, <3>1
  <2>2. ~(Len(AcksOf(s)) < Len(s)) /\ ~(Len(s) < Len(AcksOf(s)))
    BY <1>1, <1>6, <2>1
  <2>3. Len(AcksOf(s)) \in Nat /\ Len(s) \in Nat
    BY <1>1, <1>6
  <2> QED BY <2>2, <2>3
<1> QED BY <1>3, <1>5, <1>7

LEMMA AcksOfAppend ==
  ASSUME NEW s \in Seq(Packets), NEW p \in Packets
  PROVE  AcksOf(Append(s, p)) = Append(AcksOf(s), Acknowledged(p))
<1> DEFINE whole == AcksOf(Append(s, p))
           parts == Append(AcksOf(s), Acknowledged(p))
<1>1. /\ Append(s, p) \in Seq(Packets) /\ Len(Append(s, p)) = Len(s) + 1 /\ Len(s) \in Nat
      /\ \A i \in 1..Len(s) : Append(s, p)[i] = s[i]
      /\ Append(s, p)[Len(s) + 1] = p
  BY AppendProperties, LenProperties
<1>2. Acknowledged(p) \in Int
  BY DEF Acknowledged, Packets
<1>3. /\ AcksOf(s) \in Seq(Int) /\ Len(AcksOf(s)) = Len(s)
      /\ \A i \in 1..Len(s) : AcksOf(s)[i] = Acknowledged(s[i])
  BY AcksOfSeq
<1>4. /\ parts \in Seq(Int) /\ Len(parts) = Len(s) + 1
      /\ \A i \in 1..Len(s) : parts[i] = AcksOf(s)[i]
      /\ parts[Len(s) + 1] = Acknowledged(p)
  BY <1>2, <1>3, AppendProperties
<1>5. /\ whole \in Seq(Int) /\ Len(whole) = Len(s) + 1
      /\ \A i \in 1..(Len(s) + 1) : whole[i] = Acknowledged(Append(s, p)[i])
  BY <1>1, AcksOfSeq
<1> HIDE DEF whole, parts
<1>6. \A i \in 1..Len(whole) : whole[i] = parts[i]
  <2> TAKE i \in 1..Len(whole)
  <2>1. CASE i \in 1..Len(s)
    <3>1. whole[i] = Acknowledged(s[i])
      BY <1>1, <1>5, <2>1
    <3>2. parts[i] = Acknowledged(s[i])
      BY <1>3, <1>4, <2>1
    <3> QED BY <3>1, <3>2
  <2>2. CASE i = Len(s) + 1
    <3>1. whole[i] = Acknowledged(p)
      BY <1>1, <1>5, <2>2
    <3> QED BY <1>4, <2>2, <3>1
  <2>3. i \in 1..Len(s) \/ i = Len(s) + 1
    BY <1>1, <1>5
  <2> QED BY <2>1, <2>2, <2>3
<1>7. whole = parts
  BY <1>4, <1>5, <1>6, SeqEqual
<1> QED BY <1>7 DEF whole, parts

LEMMA AcksOfTail ==
  ASSUME NEW s \in Seq(Packets), s # <<>>
  PROVE  AcksOf(s) # <<>> /\ AcksOf(Tail(s)) = Tail(AcksOf(s))
<1> DEFINE a == AcksOf(s)
           b == AcksOf(Tail(s))
<1>1. Len(s) \in Nat \ {0}
  BY EmptySeq
<1>2. /\ Tail(s) \in Seq(Packets) /\ Len(Tail(s)) = Len(s) - 1
      /\ \A i \in 1..Len(Tail(s)) : Tail(s)[i] = s[i + 1]
  BY HeadTailProperties
<1>3. /\ a \in Seq(Int) /\ Len(a) = Len(s)
      /\ \A i \in 1..Len(s) : a[i] = Acknowledged(s[i])
  BY AcksOfSeq
<1>4. /\ b \in Seq(Int) /\ Len(b) = Len(s) - 1
      /\ \A i \in 1..(Len(s) - 1) : b[i] = Acknowledged(Tail(s)[i])
  BY <1>2, AcksOfSeq
<1> HIDE DEF a, b
<1>5. a # <<>>
  BY <1>1, <1>3
<1>6. /\ Tail(a) \in Seq(Int) /\ Len(Tail(a)) = Len(s) - 1
      /\ \A i \in 1..(Len(s) - 1) : Tail(a)[i] = a[i + 1]
  BY <1>3, <1>5, HeadTailProperties
<1>7. \A i \in 1..Len(b) : b[i] = Tail(a)[i]
  <2> TAKE i \in 1..Len(b)
  <2>1. i \in 1..(Len(s) - 1) /\ i + 1 \in 1..Len(s)
    BY <1>1, <1>4
  <2>2. b[i] = Acknowledged(s[i + 1])
    BY <1>2, <1>4, <2>1
  <2>3. Tail(a)[i] = Acknowledged(s[i + 1])
    BY <1>3, <1>6, <2>1
  <2> QED BY <2>2, <2>3
<1>8. b = Tail(a)
  BY <1>4, <1>6, <1>7, SeqEqual
<1> QED BY <1>5, <1>8 DEF a, b

(* The state of the promise, in terms of the bootloaders'.                 *)
Total  == [q \in Qtrm |-> rx[q].total]
NextOf(m, r) == IF m = "write" THEN r.index - 1 ELSE r.index
NextNr == [q \in Qtrm |-> NextOf(mode[q], rx[q])]
Acks   == [q \in Qtrm |-> AcksOf(reply[q])]

(* What a step of one bootloader changes of it.                            *)
OnlyIn(q) == \A p \in Qtrm \ {q} : mode'[p] = mode[p] /\ rx'[p] = rx[p]

LEMMA RxMapped ==
  ASSUME NEW q \in Qtrm, OnlyIn(q)
  PROVE  /\ Total' = [Total EXCEPT ![q] = rx'[q].total]
         /\ NextNr' = [NextNr EXCEPT ![q] = NextOf(mode'[q], rx'[q])]
BY DEF OnlyIn, Total, NextNr

LEMMA ModeMapped ==
  ASSUME BootInv, NEW q \in Qtrm, NEW m, m # "write", mode[q] # "write",
         mode' = [mode EXCEPT ![q] = m], UNCHANGED rx
  PROVE  UNCHANGED Total /\ UNCHANGED NextNr
<1>1. mode \in [Qtrm -> Modes]
  BY DEF BootInv, BootTypes
<1>2. \A p \in Qtrm : NextOf(mode'[p], rx[p]) = NextOf(mode[p], rx[p])
  BY <1>1 DEF NextOf
<1> QED BY <1>2 DEF Total, NextNr

LEMMA ReplyMapped ==
  ASSUME BootInv, NEW q \in Qtrm, NEW p \in Packets, Send(q, p)
  PROVE  Acks' = [Acks EXCEPT ![q] = Append(Acks[q], Acknowledged(p))]
<1>1. reply \in [Qtrm -> Seq(Packets)]
  BY DEF BootInv, BootTypes
<1>2. \A i \in Qtrm : reply'[i] = IF i = q THEN Append(reply[q], p) ELSE reply[i]
  BY <1>1 DEF Send
<1>3. AcksOf(Append(reply[q], p)) = Append(AcksOf(reply[q]), Acknowledged(p))
  BY <1>1, AcksOfAppend
<1> QED BY <1>2, <1>3 DEF Acks

LEMMA RestMapped ==
  /\ UNCHANGED <<mode, rx>> => UNCHANGED Total /\ UNCHANGED NextNr
  /\ UNCHANGED reply => UNCHANGED Acks
BY DEF Total, NextNr, Acks

(* The steps of the promise, one by one.                                   *)
LEMMA PromiseSteps ==
  ASSUME NEW q \in Qtrm
  PROVE  /\ \A n \in 1..MaxTotal :
              /\ Total[q] = 0 /\ Total' = [Total EXCEPT ![q] = n]
              /\ NextNr' = [NextNr EXCEPT ![q] = 0] /\ UNCHANGED Acks
              => Promise!Next
         /\ /\ NextNr[q] < Total[q] /\ Acks' = [Acks EXCEPT ![q] = Append(Acks[q], NextNr[q])]
            /\ IF NextNr[q] + 1 = Total[q]
               THEN Total' = [Total EXCEPT ![q] = 0] /\ NextNr' = [NextNr EXCEPT ![q] = 0]
               ELSE NextNr' = [NextNr EXCEPT ![q] = NextNr[q] + 1] /\ UNCHANGED Total
            => Promise!Next
         /\ /\ Acks' = [Acks EXCEPT ![q] = Append(Acks[q], -1)]
            /\ \/ Total' = [Total EXCEPT ![q] = 0] /\ NextNr' = [NextNr EXCEPT ![q] = 0]
               \/ UNCHANGED <<Total, NextNr>>
            => Promise!Next
         /\ /\ Acks[q] # <<>> /\ Acks' = [Acks EXCEPT ![q] = Tail(Acks[q])]
            /\ UNCHANGED <<Total, NextNr>>
            => Promise!Next
<1>1. ASSUME NEW n \in 1..MaxTotal, Total[q] = 0, Total' = [Total EXCEPT ![q] = n],
             NextNr' = [NextNr EXCEPT ![q] = 0], UNCHANGED Acks
      PROVE  Promise!Next
  <2>1. Promise!Announce(q, n)
    BY <1>1 DEF Promise!Announce, Total, NextNr, NextOf, Acks
  <2> QED BY <2>1 DEF Promise!Next
<1>2. ASSUME NextNr[q] < Total[q], Acks' = [Acks EXCEPT ![q] = Append(Acks[q], NextNr[q])],
             IF NextNr[q] + 1 = Total[q]
             THEN Total' = [Total EXCEPT ![q] = 0] /\ NextNr' = [NextNr EXCEPT ![q] = 0]
             ELSE NextNr' = [NextNr EXCEPT ![q] = NextNr[q] + 1] /\ UNCHANGED Total
      PROVE  Promise!Next
  <2>1. Promise!Acknowledge(q)
    BY <1>2 DEF Promise!Acknowledge, Total, NextNr, NextOf, Acks
  <2> QED BY <2>1 DEF Promise!Next
<1>3. ASSUME Acks' = [Acks EXCEPT ![q] = Append(Acks[q], -1)],
             \/ Total' = [Total EXCEPT ![q] = 0] /\ NextNr' = [NextNr EXCEPT ![q] = 0]
             \/ UNCHANGED <<Total, NextNr>>
      PROVE  Promise!Next
  <2>1. Promise!GiveUp(q) \/ Promise!SayOther(q)
    BY <1>3 DEF Promise!GiveUp, Promise!SayOther, Promise!Say, Promise!Other, Total, NextNr, NextOf, Acks
  <2> QED BY <2>1 DEF Promise!Next
<1>4. ASSUME Acks[q] # <<>>, Acks' = [Acks EXCEPT ![q] = Tail(Acks[q])], UNCHANGED <<Total, NextNr>>
      PROVE  Promise!Next
  <2>1. Promise!Take(q)
    BY <1>4 DEF Promise!Take, Total, NextNr, NextOf, Acks
  <2> QED BY <2>1 DEF Promise!Next
<1> QED BY <1>1, <1>2, <1>3, <1>4

(* Every step of the bootloaders is a step of the promise, or none.        *)
LEMMA AnswerPromised ==
  ASSUME BootInv, NEW q \in Qtrm, NEW k \in Kinds \ {"ack"}, NEW n \in Int, Send(q, Packet(k, n))
  PROVE  Acks' = [Acks EXCEPT ![q] = Append(Acks[q], -1)]
<1>1. Packet(k, n) \in Packets /\ Acknowledged(Packet(k, n)) = -1
  BY DEF Packet, Packets, Acknowledged
<1> QED BY <1>1, ReplyMapped

LEMMA GiveUpPromised ==
  ASSUME BootInv, NEW q \in Qtrm, NEW m \in Modes \ {"write"}, NEW k \in Kinds \ {"ack"},
         mode' = [mode EXCEPT ![q] = m], rx' = [rx EXCEPT ![q] = Idle], Send(q, Packet(k, 0))
  PROVE  Promise!Next
<1>1. mode \in [Qtrm -> Modes] /\ rx \in [Qtrm -> Locals]
  BY DEF BootInv, BootTypes
<1>2. OnlyIn(q) /\ mode'[q] = m /\ rx'[q] = Idle
  BY <1>1 DEF OnlyIn
<1>3. Total' = [Total EXCEPT ![q] = Idle.total] /\ NextNr' = [NextNr EXCEPT ![q] = NextOf(m, Idle)]
  BY <1>2, RxMapped
<1>4. Idle.total = 0 /\ NextOf(m, Idle) = 0
  BY DEF Idle, NextOf
<1>5. Acks' = [Acks EXCEPT ![q] = Append(Acks[q], -1)]
  BY AnswerPromised
<1>6. Total' = [Total EXCEPT ![q] = 0] /\ NextNr' = [NextNr EXCEPT ![q] = 0]
  BY <1>3, <1>4
<1> QED BY <1>5, <1>6, PromiseSteps

LEMMA CommandPromised ==
  ASSUME BootInv, NEW q \in Qtrm, Command(q)
  PROVE  Promise!Next \/ UNCHANGED <<Total, NextNr, Acks>>
<1>1. CASE no_request(q)
  BY <1>1, RestMapped DEF no_request, bootVars
<1>2. ASSUME NEW c \in Heads(q), NEW k \in AnswerKinds, answer(q, c, k) PROVE Promise!Next
  <2>1. Send(q, Packet(k, 0)) /\ UNCHANGED <<mode, rx>> /\ k \in Kinds \ {"ack"}
    BY <1>2 DEF answer, Kinds, AnswerKinds
  <2>2. Acks' = [Acks EXCEPT ![q] = Append(Acks[q], -1)] /\ UNCHANGED Total /\ UNCHANGED NextNr
    BY <2>1, AnswerPromised, RestMapped
  <2> QED BY <2>2, PromiseSteps
<1>3. ASSUME NEW c \in Heads(q), ignore(q, c) PROVE UNCHANGED <<Total, NextNr, Acks>>
  BY <1>3, RestMapped DEF ignore
<1>4. ASSUME NEW c \in Heads(q), NEW g \in Flags, NEW n \in 0..MaxTotal, NEW s \in 1..ChunkCells,
             start_bit_stream(q, c, g, n, s)
      PROVE  Promise!Next \/ UNCHANGED <<Total, NextNr, Acks>>
  <2> DEFINE r == IF n = 0 THEN Idle
                  ELSE [total |-> n, index |-> 0, golden |-> g, size |-> s, buf |-> <<>>]
             m == IF n = 0 THEN After(g) ELSE "receive"
  <2>1. mode' = [mode EXCEPT ![q] = m] /\ rx' = [rx EXCEPT ![q] = r] /\ mode[q] = "command"
        /\ UNCHANGED reply
    BY <1>4 DEF start_bit_stream, Parse
  <2>2. r.total = n /\ NextOf(m, r) = 0
    BY DEF NextOf, After, Idle
  <2> HIDE DEF r, m
  <2>3. OnlyIn(q) /\ mode'[q] = m /\ rx'[q] = r
    BY <2>1 DEF OnlyIn, BootInv, BootTypes
  <2>4. Total' = [Total EXCEPT ![q] = n] /\ NextNr' = [NextNr EXCEPT ![q] = 0]
    BY <2>2, <2>3, RxMapped
  <2>5. Total[q] = 0 /\ NextNr[q] = 0
    <3>1. rx[q] \in Locals /\ BootShape("command", rx[q]) /\ MaxTotal \in Nat
      BY <2>1, BootAssumption DEF BootInv, BootTypes
    <3>2. rx[q].total = 0 /\ rx[q].index = 0
      BY <3>1 DEF BootShape, Locals
    <3> QED BY <2>1, <3>2 DEF Total, NextNr, NextOf
  <2>6. UNCHANGED Acks
    BY <2>1, RestMapped
  <2>7. CASE n = 0
    <3>1. Total' = Total /\ NextNr' = NextNr
      BY <2>4, <2>5, <2>7 DEF Total, NextNr
    <3> QED BY <2>6, <3>1
  <2>8. CASE n # 0
    <3>1. n \in 1..MaxTotal
      BY <2>8, BootAssumption
    <3> QED BY <2>4, <2>5, <2>6, <3>1, PromiseSteps
  <2> QED BY <2>7, <2>8
<1>5. ASSUME NEW c \in Heads(q), mode_change_mss_to_fab(q, c) \/ \E m \in IapModes : iap(q, c, m)
      PROVE  UNCHANGED <<Total, NextNr, Acks>>
  <2>1. PICK m \in {"fabric"} \cup IapModes : mode' = [mode EXCEPT ![q] = m]
    BY <1>5 DEF mode_change_mss_to_fab, iap
  <2>2. m # "write" /\ mode[q] # "write" /\ UNCHANGED <<rx, reply>>
    BY <1>5 DEF mode_change_mss_to_fab, iap, IapModes, Parse
  <2> QED BY <2>1, <2>2, ModeMapped, RestMapped
<1> QED BY <1>1, <1>2, <1>3, <1>4, <1>5 DEF Command

LEMMA ReceptionPromised ==
  ASSUME BootInv, NEW q \in Qtrm, Reception(q)
  PROVE  Promise!Next \/ UNCHANGED <<Total, NextNr, Acks>>
<1>1. mode \in [Qtrm -> Modes] /\ rx \in [Qtrm -> Locals] /\ rx[q] \in Locals /\ BootShape(mode[q], rx[q])
  BY DEF BootInv, BootTypes
<1>2. rx[q].total \in Nat /\ rx[q].index \in Nat
  BY <1>1, BootAssumption DEF Locals
<1>3. ASSUME NEW c \in Heads(q), receive(q, c) PROVE UNCHANGED <<Total, NextNr, Acks>>
  <2> DEFINE filled == Append(rx[q].buf, c)
             more   == [rx[q] EXCEPT !.buf = filled]
             full   == [rx[q] EXCEPT !.buf = filled, !.index = rx[q].index + 1]
  <2>1. mode[q] = "receive" /\ UNCHANGED reply
    BY <1>3 DEF receive
  <2>2. \/ mode' = [mode EXCEPT ![q] = "receive"] /\ rx' = [rx EXCEPT ![q] = more]
        \/ mode' = [mode EXCEPT ![q] = "write"] /\ rx' = [rx EXCEPT ![q] = full]
    BY <1>1, <1>3, <2>1 DEF receive
  <2>3. /\ more.total = rx[q].total /\ NextOf("receive", more) = rx[q].index
        /\ full.total = rx[q].total /\ NextOf("write", full) = rx[q].index
    BY <1>1, <1>2 DEF Locals, NextOf
  <2>4. Total[q] = rx[q].total /\ NextNr[q] = rx[q].index
    BY <2>1 DEF Total, NextNr, NextOf
  <2> HIDE DEF more, full
  <2>5. /\ OnlyIn(q)
        /\ \/ mode'[q] = "receive" /\ rx'[q] = more
           \/ mode'[q] = "write" /\ rx'[q] = full
    BY <1>1, <2>2 DEF OnlyIn
  <2>6. Total' = [Total EXCEPT ![q] = Total[q]] /\ NextNr' = [NextNr EXCEPT ![q] = NextNr[q]]
    BY <2>3, <2>4, <2>5, RxMapped
  <2>7. UNCHANGED Total /\ UNCHANGED NextNr
    BY <2>6 DEF Total, NextNr
  <2> QED BY <2>1, <2>7, RestMapped
<1>4. CASE write_to_spi(q)
  <2>1. mode[q] = "write" /\ rx[q].index > 0 /\ rx[q].index <= rx[q].total
    BY <1>1, <1>4 DEF write_to_spi, BootShape
  <2>2. Total[q] = rx[q].total /\ NextNr[q] = rx[q].index - 1
    BY <2>1 DEF Total, NextNr, NextOf
  <2>3. Acks' = [Acks EXCEPT ![q] = Append(Acks[q], NextNr[q])]
    <3> DEFINE p == Packet("ack", rx[q].index - 1)
    <3>1. p \in Packets /\ Acknowledged(p) = rx[q].index - 1
      BY <1>2 DEF Packet, Packets, Kinds, Acknowledged
    <3>2. Send(q, p)
      BY <1>4 DEF write_to_spi, AckNumber
    <3> HIDE DEF p
    <3> QED BY <2>2, <3>1, <3>2, ReplyMapped
  <2>4. CASE rx[q].index = rx[q].total
    <3>1. PICK m \in {"directory", "command"} : mode' = [mode EXCEPT ![q] = m]
      BY <1>4, AfterMode, <2>4 DEF write_to_spi, Leave
    <3>2. rx' = [rx EXCEPT ![q] = Idle]
      BY <1>4, <2>4 DEF write_to_spi, Leave
    <3>3. Idle.total = 0 /\ NextOf(m, Idle) = 0
      BY DEF Idle, NextOf
    <3>4. Total' = [Total EXCEPT ![q] = 0] /\ NextNr' = [NextNr EXCEPT ![q] = 0]
      <4>1. OnlyIn(q) /\ mode'[q] = m /\ rx'[q] = Idle
        BY <1>1, <3>1, <3>2 DEF OnlyIn
      <4> QED BY <3>3, <4>1, RxMapped
    <3>5. NextNr[q] < Total[q] /\ NextNr[q] + 1 = Total[q]
      BY <1>2, <2>2, <2>4
    <3> QED BY <2>3, <3>4, <3>5, PromiseSteps
  <2>5. CASE rx[q].index # rx[q].total
    <3> DEFINE emptied == [rx[q] EXCEPT !.buf = <<>>]
    <3>1. mode' = [mode EXCEPT ![q] = "receive"] /\ rx' = [rx EXCEPT ![q] = emptied]
      BY <1>1, <1>4, <2>5 DEF write_to_spi
    <3>2. emptied.total = Total[q] /\ NextOf("receive", emptied) = NextNr[q] + 1
      BY <1>1, <1>2, <2>2 DEF Locals, NextOf
    <3> HIDE DEF emptied
    <3>3. OnlyIn(q) /\ mode'[q] = "receive" /\ rx'[q] = emptied
      BY <1>1, <3>1 DEF OnlyIn
    <3>4. Total' = [Total EXCEPT ![q] = Total[q]] /\ NextNr' = [NextNr EXCEPT ![q] = NextNr[q] + 1]
      BY <3>2, <3>3, RxMapped
    <3>5. UNCHANGED Total
      BY <3>4 DEF Total
    <3>6. NextNr[q] < Total[q] /\ NextNr[q] + 1 # Total[q]
      BY <1>2, <2>1, <2>2, <2>5
    <3> QED BY <2>3, <3>4, <3>5, <3>6, PromiseSteps
  <2> QED BY <2>4, <2>5
<1>5. CASE receive_timeout(q)
  <2>1. PICK m \in {"directory", "command"} : mode' = [mode EXCEPT ![q] = m]
    BY <1>5, AfterMode DEF receive_timeout, Leave
  <2>2. rx' = [rx EXCEPT ![q] = Idle] /\ Send(q, Packet("error", 0))
    BY <1>5 DEF receive_timeout, Leave
  <2>3. m \in Modes \ {"write"} /\ "error" \in Kinds \ {"ack"}
    BY DEF Modes, Kinds
  <2> QED BY <2>1, <2>2, <2>3, GiveUpPromised
<1>6. CASE update_spi_dir(q)
  BY <1>6, ModeMapped, RestMapped DEF update_spi_dir
<1> QED BY <1>3, <1>4, <1>5, <1>6 DEF Reception

LEMMA ElsewherePromised ==
  ASSUME BootInv, NEW q \in Qtrm, Elsewhere(q)
  PROVE  Promise!Next \/ UNCHANGED <<Total, NextNr, Acks>>
<1>1. CASE mode_change_flag(q)
  BY <1>1, ModeMapped, RestMapped DEF mode_change_flag
<1>2. CASE iap_result(q)
  <2>1. PICK n \in {1, 3} : Send(q, Packet("iap", n))
    BY <1>2 DEF iap_result
  <2>2. "iap" \in Kinds \ {"ack"} /\ n \in Int
    BY DEF Kinds
  <2>3. UNCHANGED Total /\ UNCHANGED NextNr
    BY <1>2, ModeMapped DEF iap_result
  <2>4. Acks' = [Acks EXCEPT ![q] = Append(Acks[q], -1)]
    BY <2>1, <2>2, AnswerPromised
  <2> QED BY <2>3, <2>4, PromiseSteps
<1>3. ASSUME NEW code6 \in BOOLEAN, iap_program_result(q, code6) PROVE UNCHANGED <<Total, NextNr, Acks>>
  <2>1. PICK m \in {"command", "hung"} : mode' = [mode EXCEPT ![q] = m]
    BY <1>3 DEF iap_program_result
  <2> QED BY <1>3, <2>1, ModeMapped, RestMapped DEF iap_program_result
<1>4. CASE spin(q)
  BY <1>4, RestMapped DEF spin, bootVars
<1>5. CASE main(q)
  <2>1. "fabric" \in Modes \ {"write"} /\ "link_check" \in Kinds \ {"ack"}
    BY DEF Modes, Kinds, AnswerKinds
  <2> QED BY <1>5, <2>1, GiveUpPromised DEF main
<1> QED BY <1>1, <1>2, <1>3, <1>4, <1>5 DEF Elsewhere

LEMMA StepPromised ==
  ASSUME BootInv, [BootNext]_bootVars
  PROVE  Promise!Next \/ UNCHANGED <<Total, NextNr, Acks>>
<1>1. CASE UNCHANGED bootVars
  BY <1>1, RestMapped DEF bootVars
<1>2. CASE Arrive \/ LineSends
  BY <1>2, RestMapped DEF Arrive, LineSends
<1>3. ASSUME NEW q \in Qtrm, LineTakes(q) PROVE Promise!Next
  <2>1. reply \in [Qtrm -> Seq(Packets)] /\ reply[q] # <<>> /\ reply' = [reply EXCEPT ![q] = Tail(reply[q])]
        /\ UNCHANGED <<mode, rx>>
    BY <1>3 DEF LineTakes, BootInv, BootTypes
  <2>2. AcksOf(reply[q]) # <<>> /\ AcksOf(Tail(reply[q])) = Tail(AcksOf(reply[q]))
    BY <2>1, AcksOfTail
  <2>3. Acks[q] # <<>> /\ Acks' = [Acks EXCEPT ![q] = Tail(Acks[q])]
    BY <2>1, <2>2 DEF Acks
  <2>4. UNCHANGED Total /\ UNCHANGED NextNr
    BY <2>1, RestMapped
  <2> QED BY <2>3, <2>4, PromiseSteps
<1> QED BY <1>1, <1>2, <1>3, CommandPromised, ReceptionPromised, ElsewherePromised DEF BootNext, BootStep

(* The bootloaders implement BitStreamReception: every announced upload is *)
(* acknowledged chunk by chunk, each number once and in order, or given up *)
(* with another packet, through timeouts, misread cells and power cycles.  *)
THEOREM ReceptionsRefined == BootSpec => ReceptionsRefine
<1>1. BootInit => Promise!Init
  <2> SUFFICES ASSUME BootInit PROVE Promise!Init
    OBVIOUS
  <2>1. AcksOf(<<>>) = <<>>
    BY DEF AcksOf
  <2>2. \A q \in Qtrm : mode[q] = "command" /\ rx[q] = Idle /\ reply[q] = <<>>
    BY DEF BootInit
  <2>3. Idle.total = 0 /\ Idle.index = 0
    BY DEF Idle
  <2> QED BY <2>1, <2>2, <2>3 DEF Promise!Init
<1>2. BootInv /\ [BootNext]_bootVars
      => [Promise!Next]_<<[q \in Qtrm |-> rx[q].total],
                          [q \in Qtrm |-> IF mode[q] = "write" THEN rx[q].index - 1 ELSE rx[q].index],
                          [q \in Qtrm |-> AcksOf(reply[q])]>>
  BY StepPromised DEF Total, NextNr, NextOf, Acks
<1>3. BootInv /\ [BootNext]_bootVars => BootInv'
  BY BootKept
<1> QED BY <1>1, <1>2, <1>3, InitBootInv, PTL DEF BootSpec, ReceptionsRefine, Promise!Spec

----------------------------------------------------------------------------
(* The firmware.                                                           *)

LEMMA PartsStart ==
  Init => /\ BootInit /\ SysInit /\ UartInit /\ HpdmaInit /\ NvmInit /\ SpiInit /\ FlashInit
          /\ GpioInit /\ focus \in Parts
BY DEF Init

LEMMA PartsStep ==
  [Next]_firmwareVars =>
    /\ [BootNext]_bootVars /\ [SysNext]_sysVars /\ [UartNext]_uartVars /\ [HpdmaNext]_hpdmaVars
    /\ [NvmNext]_nvmVars /\ [SpiNext]_spiVars /\ [FlashNext]_flashVars /\ [GpioNext]_gpioVars
    /\ UNCHANGED focus
<1>1. CASE Next
  BY <1>1, Zenon DEF Next
<1>2. CASE UNCHANGED firmwareVars
  BY <1>2 DEF firmwareVars
<1> QED BY <1>1, <1>2

(* A behaviour of the firmware is, seen from each of its parts, one of     *)
(* that part alone: a part takes a step of its own or none, and only the   *)
(* bootloader and the system services have to get on.                      *)
THEOREM PartsBehave ==
  Spec => /\ BootSpec /\ SysSpec /\ UartSpec /\ HpdmaSpec
          /\ NvmSpec /\ SpiSpec /\ FlashSpec /\ GpioSpec
BY PartsStart, PartsStep, PTL
   DEF Spec, BootSpec, SysSpec, UartSpec, HpdmaSpec, NvmSpec, SpiSpec, FlashSpec, GpioSpec

(* Every part of the firmware is well typed, for all sizes of FIFOs,       *)
(* rings, pages, chunks and ports, and whatever is called and comes in.    *)
THEOREM FirmwareTyped == Spec => []TypeOK
<1>1. Spec => [](focus \in Parts)
  <2>1. focus \in Parts /\ [Next]_firmwareVars => (focus \in Parts)'
    BY PartsStep
  <2> QED BY <2>1, PartsStart, PTL DEF Spec
<1>2. Spec => /\ []BootTypeOK /\ []SysTypeOK /\ []UartTypeOK /\ []HpdmaTypeOK
              /\ []NvmTypeOK /\ []SpiTypeOK /\ []FlashTypeOK /\ []GpioTypeOK
  BY PartsBehave, BootTypeCorrect, SysTypeAlways, UartTypeAlways, DmaAlwaysTyped, NvmAlwaysTyped,
     SpiAlwaysTyped, FlashAlwaysTyped, PortAlwaysTyped, PTL
<1>3. /\ focus \in Parts /\ BootTypeOK /\ SysTypeOK /\ UartTypeOK /\ HpdmaTypeOK /\ NvmTypeOK
      /\ SpiTypeOK /\ FlashTypeOK /\ GpioTypeOK
      => TypeOK
  BY DEF TypeOK
<1> QED BY <1>1, <1>2, <1>3, PTL

(* What each part promises it keeps in the firmware: the services give     *)
(* back what they take and hand out their own answers, the drivers send,   *)
(* move, program and set what they were asked to, and a bootloader takes   *)
(* in bit streams as BitStreamReception says and keeps its images apart.   *)
THEOREM FirmwareSafe ==
  Spec => /\ []LeavesNothingBehind /\ AnswerIsOurs /\ ClocksRestored
          /\ []UartSound /\ CompletedMeansMoved /\ []NvmSound /\ []SpiSound
          /\ []FlashSound /\ PinsAsAsked
          /\ RegionsKept /\ ReceptionsRefine
BY PartsBehave, NothingIsLeftBehind, AnswersAreOurs, ClocksAreRestored, UartAlwaysSound,
   CompletionIsTrue, NvmSafe, SpiAlwaysSound, FlashSafe, PinsAlwaysAsAsked, ImagesStayApart,
   ReceptionsRefined, PTL
=============================================================================
