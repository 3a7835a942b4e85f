---------------------------- MODULE MicronFlash ----------------------------
(***************************************************************************)
(* The serial flash that holds the image and its directory, and its driver *)
(* (micron.c): erase and program a flash that takes commands only when it  *)
(* is idle and, those that change it, only when it was write enabled, and  *)
(* that goes on by itself when the MSS starts again.                       *)
(*                                                                         *)
(* A function of the driver is the sequence of the commands it sends and   *)
(* of its waits; a command is one MSS_SPI_transfer_block (module MssSpi).  *)
(* Addresses are cells; a cell is erased, old, mixed (programmed over), or *)
(* the index of the caller's byte programmed into it.                      *)
(***************************************************************************)
EXTENDS Integers, Sequences

CONSTANTS
  PageCells,     \* NB_BYTES_PER_PAGE
  BlockCells,    \* cells of a 4K block, a multiple of PageCells
  SectorCells,   \* cells of a 64K block, a multiple of BlockCells
  FlashCells,    \* cells of the flash, a multiple of SectorCells
  MaxBytes,      \* bound on the bytes programmed or read at once
  FlashCalls,    \* bound on the calls
  FlashRestarts  \* bound on the restarts of the MSS

ASSUME FlashAssumption ==
  /\ {PageCells, BlockCells, SectorCells, FlashCells} \subseteq Nat \ {0}
  /\ BlockCells % PageCells = 0 /\ SectorCells % BlockCells = 0 /\ FlashCells % SectorCells = 0
  /\ {MaxBytes, FlashCalls, FlashRestarts} \subseteq Nat

VARIABLES
  chip,      \* the flash (external): cells, operation in progress, write enable latch
  todo,      \* what is left of the function being run
  flashLoop, \* FLASH_program's target_addr and in_buffer_idx
  flashCall, \* the call being run or run last, and what its caller was given
  flashUsed  \* calls and restarts

flashVars == <<chip, todo, flashLoop, flashCall, flashUsed>>

FlashAddr == 0..(FlashCells - 1)

(* The cells of the unit of n cells that address a is in. *)
Unit(a, n) == LET base == a - (a % n) IN base..(base + n - 1)

ErasedCell == 0
Old == -1
Mixed == -2
Garbage == -3

Idle_ == [do |-> "nothing"]

(* What an operation makes of the cells: a program stays within its page.  *)
Effect(cells, op) ==
  CASE op.do = "erase" -> [a \in FlashAddr |-> IF a \in op.unit THEN ErasedCell ELSE cells[a]]
    [] op.do = "program" ->
         LET base == op.to - (op.to % PageCells)
             hits(a) == {i \in 1..op.n : a = base + ((op.to + i - 1) % PageCells)}
         IN  [a \in FlashAddr |->
                IF hits(a) = {} THEN cells[a]
                ELSE IF cells[a] = ErasedCell /\ \E i \in hits(a) : hits(a) = {i}
                     THEN op.from + (CHOOSE i \in hits(a) : TRUE)
                     ELSE Mixed]
    [] OTHER -> cells

Settled(c) == Effect(c.cells, c.op)

----------------------------------------------------------------------------
(* The functions, as sequences of waits and commands. *)

wait_ready      == [do |-> "wait_ready"]
wait_ready_flag == [do |-> "wait_ready_flag"]
WRITE_ENABLE    == [do |-> "write_enable"]
WRITE_DISABLE   == [do |-> "write_disable"]
Erase(unit)     == [do |-> "erase", unit |-> unit]

FLASH_read_device_id == <<[do |-> "id"]>>

FLASH_get_status == <<[do |-> "status"]>>

FLASH_read(a, n) == <<wait_ready, [do |-> "read", at |-> a, n |-> n], wait_ready>>

FLASH_global_unprotect ==
  <<wait_ready, WRITE_ENABLE, wait_ready, wait_ready_flag, wait_ready,
    [do |-> "write_status"], wait_ready>>

FLASH_chip_erase == <<wait_ready, WRITE_ENABLE, wait_ready, Erase(FlashAddr), wait_ready>>

FLASH_erase_4k_block(a) ==
  <<wait_ready, WRITE_ENABLE, wait_ready_flag, wait_ready, Erase(Unit(a, BlockCells)), wait_ready>>

FLASH_erase_64k_block(a) ==
  <<wait_ready, WRITE_ENABLE, wait_ready, Erase(Unit(a, SectorCells)), wait_ready>>

FLASH_program == <<wait_ready, WRITE_ENABLE, wait_ready, WRITE_ENABLE, [do |-> "next_page"]>>

(* write_cmd_data: the command and its data in one transfer. *)
write_cmd_data(to, from, n) == [do |-> "program", to |-> to, from |-> from, n |-> n]

Bug_nb_bytes_to_write(l, size) == IF size - l.idx < PageCells THEN size - l.idx ELSE PageCells

(* What is left of the page, or of the buffer. *)
nb_bytes_to_write(l, size) ==
  LET page == PageCells - (l.target % PageCells)
  IN  IF size - l.idx < page THEN size - l.idx ELSE page

next_page(l, size) ==
  LET n == nb_bytes_to_write(l, size)
  IN  IF l.idx < size
      THEN [todo |-> <<wait_ready, WRITE_ENABLE, wait_ready, write_cmd_data(l.target, l.idx, n),
                       [do |-> "next_page"]>>,
            loop |-> [target |-> l.target + n, idx |-> l.idx + n]]
      ELSE [todo |-> <<wait_ready_flag, wait_ready, WRITE_DISABLE>>, loop |-> l]

----------------------------------------------------------------------------
FlashStart(name, a, n, steps) ==
  /\ todo = <<>> /\ flashUsed.calls < FlashCalls
  /\ todo' = steps
  /\ flashLoop' = [target |-> a, idx |-> 0]
  /\ flashCall' = [name |-> name, at |-> a, n |-> n, before |-> Settled(chip), given |-> <<>>,
                   over |-> FALSE]
  /\ flashUsed' = [flashUsed EXCEPT !.calls = @ + 1]
  /\ UNCHANGED chip

flash_call ==
  \/ FlashStart("read_device_id", 0, 0, FLASH_read_device_id)
  \/ FlashStart("get_status", 0, 0, FLASH_get_status)
  \/ FlashStart("global_unprotect", 0, 0, FLASH_global_unprotect)
  \/ FlashStart("chip_erase", 0, 0, FLASH_chip_erase)
  \/ \E a \in FlashAddr :
       \/ FlashStart("erase_4k_block", a, 0, FLASH_erase_4k_block(a))
       \/ FlashStart("erase_64k_block", a, 0, FLASH_erase_64k_block(a))
       \/ \E n \in 0..MaxBytes :
            /\ a + n <= FlashCells
            /\ \/ FlashStart("read", a, n, FLASH_read(a, n))
               \/ FlashStart("program", a, n, FLASH_program)

(* What the flash does with a command: nothing while it is busy, save      *)
(* report its status, and no operation that was not enabled.               *)
Received(c, command) ==
  IF c.op.do # "nothing" THEN c
  ELSE CASE command.do = "write_enable"  -> [c EXCEPT !.wel = TRUE]
         [] command.do = "write_disable" -> [c EXCEPT !.wel = FALSE]
         [] command.do \in {"erase", "program", "write_status"} /\ c.wel -> [c EXCEPT !.op = command]
         [] OTHER -> c

Given(c, command) ==
  CASE command.do = "status" -> <<c.op.do # "nothing", c.wel>>
    [] command.do = "read" ->
         [i \in 1..command.n |-> IF c.op.do = "nothing" THEN c.cells[command.at + i - 1] ELSE Garbage]
    [] command.do = "id" -> IF c.op.do = "nothing" THEN <<"id">> ELSE <<"garbage">>
    [] OTHER -> <<>>

flash_step ==
  LET now == Head(todo)
      l   == next_page(flashLoop, flashCall.n)
  IN  /\ todo # <<>>
      /\ now.do = "wait_ready" => chip.op.do = "nothing"
      /\ now.do = "wait_ready_flag" => chip.wel
      /\ IF now.do = "next_page" THEN todo' = l.todo /\ flashLoop' = l.loop
         ELSE todo' = Tail(todo) /\ UNCHANGED flashLoop
      /\ chip' = Received(chip, now)
      /\ flashCall' = [flashCall EXCEPT
           !.given = IF now.do \in {"status", "read", "id"} THEN Given(chip, now) ELSE @,
           !.over = (todo' = <<>>)]
      /\ UNCHANGED flashUsed

(* External: the operation is done.  The latch goes with it. *)
complete ==
  /\ chip.op.do # "nothing"
  /\ chip' = [cells |-> Settled(chip), op |-> Idle_, wel |-> FALSE]
  /\ UNCHANGED <<todo, flashLoop, flashCall, flashUsed>>

(* The MSS starts again, in the middle of a function or not; main calls    *)
(* FLASH_init, which does not reset the flash.                             *)
FLASH_init ==
  /\ flashUsed.restarts < FlashRestarts
  /\ todo' = <<>>
  /\ flashCall' = [flashCall EXCEPT !.over = FALSE]
  /\ flashUsed' = [flashUsed EXCEPT !.restarts = @ + 1]
  /\ UNCHANGED <<chip, flashLoop>>

FlashInit ==
  /\ chip = [cells |-> [a \in FlashAddr |-> Old], op |-> Idle_, wel |-> FALSE]
  /\ todo = <<>>
  /\ flashLoop = [target |-> 0, idx |-> 0]
  /\ flashCall = [name |-> "none", at |-> 0, n |-> 0, before |-> [a \in FlashAddr |-> Old],
                  given |-> <<>>, over |-> FALSE]
  /\ flashUsed = [calls |-> 0, restarts |-> 0]

FlashNext == flash_call \/ flash_step \/ complete \/ FLASH_init

FlashSpec == FlashInit /\ [][FlashNext]_flashVars

----------------------------------------------------------------------------
(* Properties. *)

FlashTypeOK ==
  /\ chip.cells \in [FlashAddr -> {Old, Mixed, ErasedCell} \cup 1..MaxBytes]
  /\ chip.wel \in BOOLEAN
  /\ flashLoop.idx \in 0..MaxBytes /\ flashLoop.target \in 0..FlashCells
  /\ Len(todo) <= 7

(* What a function of the driver leaves in the flash and gives its caller. *)
Erased(unit) ==
  chip.cells = [a \in FlashAddr |-> IF a \in unit THEN ErasedCell ELSE flashCall.before[a]]

Programmed ==
  LET range == flashCall.at..(flashCall.at + flashCall.n - 1)
  IN  chip.cells = [a \in FlashAddr |->
                      IF a \notin range THEN flashCall.before[a]
                      ELSE IF flashCall.before[a] = ErasedCell THEN a - flashCall.at + 1 ELSE Mixed]

(* When a function that erases or programs returns, the flash is idle and  *)
(* it did what was asked, everywhere it was asked to and nowhere else,     *)
(* across page boundaries, for each time the flash may take and even if    *)
(* the MSS had started again in the middle of another function; and a read *)
(* gives what the flash holds.                                             *)
FlashSound ==
  flashCall.over /\ todo = <<>> =>
    CASE flashCall.name = "erase_4k_block"  -> Erased(Unit(flashCall.at, BlockCells)) /\ chip.op = Idle_
      [] flashCall.name = "erase_64k_block" -> Erased(Unit(flashCall.at, SectorCells)) /\ chip.op = Idle_
      [] flashCall.name = "chip_erase"      -> Erased(FlashAddr) /\ chip.op = Idle_
      [] flashCall.name = "program"         -> Programmed /\ chip.op = Idle_
      [] flashCall.name = "read" ->
           flashCall.given = [i \in 1..flashCall.n |-> flashCall.before[flashCall.at + i - 1]]
      [] OTHER -> Settled(chip) = flashCall.before
=============================================================================
