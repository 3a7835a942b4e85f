--------------------------- MODULE ClockSwitching ---------------------------
(***************************************************************************)
(* The workaround of mss_sys_services.c for switching the clock            *)
(* multiplexer: before a flash freeze, a fabric digest check or an IAP the *)
(* four clock dividers of MSSDDR_FACC1_CR are stepped to their largest     *)
(* setting (or divided by 32, or only compared, as the device needs), and  *)
(* after a flash freeze they are stepped back.                             *)
(***************************************************************************)
EXTENDS Integers, Sequences

Devices  == {"010-150", "005", "060"}
Dividers == 1..4

Facc1 == [div: [Dividers -> 0..7], standby: BOOLEAN]

(* The settings a divider passes through from val to its last one. *)
determine_seq(val) ==
  CASE val = 0 -> <<0, 1, 5, 7>>
    [] val = 1 -> <<1, 5, 7>>
    [] val = 2 -> <<2, 3, 1, 5, 7>>
    [] val = 4 -> <<4, 6, 7>>
    [] val = 5 -> <<5, 7>>
    [] val = 6 -> <<6, 7>>
    [] OTHER   -> <<>>

StepDown(val) ==
  LET seq == determine_seq(val) IN IF seq = <<>> THEN val ELSE seq[Len(seq)]

StepBack(val, now) ==
  LET seq == determine_seq(val) IN IF seq = <<>> THEN now ELSE Head(seq)

(* clk_switching_fix: the register, the divisors it remembers (those of    *)
(* the last call) and whether the device's clocks allow the service.       *)
clk_switching_fix(device, facc1, divisor) ==
  CASE device = "010-150" ->
         [facc1 |-> [div |-> [i \in Dividers |-> 6], standby |-> TRUE],
          divisor |-> divisor, ok |-> TRUE]
    [] device = "005" ->
         [facc1 |-> [div |-> [i \in Dividers |-> StepDown(facc1.div[i])],
                     standby |-> TRUE],
          divisor |-> facc1.div, ok |-> TRUE]
    [] device = "060" ->
         [facc1 |-> facc1, divisor |-> facc1.div,
          ok |-> \A i \in Dividers : facc1.div[i] = facc1.div[1] /\ facc1.div[i] <= 5]

Bug_revert_clk_config(device, facc1, divisor, initial) ==
  IF device = "005"
  THEN [div |-> [i \in Dividers |-> StepBack(facc1.div[i], facc1.div[i])],
        standby |-> FALSE]
  ELSE facc1

revert_clk_config(device, facc1, divisor, initial) ==
  CASE device = "010-150" -> initial
    [] device = "005" ->
         [div |-> [i \in Dividers |-> StepBack(divisor[i], facc1.div[i])],
          standby |-> FALSE]
    [] device = "060" -> facc1
=============================================================================
