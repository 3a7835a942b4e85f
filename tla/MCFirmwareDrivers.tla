-------------------------- MODULE MCFirmwareDrivers --------------------------
(***************************************************************************)
(* The parts of the bootloader's firmware, each on its own: its main loop  *)
(* and the seven drivers.  They keep their state in variables of their own *)
(* and meet only where one calls another, which each module describes as   *)
(* it sees it; so what one of them does never depends on how far another   *)
(* has come, and a behaviour of this model exercises one of them, its      *)
(* focus, while the others rest in an initial state.                       *)
(***************************************************************************)
EXTENDS QtrmBootloader, SystemServices, MssUart, MssHpdma, MssNvm, MssSpi, MicronFlash,
        GpioPorts

(* Calls that reach each of the ways a command is sent and answered.       *)
MCExercised ==
  {Request(n, "none") : n \in {"zeroize", "puf_create_activation_code", "flash_freeze"}}
  \cup {Request("initiate_iap", m) : m \in {"program", "verify"}}
  \cup {Request("start_isp", m) : m \in {"authenticate", "program"}}

VARIABLE focus   \* the part that is exercised

firmwareVars == <<focus, bootVars, sysVars, uartVars, hpdmaVars, nvmVars, spiVars, flashVars,
                  gpioVars>>

Parts == {"boot", "sys", "uart", "hpdma", "nvm", "spi", "flash", "gpio"}

(* A part that rests does so in one of its initial states. *)
Init ==
  /\ focus \in Parts
  /\ BootInit /\ SysInit /\ UartInit /\ HpdmaInit /\ NvmInit /\ SpiInit /\ FlashInit /\ GpioInit
  /\ focus # "sys"  => sys.device = "005"
  /\ focus # "nvm"  => envm.device = "005" /\ \A u \in 0..3 : envm.protect[u] = WRITE_ENABLED
  /\ focus # "gpio" => gpio.port = "mss"

Next ==
  /\ UNCHANGED focus
  /\ \/ focus = "boot"  /\ BootNext
     \/ focus = "sys"   /\ SysNext
     \/ focus = "uart"  /\ UartNext
     \/ focus = "hpdma" /\ HpdmaNext
     \/ focus = "nvm"   /\ NvmNext
     \/ focus = "spi"   /\ SpiNext
     \/ focus = "flash" /\ FlashNext
     \/ focus = "gpio"  /\ GpioNext
  /\ IF focus = "boot" THEN TRUE ELSE UNCHANGED bootVars
  /\ IF focus = "sys" THEN TRUE ELSE UNCHANGED sysVars
  /\ IF focus = "uart" THEN TRUE ELSE UNCHANGED uartVars
  /\ IF focus = "hpdma" THEN TRUE ELSE UNCHANGED hpdmaVars
  /\ IF focus = "nvm" THEN TRUE ELSE UNCHANGED nvmVars
  /\ IF focus = "spi" THEN TRUE ELSE UNCHANGED spiVars
  /\ IF focus = "flash" THEN TRUE ELSE UNCHANGED flashVars
  /\ IF focus = "gpio" THEN TRUE ELSE UNCHANGED gpioVars

(* The fairness of each part; one that rests has no step to take. *)
Spec == Init /\ [][Next]_firmwareVars /\ BootFairness /\ SysFairness

(* Every part is well typed. *)
TypeOK ==
  /\ focus \in Parts
  /\ BootTypeOK /\ SysTypeOK /\ UartTypeOK /\ HpdmaTypeOK /\ NvmTypeOK /\ SpiTypeOK
  /\ FlashTypeOK /\ GpioTypeOK
=============================================================================
