------------------------------ MODULE GpioPorts ------------------------------
(***************************************************************************)
(* The general purpose pins: 32 of the MSS behind one output register      *)
(* (mss_gpio.c), and those of a CoreGPIO in the fabric behind one, two or  *)
(* four registers as wide as its bus (core_gpio.c).  The drivers change a  *)
(* pin by reading its register and writing it back, and the handler of a   *)
(* pin's interrupt, which may set another pin, can come in between.        *)
(*                                                                         *)
(* A function is the sequence of its accesses to the registers.  A         *)
(* register is the set of its pins that are high.                          *)
(***************************************************************************)
EXTENDS Integers, Sequences

CONSTANTS
  NB_OF_GPIO,  \* pins of a port
  BusPins,     \* pins of a register of the CoreGPIO: 8, 16 or 32
  GpioCalls,   \* bound on the calls
  GpioEdges    \* bound on the interrupts

ASSUME GpioAssumption ==
  /\ {NB_OF_GPIO, BusPins} \subseteq Nat \ {0} /\ NB_OF_GPIO % BusPins = 0
  /\ {GpioCalls, GpioEdges} \subseteq Nat

VARIABLES
  gpio,      \* the registers of the port, and which port it is
  gpioTodo,  \* accesses that are left of the call the thread is in
  gpioHeld,  \* what it has read
  gpioAsked, \* history: what each pin was last asked to be; calls and edges
  gpioTorn   \* history: pins a handler set while the thread was changing their register

gpioVars == <<gpio, gpioTodo, gpioHeld, gpioAsked, gpioTorn>>

Pins == 0..(NB_OF_GPIO - 1)

(* The pins that share an output register with pin p. *)
Register(p) ==
  IF gpio.port = "mss" THEN Pins ELSE {q \in Pins : q \div BusPins = p \div BusPins}

With(set, p, on) == IF on THEN set \cup {p} ELSE set \ {p}

----------------------------------------------------------------------------
(* Accesses. *)

Load(p)      == [do |-> "load", pin |-> p]
Put(p, on)   == [do |-> "put", pin |-> p, on |-> on]
Fill(p, all) == [do |-> "fill", pin |-> p, all |-> all]
Cfg(f, p, on) == [do |-> f, pin |-> p, on |-> on]
Ack(set)     == [do |-> "ack", pins |-> set]

Bug_Stored(access) == With({}, access.pin, access.on)

(* What is written back: the register as it was read, with one pin changed. *)
Stored(access) == With(gpioHeld, access.pin, access.on)

(* The registers after an access. *)
Accessed(g, access) ==
  CASE access.do = "put"    -> [g EXCEPT !.out = (@ \ Register(access.pin))
                                          \cup (Stored(access) \cap Register(access.pin))]
    [] access.do = "fill"   -> [g EXCEPT !.out = (@ \ Register(access.pin))
                                          \cup (access.all \cap Register(access.pin))]
    [] access.do = "buffer" -> [g EXCEPT !.buffer = With(@, access.pin, access.on)]
    [] access.do = "ie"     -> [g EXCEPT !.ie = With(@, access.pin, access.on)]
    [] access.do = "config" -> [g EXCEPT !.buffer = With(@, access.pin, access.on),
                                         !.ie = With(@, access.pin, access.enable)]
    [] access.do = "ack"    -> [g EXCEPT !.irq = @ \ access.pins]
    [] OTHER                -> g

(* Does a write that is left set pin p for good? *)
Sets(access, p) ==
  \/ access.do = "put"  /\ p = access.pin
  \/ access.do = "fill" /\ p \in Register(access.pin)

(* A call of the thread on a port: its accesses, and what it asks for.     *)
GpioCall(port, accesses, asked) ==
  /\ gpio.port = port /\ gpioTodo = <<>> /\ gpioAsked.calls < GpioCalls
  /\ gpioTodo' = accesses
  /\ gpioAsked' = [asked EXCEPT !.calls = @ + 1]
  /\ gpioTorn' = {p \in gpioTorn : \A i \in 1..Len(accesses) : ~Sets(accesses[i], p)}
  /\ UNCHANGED <<gpio, gpioHeld>>

SetOut(port, p, on) ==
  GpioCall(port, <<Load(p), Put(p, on)>>, [gpioAsked EXCEPT !.out = With(@, p, on)])

(* The output buffer is enabled once the level is right. *)
Drive(port, p, state) ==
  IF state = "HIGH_Z"
  THEN GpioCall(port, <<Cfg("buffer", p, FALSE)>>, [gpioAsked EXCEPT !.buffer = @ \ {p}])
  ELSE GpioCall(port, <<Load(p), Put(p, state = "DRIVE_HIGH"), Cfg("buffer", p, TRUE)>>,
                [gpioAsked EXCEPT !.out = With(@, p, state = "DRIVE_HIGH"), !.buffer = @ \cup {p}])

Enable(port, p, on) ==
  GpioCall(port, <<Cfg("ie", p, on)>>, [gpioAsked EXCEPT !.ie = With(@, p, on)])

(* One write sets the whole configuration of a pin. *)
Config(port, p, buffer, ie) ==
  GpioCall(port, <<[do |-> "config", pin |-> p, on |-> buffer, enable |-> ie]>>,
           [gpioAsked EXCEPT !.buffer = With(@, p, buffer), !.ie = With(@, p, ie)])

(* mss_gpio.c *)
MSS_GPIO_init ==
  /\ gpio.port = "mss" /\ gpioTodo = <<>> /\ gpioAsked.calls < GpioCalls
  /\ gpio' = [gpio EXCEPT !.out = {}, !.buffer = {}, !.ie = {}, !.irq = {}]
  /\ gpioAsked' = [gpioAsked EXCEPT !.out = {}, !.buffer = {}, !.ie = {}, !.calls = @ + 1]
  /\ gpioTorn' = {}
  /\ UNCHANGED <<gpioTodo, gpioHeld>>

MSS_GPIO_config(p, buffer, ie)  == Config("mss", p, buffer, ie)
MSS_GPIO_set_outputs(all) ==
  GpioCall("mss", <<Fill(0, all)>>, [gpioAsked EXCEPT !.out = all])
MSS_GPIO_set_output(p, on)      == SetOut("mss", p, on)
MSS_GPIO_drive_inout(p, state)  == Drive("mss", p, state)
MSS_GPIO_enable_irq(p)          == Enable("mss", p, TRUE)
MSS_GPIO_disable_irq(p)         == Enable("mss", p, FALSE)
MSS_GPIO_clear_irq(p)           == GpioCall("mss", <<Ack({p})>>, gpioAsked)

(* core_gpio.c.  It does not know the levels of the outputs it starts with. *)
(* The first pin of each register. *)
Firsts == [i \in 1..(NB_OF_GPIO \div BusPins) |-> (i - 1) * BusPins]

GPIO_init ==
  GpioCall("core", [i \in 1..NB_OF_GPIO |-> Cfg("buffer", i - 1, FALSE)]
                     \o [i \in 1..NB_OF_GPIO |-> Cfg("ie", i - 1, FALSE)] \o <<Ack(Pins)>>,
           [gpioAsked EXCEPT !.buffer = {}, !.ie = {}])

GPIO_set_outputs(all) ==
  GpioCall("core", [i \in DOMAIN Firsts |-> Fill(Firsts[i], all)], [gpioAsked EXCEPT !.out = all])

GPIO_config(p, buffer, ie)  == Config("core", p, buffer, ie)
GPIO_set_output(p, on)      == SetOut("core", p, on)
GPIO_drive_inout(p, state)  == Drive("core", p, state)
GPIO_enable_irq(p)          == Enable("core", p, TRUE)
GPIO_disable_irq(p)         == Enable("core", p, FALSE)
GPIO_clear_irq(p)           == GpioCall("core", <<Ack({p})>>, gpioAsked)
GPIO_clear_all_irq_sources(mask) == GpioCall("core", <<Ack(mask)>>, gpioAsked)

gpio_access ==
  LET access == Head(gpioTodo)
  IN  /\ gpioTodo # <<>>
      /\ gpioTodo' = Tail(gpioTodo)
      /\ gpioHeld' = IF access.do = "load" THEN gpio.out \cap Register(access.pin) ELSE gpioHeld
      /\ gpio' = Accessed(gpio, access)
      /\ UNCHANGED <<gpioAsked, gpioTorn>>

----------------------------------------------------------------------------
(* A pin's level raises its interrupt (external) ... *)
edge(p) ==
  /\ p \in gpio.ie \ gpio.irq /\ gpioAsked.edges < GpioEdges
  /\ gpio' = [gpio EXCEPT !.irq = @ \cup {p}]
  /\ gpioAsked' = [gpioAsked EXCEPT !.edges = @ + 1]
  /\ UNCHANGED <<gpioTodo, gpioHeld, gpioTorn>>

(* ... and the application's handler clears it and sets pin q, with the    *)
(* same functions and between any two accesses of the thread.  A pin it    *)
(* sets is torn if a write that is left sets that pin too, or if its       *)
(* register has been read and is about to be written back.                 *)
gpio_handler(p, q, on) ==
  /\ p \in gpio.irq \cap gpio.ie
  /\ gpio' = [gpio EXCEPT !.irq = @ \ {p}, !.out = With(@, q, on)]
  /\ gpioAsked' = [gpioAsked EXCEPT !.out = With(@, q, on)]
  /\ gpioTorn' = IF \E i \in 1..Len(gpioTodo) :
                       \/ Sets(gpioTodo[i], q)
                       \/ i = 1 /\ gpioTodo[i].do = "put" /\ q \in Register(gpioTodo[i].pin)
                 THEN gpioTorn \cup {q} ELSE gpioTorn \ {q}
  /\ UNCHANGED <<gpioTodo, gpioHeld>>

----------------------------------------------------------------------------
GpioInit ==
  /\ gpio \in [port : {"mss", "core"}, out : {{}}, buffer : {{}}, ie : {{}}, irq : {{}}]
  /\ gpioTodo = <<>> /\ gpioHeld = {} /\ gpioTorn = {}
  /\ gpioAsked = [out |-> {}, buffer |-> {}, ie |-> {}, calls |-> 0, edges |-> 0]

Levels == {"DRIVE_HIGH", "DRIVE_LOW", "HIGH_Z"}

GpioCalling ==
  \/ MSS_GPIO_init \/ GPIO_init
  \/ \E all \in SUBSET Pins :
       MSS_GPIO_set_outputs(all) \/ GPIO_set_outputs(all) \/ GPIO_clear_all_irq_sources(all)
  \/ \E p \in Pins :
       \/ MSS_GPIO_enable_irq(p) \/ MSS_GPIO_disable_irq(p) \/ MSS_GPIO_clear_irq(p)
       \/ GPIO_enable_irq(p) \/ GPIO_disable_irq(p) \/ GPIO_clear_irq(p)
       \/ \E on, ie \in BOOLEAN : MSS_GPIO_config(p, on, ie) \/ GPIO_config(p, on, ie)
       \/ \E on \in BOOLEAN : MSS_GPIO_set_output(p, on) \/ GPIO_set_output(p, on)
       \/ \E state \in Levels : MSS_GPIO_drive_inout(p, state) \/ GPIO_drive_inout(p, state)

GpioNext ==
  \/ GpioCalling \/ gpio_access
  \/ \E p \in Pins : edge(p) \/ \E q \in Pins, on \in BOOLEAN : gpio_handler(p, q, on)

GpioSpec == GpioInit /\ [][GpioNext]_gpioVars

----------------------------------------------------------------------------
(* Properties. *)

GpioTypeOK ==
  /\ gpio.out \subseteq Pins /\ gpio.buffer \subseteq Pins /\ gpio.ie \subseteq Pins
  /\ gpio.irq \subseteq Pins /\ gpioTorn \subseteq Pins /\ gpioHeld \subseteq Pins

(* When a call ends, every pin is what it was last asked to be, by the     *)
(* thread or by a handler, save the pins a handler set while the call had  *)
(* yet to set them, and those it set between the read and the write of     *)
(* their register: on the MSS that may be any pin, on a narrow CoreGPIO    *)
(* bus only one that shares the register.  And a pin is never driven       *)
(* before it has the level it is to be driven to.                          *)
PinsAsAsked ==
  [][gpio_access =>
       /\ gpioTodo' = <<>> =>
            /\ \A p \in Pins \ gpioTorn : p \in gpio'.out <=> p \in gpioAsked.out
            /\ gpio'.buffer = gpioAsked.buffer /\ gpio'.ie = gpioAsked.ie
       /\ Head(gpioTodo).do = "buffer" /\ Len(gpioTodo) = 1 =>
            \A p \in (gpio'.buffer \ gpio.buffer) \ gpioTorn :
              p \in gpio.out <=> p \in gpioAsked.out]_gpioVars
=============================================================================
