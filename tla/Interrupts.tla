----------------------------- MODULE Interrupts -----------------------------
(***************************************************************************)
(* The two interrupt controllers as student-distrib/i8259.c programs them, *)
(* the gates of idt.c, the interrupt flag, and the three devices whose     *)
(* handlers the kernel installs.  What the controllers and the devices do  *)
(* by themselves (Raise, Deliverable, the effect of a command) is hardware *)
(* and modelled from the way the kernel uses it.                           *)
(***************************************************************************)
EXTENDS Integers, FiniteSets

Lines    == 0 .. 15
PIT_IRQ  == 0
KEYBOARD_PIC == 1
CASCADE  == 2           \* the line of the master the slave is connected to
RTC_PIC  == 8
Devices  == {PIT_IRQ, KEYBOARD_PIC, RTC_PIC}
ICW2_MASTER == 32       \* the first vector of each controller
ICW2_SLAVE  == 40

VARIABLES
    masked,     \* master_mask and slave_mask: the lines whose bit is set
    ready,      \* has i8259_init been run?
    irr,        \* requested lines
    isr,        \* lines in service: accepted, no EOI yet
    waiting,    \* devices that raise their line again only after the handler
                \* has read their data (keyboard byte, RTC register C)
    rtc_on,     \* has rtc_init enabled the periodic interrupt?
    IF_flag,    \* the interrupt flag of the processor
    handler     \* the handler that has been entered, "none" outside handlers

ivars == <<masked, ready, irr, isr, waiting, rtc_on, IF_flag, handler>>

InterruptsInit ==
    /\ masked = Lines
    /\ ready = FALSE
    /\ irr = {} /\ isr = {} /\ waiting = {}
    /\ rtc_on = FALSE
    /\ IF_flag = FALSE
    /\ handler = "none"
----------------------------------------------------------------------------
(* The gates: set_intr_gate, set_system_gate and set_system_intr_gate.     *)
set_intr_gate(name)        == [name |-> name, trap |-> FALSE, user |-> FALSE]
set_system_gate(name)      == [name |-> name, trap |-> TRUE,  user |-> TRUE]
set_system_intr_gate(name) == [name |-> name, trap |-> FALSE, user |-> TRUE]

Overflow == 4
Bound_Range_Exceeded == 5
Exceptions == 0 .. 31

(* idt_init: the gate of vector v.                                         *)
idt(v) ==
    IF v \in {Overflow, Bound_Range_Exceeded} THEN set_system_gate("exception")
    ELSE IF v = 3 THEN set_system_intr_gate("exception")
    ELSE IF v \in Exceptions THEN set_intr_gate("exception")
    ELSE IF v = 32 THEN set_intr_gate("PIT")
    ELSE IF v = 33 THEN set_intr_gate("Keyboard")
    ELSE IF v = 40 THEN set_intr_gate("RTC")
    ELSE IF v = 128 THEN set_system_intr_gate("System_Call")
    ELSE set_intr_gate("none")
----------------------------------------------------------------------------
(* i8259_init: the initialisation words reset both controllers, then the   *)
(* masks, still all set, are written.                                      *)
i8259_init ==
    /\ ready' = TRUE
    /\ irr' = {} /\ isr' = {}
    /\ masked' = Lines
    /\ UNCHANGED <<waiting, rtc_on, IF_flag, handler>>

enable_irq(irq) ==
    masked' = masked \ (IF irq <= 7 THEN {irq} ELSE {CASCADE, irq})

\* Mutant: an interrupt of the slave is acknowledged at the master only.
eoi_master_only(irq, service) == service \ (IF irq <= 7 THEN {irq} ELSE {CASCADE})

(* send_eoi: the specific EOI commands it sends, on the lines in service.  *)
send_eoi(irq, service) ==
    service \ (IF irq <= 7 THEN {irq} ELSE {CASCADE, irq})

(* rtc_init sets the periodic interrupt bit of register B.                 *)
rtc_init ==
    /\ rtc_on' = TRUE
    /\ UNCHANGED <<masked, ready, irr, isr, waiting, IF_flag, handler>>
----------------------------------------------------------------------------
(* A device raises its line.  The keyboard and the clock keep it raised    *)
(* until their handler has read the data, and only a new edge is a request; *)
(* a second tick of the timer before the first is accepted is lost.        *)
Raise(d) ==
    /\ ready
    /\ d \notin waiting
    /\ d = RTC_PIC => rtc_on
    /\ d \notin irr
    /\ irr' = irr \cup {d}
    /\ waiting' = IF d = PIT_IRQ THEN waiting ELSE waiting \cup {d}
    /\ UNCHANGED <<masked, ready, isr, rtc_on, IF_flag, handler>>

(* Position in the priority order: the slave's lines are at CASCADE.       *)
Priority(d) == IF d = RTC_PIC THEN CASCADE ELSE d

Unmasked(d) == d \notin masked /\ Priority(d) \notin masked

(* The controllers pass on the highest request that is unmasked and above  *)
(* everything in service.                                                  *)
Deliverable(d) ==
    /\ d \in irr /\ Unmasked(d)
    /\ \A s \in isr : Priority(d) < s
    /\ \A e \in irr : Unmasked(e) => Priority(d) <= Priority(e)

VectorOf(d) == IF d <= 7 THEN ICW2_MASTER + d ELSE ICW2_SLAVE + d - 8

(* The processor accepts an interrupt: the line goes into service, the     *)
(* gate of its vector is entered and an interrupt gate clears the flag.    *)
Accept(d) ==
    /\ IF_flag
    /\ Deliverable(d)
    /\ irr' = irr \ {d}
    /\ isr' = isr \cup {d, Priority(d)}
    /\ handler' = idt(VectorOf(d)).name
    /\ IF_flag' = (IF_flag /\ idt(VectorOf(d)).trap)
    /\ UNCHANGED <<masked, ready, waiting, rtc_on>>

\* Mutant: the handler returns without reading the device's data.
HandlerDoneUnread(d, service) ==
    /\ handler' = "none"
    /\ isr' = service
    /\ UNCHANGED <<masked, ready, irr, rtc_on, waiting>>

(* A handler ends: its data has been read and its EOI sent.  The flag is   *)
(* the one iret finds in the frame it returns through.                     *)
HandlerDone(d, service) ==
    /\ handler' = "none"
    /\ isr' = service
    /\ waiting' = waiting \ {d}
    /\ UNCHANGED <<masked, ready, irr, rtc_on>>

(* rtc_handler, as far as the devices are concerned: register C is read,   *)
(* then the EOI is sent.                                                   *)
rtc_handler == handler = "RTC" /\ HandlerDone(RTC_PIC, send_eoi(RTC_PIC, isr))

(* keyboard_handler: the scancode is read first, and every path through    *)
(* the handler sends the EOI before it returns.                            *)
keyboard_handler ==
    handler = "Keyboard" /\ HandlerDone(KEYBOARD_PIC, send_eoi(KEYBOARD_PIC, isr))
----------------------------------------------------------------------------
(* Between handlers nothing is left in service: whatever way a handler is  *)
(* left, the next interrupt of every device can be accepted.               *)
NothingInService == handler = "none" => isr = {}

(* Each accepted interrupt enters the handler of the device that raised    *)
(* it, with interrupts off.                                                *)
RightHandler ==
    handler # "none" =>
        /\ ~IF_flag
        /\ \/ handler = "PIT"      /\ isr = {PIT_IRQ}
           \/ handler = "Keyboard" /\ isr = {KEYBOARD_PIC}
           \/ handler = "RTC"      /\ isr = {CASCADE, RTC_PIC}

(* Both: the controllers' service registers and the handler that runs are  *)
(* in step, from the vector and the gate to the last EOI.                  *)
ServiceInStep == NothingInService /\ RightHandler

(* A device that has raised its line and waits for its data to be read has *)
(* a request pending or in service: the edge that says so is not lost, and *)
(* the device is not silent for ever.                                      *)
NoEdgeLost == waiting \subseteq irr \cup isr
============================================================================
