-------------------------------- MODULE Serial --------------------------------
(***************************************************************************)
(* The serial port, kernel/src/hal/serial.c, and what printk makes of it:  *)
(* statements for a thread that may be interrupted between any two of      *)
(* them.  A poll of serial_write is two, because the number of the port    *)
(* waits in dx for the instruction that reads it (port_io.h), and the      *)
(* stubs of exception_stubs.asm leave another there.  The compiler may     *)
(* load that number for every poll or, since it never changes, once before *)
(* the loop (hoisted); then what a stub leaves stays for all later polls.  *)
(*                                                                         *)
(* External: the UART, which sends what it holds in its own time, and the  *)
(* other end of the line, which may send something itself.                 *)
(***************************************************************************)
EXTENDS Integers, Sequences, SequencesExt

CONSTANT FIFO  \* characters the transmitter holds: 16

ASSUME SerialAssumption == FIFO \in Nat \ {0}

VARIABLES uart, dx,
          hoisted  \* the build's loop in serial_write loads dx once, before it

serialVars == <<uart, dx, hoisted>>

COM1 == 1016         \* 0x3F8; the data register, or the divisor's low byte
STATUS == COM1 + 5
CR == "\r"
LF == "\n"
-----------------------------------------------------------------------------
(* The UART as the boot loader left it.  received is bit 5 of the last     *)
(* character that came in, which is what the data register reads as.       *)
SerialInit ==
  /\ uart \in [dlab : BOOLEAN, fifo : BOOLEAN, divisor : {0}, queue : {0},
               lost : {FALSE}, received : {FALSE}]
  /\ dx = 0
  /\ hoisted \in BOOLEAN

Register(u, port, byte) ==
  CASE port = COM1 /\ u.dlab -> [u EXCEPT !.divisor = byte]
    [] port = COM1 + 2       -> [u EXCEPT !.fifo = byte % 2 = 1, !.queue = 0]
    [] port = COM1 + 3       -> [u EXCEPT !.dlab = byte >= 128]
    [] OTHER                 -> u

(* A character written to COM1 while the transmitter is full, or while the *)
(* register there is the divisor's, is sent nowhere.                       *)
Transmit(u) ==
  IF u.dlab \/ u.queue >= (IF u.fifo THEN FIFO ELSE 1)
  THEN [u EXCEPT !.lost = TRUE] ELSE [u EXCEPT !.queue = @ + 1]

(* Bit 5 of what a port reads as. *)
Bit5(port) == IF port = STATUS THEN uart.queue = 0 ELSE uart.received

sends == /\ uart.queue > 0
         /\ uart' = [uart EXCEPT !.queue = @ - 1]
receives == uart' = [uart EXCEPT !.received = ~@]
-----------------------------------------------------------------------------
(* The statements. *)
Port(port, byte) == [do |-> "uart", port |-> port, byte |-> byte]

serial_init ==
  <<Port(COM1 + 1, 0), Port(COM1 + 3, 128), Port(COM1, 3), Port(COM1 + 1, 0),
    Port(COM1 + 3, 3), Port(COM1 + 2, 199), Port(COM1 + 4, 11)>>

(* (Variants, named after what is wrong in them, belong to no behaviour.)  *)
serial_is_ready == <<[do |-> "load"], [do |-> "ready"]>>
serial_write_WithoutWaiting(c) == <<[do |-> "send", char |-> c]>>
serial_write(c) == serial_is_ready \o <<[do |-> "send", char |-> c]>>
serial_putc(c) == IF c = LF THEN serial_write(CR) \o serial_write(c) ELSE serial_write(c)
serial_puts(str) == FlattenSeq([i \in DOMAIN str |-> serial_putc(str[i])])

(* Formats are printed as they are. *)
printk(format)  == serial_puts(format)
kprintf(format) == printk(format)

(* What a statement does.                                                  *)
uart_out(s) == /\ uart' = Register(uart, s.port, s.byte) /\ dx' = s.port
               /\ UNCHANGED hoisted
load_WrongPort == dx' = COM1 /\ UNCHANGED <<uart, hoisted>>
load  == dx' = STATUS /\ UNCHANGED <<uart, hoisted>>
send  == uart' = Transmit(uart) /\ dx' = COM1 /\ UNCHANGED hoisted

(* Until it sees bit 5, a poll goes back to its load; or, in a build that  *)
(* has the load before the loop, only reads again.                         *)
ready(at) == IF Bit5(dx) THEN at + 1 ELSE IF hoisted THEN at ELSE at - 1
=============================================================================
