--------------------------------- MODULE Boot ---------------------------------
(***************************************************************************)
(* From the boot loader to the idle loop, with interrupts coming in: the   *)
(* kernel thread (kernel/src/boot.asm, kernel.c) runs gdt_init (gdt.c),    *)
(* idt_init (idt.c), pic_remap (pic.c) and irq_init (irq.c), which turn    *)
(* interrupts on before the controllers (Pic8259) have been moved away     *)
(* from the vectors of the exceptions, then mm_init (HeapSizing).  It      *)
(* prints (Serial) all along, and the stubs that devices enter             *)
(* (exception_stubs.asm) print through the same port.  The program is a    *)
(* sequence of statements, and a device may interrupt between any two of   *)
(* them; a message printed where none can is only named.                   *)
(*                                                                         *)
(* External: the processor's interrupt entry and iret.                     *)
(***************************************************************************)
EXTENDS Pic8259, Serial, HeapSizing

CONSTANT Masks  \* values the boot loader may leave in a mask register

ASSUME BootAssumption == Masks \subseteq 0..255

VARIABLES pc,       \* index of the next statement of Program
          IF_flag,  \* interrupts are on
          stack,    \* what boot.asm has pushed, last first
          told,     \* the address mm_init was given as multiboot_info_t*
          gdt,      \* gdt_entries
          gates,    \* vectors with a gate in idt_entries
          loaded,   \* which of gdt_ptr, idt_ptr and the segment registers are
          saved,    \* a1 and a2 of pic_remap
          running   \* "kernel", "handler", or "fault"

given  == <<stack, told>>
tables == <<gdt, gates, loaded>>
vars   == <<pc, IF_flag, given, tables, saved, chips, running, serialVars, sizingVars>>
-----------------------------------------------------------------------------
(* The program. *)
Do(what) == [do |-> what]
Segment(num, base, limit, access, gran) ==
  [do |-> "segment", num |-> num, base |-> base, limit |-> limit,
   access |-> access, gran |-> gran]
Gate(num) == [do |-> "gate", num |-> num]
On(what, chip) == [do |-> what, chip |-> chip]
Outb(what, chip, byte) == [do |-> what, chip |-> chip, byte |-> byte]
Push(register) == [do |-> "push", register |-> register]
Call(name) == [do |-> "call", name |-> name]

message == <<"text", LF>>  \* any line printed

(* Multiboot: ebx holds the address of the information, eax the magic.     *)
start == <<Do("cli"), Push("ebx"), Push("eax")>>

(* The access bytes of a code and of a data segment; -1 is 0xFFFFFFFF.     *)
CODE == 154  \* 0x9A
DATA == 146  \* 0x92
gdt_init ==
  <<Call("printk"),
    Segment(0, 0, 0, 0, 0), Segment(1, 0, -1, CODE, 207), Segment(2, 0, -1, DATA, 207),
    Do("lgdt"), Do("reload"), Call("printk")>>

idt_init == <<Do("cli"), Call("printk"), Call("printk"), Do("clear"),
              Gate(0), Gate(6), Gate(8), Gate(13), Gate(14), Do("lidt"), Do("sti")>>
            \o printk(message)

ICW1 == 17  \* ICW1_INIT | ICW1_ICW4
pic_remap(offset1, offset2) ==
  <<On("inb", 1), On("inb", 2),
    Outb("command", 1, ICW1), Outb("command", 2, ICW1),
    Outb("data", 1, offset1), Outb("data", 2, offset2),
    Outb("data", 1, 4),       Outb("data", 2, 2),
    Outb("data", 1, 1),       Outb("data", 2, 1),
    On("restore", 1),         On("restore", 2),
    Outb("data", 1, 255),     Outb("data", 2, 255),
    Call("printk")>>

irq_init_WithoutRemap == <<Call("printk"), Call("default handlers"), Call("printk")>>
irq_init == <<Call("printk"), Call("default handlers")>>
              \o pic_remap(32, 40) \o <<Call("printk")>>

kernel_main_IdtFirst ==
  serial_init \o idt_init \o kprintf(message) \o gdt_init \o <<Call("kprintf")>>
    \o pic_remap(32, 40) \o <<Call("kprintf")>>
    \o irq_init \o <<Call("kprintf"), Call("kprintf")>>
    \o <<Do("mm_init"), Call("ipc_init"), Call("load_multiboot_modules"),
         Call("initialize_modules"), Call("kprintf")>>
kernel_main ==
  serial_init \o <<Call("kprintf")>>
    \o gdt_init \o <<Call("kprintf")>>
    \o idt_init \o kprintf(message)
    \o pic_remap(32, 40) \o <<Call("kprintf")>>
    \o irq_init \o <<Call("kprintf"), Call("kprintf")>>
    \o <<Do("mm_init"), Call("ipc_init"), Call("load_multiboot_modules"),
         Call("initialize_modules"), Call("kprintf")>>

Program == start \o kernel_main

(* Where the master is first told its new offset, where kernel_main is     *)
(* done with interrupts, and its idle loop.                                *)
IndexOf(what) == CHOOSE i \in 1..Len(Program) :
  Program[i].do = what /\ \A k \in 1..(i - 1) : Program[k].do # what
Remapped    == IndexOf("command") + 3
Initialised == IndexOf("mm_init")
Idle        == Len(Program) + 1
-----------------------------------------------------------------------------
NoSegment == [base |-> 0, limit |-> 0, access |-> 0, gran |-> 0]

Init ==
  /\ pc = 1 /\ IF_flag = FALSE
  /\ stack = <<>> /\ told = "nothing"
  /\ gdt = [num \in 0..2 |-> NoSegment]
  /\ gates = {} /\ loaded = {}
  /\ saved = <<0, 0>>
  /\ \E m1, m2 \in Masks :
       chips = <<[offset |-> 8,   imr |-> m1, irr |-> {}, isr |-> {}, icw |-> 0],
                 [offset |-> 112, imr |-> m2, irr |-> {}, isr |-> {}, icw |-> 0]>>
  /\ running = "kernel"
  /\ SerialInit /\ SizingInit

Stmt == Program[pc]
Reaches(what) == /\ running = "kernel"
                 /\ pc < Idle /\ Stmt.do = what
                 /\ UNCHANGED running
Executes(what) == Reaches(what) /\ pc' = pc + 1
Elsewhere == UNCHANGED <<serialVars, sizingVars>>

cli == /\ Executes("cli") /\ IF_flag' = FALSE
       /\ UNCHANGED <<given, tables, saved, chips>> /\ Elsewhere
sti == /\ Executes("sti") /\ IF_flag' = TRUE
       /\ UNCHANGED <<given, tables, saved, chips>> /\ Elsewhere
push == /\ Executes("push") /\ stack' = <<Stmt.register>> \o stack
        /\ UNCHANGED <<IF_flag, told, tables, saved, chips>> /\ Elsewhere

(* A descriptor holds the low twenty bits of the limit and the high four   *)
(* of gran, whose bit 7 makes the limit count pages.                       *)
gdt_set_gate ==
  /\ Executes("segment")
  /\ gdt' = [gdt EXCEPT ![Stmt.num] =
                [base |-> Stmt.base, limit |-> Stmt.limit % 2^20,
                 access |-> Stmt.access, gran |-> Stmt.gran \div 16]]
  /\ UNCHANGED <<IF_flag, given, gates, loaded, saved, chips>> /\ Elsewhere
gdt_flush ==
  /\ \/ Executes("lgdt") /\ loaded' = loaded \cup {"gdt"}
     \/ Executes("reload") /\ loaded' = loaded \cup {"segments"}
  /\ UNCHANGED <<IF_flag, given, gdt, gates, saved, chips>> /\ Elsewhere

idt_clear == /\ Executes("clear") /\ gates' = {}
             /\ UNCHANGED <<IF_flag, given, gdt, loaded, saved, chips>> /\ Elsewhere
idt_set_gate == /\ Executes("gate") /\ gates' = gates \cup {Stmt.num}
                /\ UNCHANGED <<IF_flag, given, gdt, loaded, saved, chips>> /\ Elsewhere
load_idt == /\ Executes("lidt") /\ loaded' = loaded \cup {"idt"}
            /\ UNCHANGED <<IF_flag, given, gdt, gates, saved, chips>> /\ Elsewhere

(* Its argument is the last word pushed before the call of kernel_main;    *)
(* what it reads there may be anything.                                    *)
mm_init == /\ Executes("mm_init") /\ told' = Head(stack)
           /\ \E end \in KernelEnds, info \in Infos : init_heap(end, info)
           /\ UNCHANGED <<IF_flag, stack, tables, saved, chips, serialVars>>
call == /\ Executes("call")
        /\ UNCHANGED <<IF_flag, given, tables, saved, chips>> /\ Elsewhere

(* Printing. *)
serial_out == /\ Executes("uart") /\ uart_out(Stmt)
              /\ UNCHANGED <<IF_flag, given, tables, saved, chips, sizingVars>>
serial_load == /\ Executes("load") /\ load
               /\ UNCHANGED <<IF_flag, given, tables, saved, chips, sizingVars>>
serial_ready == /\ Reaches("ready")
                /\ pc' = ready(pc)
                /\ UNCHANGED <<IF_flag, given, tables, saved, chips>> /\ Elsewhere
serial_send == /\ Executes("send") /\ send
               /\ UNCHANGED <<IF_flag, given, tables, saved, chips, sizingVars>>

(* The ports of the controllers.  Reading a data port gives the mask.      *)
inb == /\ Executes("inb")
       /\ saved' = [saved EXCEPT ![Stmt.chip] = chips[Stmt.chip].imr]
       /\ UNCHANGED <<IF_flag, given, tables, chips>> /\ Elsewhere
outb_command ==
  /\ Executes("command")
  /\ chips' = [chips EXCEPT ![Stmt.chip] = Reset(@)]
  /\ UNCHANGED <<IF_flag, given, tables, saved>> /\ Elsewhere
outb_data ==
  /\ Executes("data")
  /\ chips' = [chips EXCEPT ![Stmt.chip] = WithData(@, Stmt.byte)]
  /\ UNCHANGED <<IF_flag, given, tables, saved>> /\ Elsewhere
outb_saved ==
  /\ Executes("restore")
  /\ chips' = [chips EXCEPT ![Stmt.chip] = WithData(@, saved[Stmt.chip])]
  /\ UNCHANGED <<IF_flag, given, tables, saved>> /\ Elsewhere
-----------------------------------------------------------------------------
(* Devices: they ask for interrupts, and the UART sends and receives. *)
request(line) ==
  /\ running # "fault"
  /\ raise(line)
  /\ UNCHANGED <<pc, IF_flag, given, tables, saved, running>> /\ Elsewhere
uart_sends ==
  /\ running # "fault" /\ sends
  /\ UNCHANGED <<pc, IF_flag, given, tables, saved, chips, running, dx, hoisted, sizingVars>>
uart_receives ==
  /\ running # "fault" /\ receives
  /\ UNCHANGED <<pc, IF_flag, given, tables, saved, chips, running, dx, hoisted, sizingVars>>

(* The processor enters the vector's handler, in segment 1, with           *)
(* interrupts off; without a gate there, or a segment, what it does is no  *)
(* longer what the program says.                                           *)
HandlersSegment == "gdt" \in loaded /\ gdt[1].access = CODE
interrupt ==
  /\ running = "kernel" /\ IF_flag /\ Master # {}
  /\ running' = IF "idt" \in loaded /\ Vector \in gates /\ HandlersSegment
                THEN "handler" ELSE "fault"
  /\ IF_flag' = FALSE
  /\ chips' = Acknowledged
  /\ UNCHANGED <<pc, given, tables, saved>> /\ Elsewhere

(* isr8, isr13 and isr14 send a letter without looking whether there is    *)
(* room, leave COM1 in dx and return; they are handlers of exceptions and  *)
(* tell the controllers nothing.                                           *)
isr ==
  /\ running = "handler"
  /\ send
  /\ running' = "kernel" /\ IF_flag' = TRUE
  /\ UNCHANGED <<pc, given, tables, saved, chips, sizingVars>>

hlt == running = "kernel" /\ pc = Idle /\ UNCHANGED vars
adrift == running = "fault" /\ UNCHANGED vars

kernel_step ==
  \/ cli \/ sti \/ push \/ gdt_set_gate \/ gdt_flush \/ idt_clear \/ idt_set_gate
  \/ load_idt \/ inb \/ outb_command \/ outb_data \/ outb_saved
  \/ serial_out \/ serial_load \/ serial_ready \/ serial_send \/ mm_init \/ call

Next == \/ kernel_step \/ hlt
        \/ \E line \in Lines : request(line)
        \/ uart_sends \/ uart_receives
        \/ interrupt \/ isr \/ adrift

(* The processor executes, and the UART sends what it was given; devices   *)
(* may or may not ask for anything.                                        *)
Spec == /\ Init /\ [][Next]_vars
        /\ WF_vars(kernel_step) /\ WF_vars(isr) /\ WF_vars(uart_sends)
-----------------------------------------------------------------------------
(* Whatever came in on the way, and in whichever of the three states the   *)
(* controllers were then, when kernel_main goes on after irq_init they are *)
(* initialised, moved to vectors 32 to 47, and masked, and nothing taken   *)
(* on the way is in service for good: the handlers of exceptions           *)
(* acknowledge nothing, and a line left in service would be dead, with all *)
(* those after it, when a driver unmasks it.  It takes the second          *)
(* pic_remap, of irq_init, to ensure this.  From then on hlt waits for     *)
(* ever.                                                                   *)
ControllersAreSetUp ==
  pc >= Initialised =>
    \A c \in 1..2 : /\ chips[c].icw = 0 /\ chips[c].imr = 255 /\ chips[c].isr = {}
                    /\ chips[c].offset = IF c = 1 THEN 32 ELSE 40

(* What is printed is sent: neither the polls that a stub misled, by the   *)
(* port number it left in dx, nor the letters the stubs send without a     *)
(* poll, ever meet a transmitter that is full or not set up.               *)
NothingIsLost == ~uart.lost

(* What an interrupt during the boot meets: the table of segments has the  *)
(* one that every gate names, however early it comes; and the handler of   *)
(* an exception only until the master has been told its new offset, after  *)
(* which there is no gate at all.                                          *)
InterruptsOnTheWay ==
  [][interrupt => HandlersSegment /\ (running' = "handler" => pc < Remapped)]_vars

(* The loop of serial_write when a stub has changed the port it polls, and *)
(* what it reads there has no bit 5.                                       *)
WrongPort == pc < Idle /\ Stmt.do = "ready" /\ dx # STATUS
Misled    == running = "kernel" /\ WrongPort /\ ~Bit5(dx)

(* The kernel comes to its idle loop, whatever interrupts it on the way,   *)
(* unless an interrupt finds no handler.  There is one way for it to hang, *)
(* and this says how far it goes: a build that loads dx once before the    *)
(* loop of serial_write, in whose loop a stub has left another port, polls *)
(* that for as long as nothing with bit 5 comes in.  A build that loads dx *)
(* for each poll never hangs, and neither does any when a character with   *)
(* bit 5 has come in and stays there.                                      *)
BootEnds == \/ <>(running = "fault" \/ pc = Idle)
            \/ hoisted /\ <>[]WrongPort /\ []<>Misled
=============================================================================
