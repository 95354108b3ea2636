----------------------------- MODULE Interrupts -----------------------------
(***************************************************************************)
(* How kernel_main (src/kernel/main.c) brings up interrupts, and what the  *)
(* CPU does with an interrupt request afterwards.  keyboard_init sets IF;  *)
(* idt_init clears the table; irq_install (src/lib/interrupts.c) writes    *)
(* the keyboard and timer gates, loads IDTR and unmasks IRQ0 and IRQ1.     *)
(* Then shell_run polls the keyboard and decodes scancodes                 *)
(* (src/lib/keyboard.c) into its line buffer.                              *)
(*                                                                         *)
(* idt_entry_t (src/kernel/include/interrupts.h) has the 16-byte layout of *)
(* a long-mode gate, but the kernel runs in 32-bit protected mode (2-level *)
(* paging, multiboot2 entry), where the CPU reads the gate of vector v     *)
(* from the 8 bytes at base + 8 * v.  Gate32 decodes those bytes from the  *)
(* packed fields.  The PIC's vector base is what the firmware left: no     *)
(* code in the tree sends the PIC an initialisation word.  Before lidt     *)
(* the IDT is the boot loader's, and an interrupt through it has an        *)
(* outcome the tree does not determine.  The subsystem initialisations     *)
(* between idt_init and irq_install do not touch interrupt state and are   *)
(* one step here; their state is modelled in the other modules.           *)
(***************************************************************************)
EXTENDS Naturals

CONSTANTS
    IdtEntries,     \* IDT_ENTRIES
    PicBase,        \* vector of IRQ0 as the firmware programmed the PIC
    TimerAddr,      \* address of timer_handler_wrapper
    KeyboardAddr,   \* address of keyboard_handler_wrapper
    Scancodes,      \* scancodes the keyboard may send
    BufferSize,     \* SHELL_BUFFER_SIZE, scaled
    NONE,           \* no scancode, no interrupt yet
    RESET,          \* the CPU shut down by a triple fault
    FIRMWARE        \* handled by whatever the boot loader's IDT holds

\* Exception vectors the CPU raises when a gate is not present.
NP == 11
DF == 8

VARIABLES
    boot,           \* how far kernel_main has got
    if_flag,        \* EFLAGS.IF
    imr,            \* IRQ lines masked at the PIC
    idt,            \* the static idt[] array
    idtr,           \* "boot" before lidt, "kernel" after
    obf,            \* scancode in the controller's output buffer, or NONE
    shift_pressed, caps_lock,
    pos,            \* shell_buffer_pos
    cpu,            \* "run", or RESET once the CPU has shut down
    taken           \* the last interrupt request and where it went

vars == << boot, if_flag, imr, idt, idtr, obf, shift_pressed, caps_lock,
           pos, cpu, taken >>

(***************************************************************************)
(* The IDT.                                                                *)
(***************************************************************************)

ZeroEntry ==
    [offset_low |-> 0, selector |-> 0, ist |-> 0, type_attr |-> 0,
     offset_mid |-> 0, offset_high |-> 0, zero |-> 0]

\* idt_set_gate(num, base, sel, flags): the 64-bit base split into three
\* offset fields.
IdtSetGate(t, num, base, sel, flags) ==
    [t EXCEPT ![num] = [offset_low |-> base % 2^16, selector |-> sel, ist |-> 0,
                        type_attr |-> flags, offset_mid |-> (base \div 2^16) % 2^16,
                        offset_high |-> (base \div 2^16) \div 2^16, zero |-> 0]]

\* The 8-byte gate a 32-bit CPU reads for vector v: the first or second
\* half of the packed 16-byte entry v \div 2.  The second half is
\* offset_high (bytes 8-11) and zero (bytes 12-15), so its type byte is
\* byte 1 of zero.
Gate32(v) ==
    LET e == idt[v \div 2]
    IN  IF (v % 2) = 0
        THEN [offset |-> e.offset_low + e.offset_mid * 2^16,
              selector |-> e.selector, type_attr |-> e.type_attr]
        ELSE [offset |-> (e.offset_high % 2^16) + (e.zero \div 2^16) * 2^16,
              selector |-> e.offset_high \div 2^16,
              type_attr |-> (e.zero \div 2^8) % 2^8]

Present(g) == (g.type_attr \div 128) % 2 = 1

\* Delivery of vector v through the kernel's IDT: the handler's address,
\* or, for a gate that is not present, #NP, then #DF, then shutdown.
RECURSIVE Deliver(_, _)
Deliver(v, faults) ==
    IF Present(Gate32(v)) THEN Gate32(v).offset
    ELSE IF faults = 0 THEN Deliver(NP, 1)
    ELSE IF faults = 1 THEN Deliver(DF, 2)
    ELSE RESET

(***************************************************************************)
(* The keyboard.                                                           *)
(***************************************************************************)

\* Make codes of the keys shell_run and scancode_to_ascii single out.
LShift == \h2A

RShift == \h36

Caps == \h3A

Enter == \h1C

Backspace == \h0E

\* scancode_to_ascii's effect on (shift_pressed, caps_lock): a shift make
\* or break sets or clears the one flag both shift keys share, and caps
\* lock toggles on its make and on its break.
ShiftAfter(sc) ==
    IF sc % 128 \in {LShift, RShift} THEN sc < 128 ELSE shift_pressed

CapsAfter(sc) ==
    IF sc % 128 = Caps THEN ~caps_lock ELSE caps_lock

\* What shell_run does with a key event: a make code other than shift and
\* caps lock ends the line (Enter), deletes (Backspace) or appends a
\* printable character while there is room.  A completed line is parsed
\* and run, and the buffer starts again at 0.
PosAfter(sc) ==
    IF sc >= 128 \/ sc \in {LShift, RShift, Caps} THEN pos
    ELSE IF sc = Enter THEN 0
    ELSE IF sc = Backspace THEN (IF pos > 0 THEN pos - 1 ELSE pos)
    ELSE IF pos < BufferSize - 1 THEN pos + 1 ELSE pos

(***************************************************************************)
(* kernel_main, the devices and the CPU.                                   *)
(***************************************************************************)

\* Multiboot2 hands over with IF clear; the PIC mask is the firmware's.
Init ==
    /\ boot = "keyboard_init"
    /\ if_flag = FALSE
    /\ imr \in SUBSET {0, 1}
    /\ idt = [n \in 0 .. (IdtEntries - 1) |-> ZeroEntry]
    /\ idtr = "boot"
    /\ obf = NONE
    /\ shift_pressed = FALSE /\ caps_lock = FALSE
    /\ pos = 0
    /\ cpu = "run"
    /\ taken = [irq |-> NONE, via |-> NONE, to |-> NONE]

\* kernel_main goes on from one call to the next while the CPU runs.
Step(from, to) == cpu = "run" /\ boot = from /\ boot' = to

\* keyboard_init: cli, pulse port 0x61, sti.
KeyboardInit ==
    /\ Step("keyboard_init", "idt_init")
    /\ if_flag' = TRUE
    /\ UNCHANGED << imr, idt, idtr, obf, shift_pressed, caps_lock, pos, cpu, taken >>

\* idt_init: every gate set to zeros (idt_ptr is set up here too).
IdtInit ==
    /\ Step("idt_init", "subsystems")
    /\ idt' = [n \in DOMAIN idt |-> ZeroEntry]
    /\ UNCHANGED << if_flag, imr, idtr, obf, shift_pressed, caps_lock, pos, cpu, taken >>

\* init_paging through init_procfs.
Subsystems ==
    /\ Step("subsystems", "irq_install")
    /\ UNCHANGED << if_flag, imr, idt, idtr, obf, shift_pressed, caps_lock, pos, cpu, taken >>

\* irq_install: gates 0x21 and 0x20 with selector 0x08 and flags 0x8E,
\* lidt, then IRQ0 and IRQ1 unmasked.
IrqInstall ==
    /\ Step("irq_install", "unmask")
    /\ idt' = IdtSetGate(IdtSetGate(idt, \h21, KeyboardAddr, \h08, \h8E),
                         \h20, TimerAddr, \h08, \h8E)
    /\ idtr' = "kernel"
    /\ UNCHANGED << if_flag, imr, obf, shift_pressed, caps_lock, pos, cpu, taken >>

IrqUnmask ==
    /\ Step("unmask", "shell_run")
    /\ imr' = imr \ {0, 1}
    /\ UNCHANGED << if_flag, idt, idtr, obf, shift_pressed, caps_lock, pos, cpu, taken >>

\* A key event reaches the controller's empty output buffer.
KeyArrives(sc) ==
    /\ cpu = "run"
    /\ obf = NONE
    /\ obf' = sc
    /\ UNCHANGED << boot, if_flag, imr, idt, idtr, shift_pressed, caps_lock, pos, cpu, taken >>

\* One pass of shell_run's loop: keyboard_read polls the status port,
\* reads the scancode and decodes it; the shell acts on a make code.
ShellKey ==
    /\ boot = "shell_run" /\ cpu = "run"
    /\ obf # NONE
    /\ shift_pressed' = ShiftAfter(obf)
    /\ caps_lock' = CapsAfter(obf)
    /\ pos' = PosAfter(obf)
    /\ obf' = NONE
    /\ UNCHANGED << boot, if_flag, imr, idt, idtr, cpu, taken >>

\* IRQ n is raised (the PIT always, the keyboard when it holds a byte) and
\* the CPU takes it at vector PicBase + n.  Through the kernel's IDT it
\* reaches Deliver's result: keyboard_handler reads and decodes the byte,
\* timer_handler_wrapper is outside this module, and RESET stops the
\* CPU.  Through the boot loader's IDT the outcome is either.
Irq(n) ==
    /\ cpu = "run" /\ if_flag /\ n \notin imr
    /\ n = 1 => obf # NONE
    /\ \E to \in IF idtr = "kernel" THEN {Deliver(PicBase + n, 0)} ELSE {FIRMWARE, RESET} :
          /\ taken' = [irq |-> n, via |-> idtr, to |-> to]
          /\ cpu' = IF to = RESET THEN RESET ELSE "run"
          /\ IF to = KeyboardAddr
             THEN /\ shift_pressed' = ShiftAfter(obf)
                  /\ caps_lock' = CapsAfter(obf)
                  /\ obf' = NONE
             ELSE UNCHANGED << shift_pressed, caps_lock, obf >>
    /\ UNCHANGED << boot, if_flag, imr, idt, idtr, pos >>

Next ==
    \/ KeyboardInit \/ IdtInit \/ Subsystems \/ IrqInstall \/ IrqUnmask
    \/ \E sc \in Scancodes : KeyArrives(sc)
    \/ ShellKey
    \/ \E n \in {0, 1} : Irq(n)

Spec == Init /\ [][Next]_vars

(***************************************************************************)
(* Properties.                                                             *)
(***************************************************************************)

\* Spec section 6: the timer interrupt vector invokes the scheduler tick.
\* Once irq_install has loaded the IDT, every IRQ0 the CPU takes reaches
\* timer_handler_wrapper, the gate irq_install wrote for it.
TimerReachesHandler ==
    taken.irq = 0 /\ taken.via = "kernel" => taken.to = TimerAddr

=============================================================================
