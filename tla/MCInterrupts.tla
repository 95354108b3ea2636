---------------------------- MODULE MCInterrupts ----------------------------
(* The instance of Interrupts that TLC checks.                             *)
EXTENDS Interrupts

\* Scancodes: 'a' make and break, shift and caps lock make and break,
\* Enter and Backspace.
MCScancodes == {\h1E, \h9E, LShift, LShift + 128, Caps, Caps + 128, Enter, Backspace}
=============================================================================
