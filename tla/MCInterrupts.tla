---------------------------- MODULE MCInterrupts ----------------------------
(***************************************************************************)
(* The timer, the keyboard and the real-time clock of the slave PIC; a     *)
(* letter, a shift key and its release, Escape and Caps Lock.  With a      *)
(* cmd_buffer of three bytes the third key to be stored is one too many.   *)
(***************************************************************************)
EXTENDS Interrupts

TimerKeyboardClock == {0, 1, 8}

FewScancodes == {30, 42, 170, 1, 58}
=============================================================================
