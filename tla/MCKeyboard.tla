----------------------------- MODULE MCKeyboard -----------------------------
(* Constants of the Keyboard runs: the control key, the letter a and the    *)
(* cursor key UP.                                                          *)
EXTENDS Keyboard

Typed == {3, 97, 165}
OneLetter == {97}
=============================================================================
