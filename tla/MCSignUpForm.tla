---------------------------- MODULE MCSignUpForm ----------------------------
(* Instance of SignUpForm for TLC: a letter, the space and a mark.          *)
EXTENDS SignUpForm

CONSTANTS letter

MCChars == {letter, Space, Mark}
=============================================================================
