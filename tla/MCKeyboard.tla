----------------------------- MODULE MCKeyboard -----------------------------
(* A short ring, one digit, one letter and the control keys. *)
EXTENDS Keyboard, TLC

Digit  == \H2
Letter == \H1e
Arrow  == \He048

MCBoards == {
    {Digit, shift_l_make, shift_r_make},
    {Letter, caps_lock_make, shift_l_make},
    {Arrow, ctrl_l_make, ctrl_r_make},
    {alt_l_make, alt_r_make} }
Symmetry == Permutations(Consumers)
MCChars == {Digit, Letter} \X BOOLEAN
MCTaskChars == {<<Digit, FALSE>>}
=============================================================================
