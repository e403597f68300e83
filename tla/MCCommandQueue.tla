--------------------------- MODULE MCCommandQueue ---------------------------
(***************************************************************************)
(* Four commands: two that do everything inside work() (DeleteInstructions),*)
(* one with a single activity (Decompile, Disassemble) and one with two,   *)
(* which Command::delegate admits.                                         *)
(***************************************************************************)
EXTENDS CommandQueue

CONSTANTS sync1, sync2, single, double

MCCommands == {sync1, sync2, single, double}
MCDelegated == [c \in MCCommands |-> CASE c = single -> 1 [] c = double -> 2 [] OTHER -> 0]
=============================================================================
