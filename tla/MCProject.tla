----------------------------- MODULE MCProject -----------------------------
(***************************************************************************)
(* A program of two addresses.  The code section covers both; a second     *)
(* disassembly may ask for one of them again.                              *)
(***************************************************************************)
EXTENDS Project

CONSTANTS dis1, dis2, del, sub, all1, all2

MCCommands == Disassembles \cup Deletes \cup DecompileSubsets \cup DecompileAlls
MCDelegated == [c \in MCCommands |-> IF c \in Deletes THEN 0 ELSE 1]
MCRangeOf == [c \in Disassembles |-> IF c = dis1 THEN Addresses ELSE {1}]
MCCodeSections == <<dis1>>
=============================================================================
