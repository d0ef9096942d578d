------------------------------ MODULE MCHandsFree ------------------------------
(* Small instance of HandsFree.  A start word said within a turn is content, so *)
(* the three commands are words enough.                                       *)
EXTENDS HandsFree

OnlyCommands == {}
=============================================================================
