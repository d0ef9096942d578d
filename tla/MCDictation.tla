---------------------------- MODULE MCDictation ----------------------------
(* Small instances of Dictation: two recordings in one window.             *)
EXTENDS Dictation, TLC

CONSTANT w1
=============================================================================
