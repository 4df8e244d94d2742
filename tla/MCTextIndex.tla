---------------------------- MODULE MCTextIndex ----------------------------
(* Small instances of TextIndex for TLC.                                    *)
EXTENDS TextIndex
=============================================================================
