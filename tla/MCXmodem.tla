------------------------------ MODULE MCXmodem ------------------------------
(* Small instances of Xmodem: three or four different blocks, numbers that
   wrap after two or three blocks. *)
EXTENDS Xmodem

CONSTANTS b1, b2, b3, b4

MCFile == <<b1, b2, b3>>
MCFile4 == <<b1, b2, b3, b4>>
=============================================================================
