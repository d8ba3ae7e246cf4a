----------------------------- MODULE MCStatStream -----------------------------
(* A torrent of two pieces that changes a few times.                         *)
EXTENDS StatStream
==============================================================================
