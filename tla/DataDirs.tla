------------------------------- MODULE DataDirs -------------------------------
(***************************************************************************)
(* Which data directory a torrent is kept in (common.go).  The directories *)
(* whose name starts with the prefix of the flag are sorted and numbered   *)
(* from 1.  Five hexadecimal digits of a hash of the torrent's hash tell   *)
(* which of them is its own.                                               *)
(*                                                                         *)
(* Everybody who needs the directory computes it for himself from what is  *)
(* there then: the storage when the torrent is opened, FileCacheMap and    *)
(* TouchMap on every request.                                              *)
(***************************************************************************)
EXTENDS Integers

MaxDigits == 1048575        \* fffff
Digits == 0 .. MaxDigits

\* No directory: the name is empty, and the torrent is kept beside the
\* directories.  There is no error, because the one wrapped is nil.
NoDir == 0

total == MaxDigits * 1000

interval(n) == total \div n

\* Directory i of n is the first one beyond whose end the digits are not.
IsFirst(n, digits, i) ==
    /\ digits * 1000 < i * interval(n)
    /\ (i - 1) * interval(n) <= digits * 1000

DistributeByHash(n, digits) ==
    IF \E i \in 1 .. n : IsFirst(n, digits, i)
    THEN CHOOSE i \in 1 .. n : IsFirst(n, digits, i)
    ELSE NoDir

\* With no directory at all the first is made.
GetDir(n, digits) == IF n < 2 THEN 1 ELSE DistributeByHash(n, digits)
==============================================================================
