--------------------------------- MODULE MCVm ---------------------------------
(* User memory for TLC: the executables and the arguments of sbrk().        *)
EXTENDS Vm

Seg(va, memsz, ok) == [va |-> va, memsz |-> memsz, ok |-> ok]

\* One segment; a segment below one already loaded; an empty first segment; a
\* file that cannot be read to the end.
MCPrograms ==
  {<<Seg(0, 1, TRUE)>>,
   <<Seg(1, 1, TRUE), Seg(0, 1, TRUE)>>,
   <<Seg(0, 0, TRUE)>>,
   <<Seg(0, 2, TRUE), Seg(1, 1, FALSE)>>}

MCDeltas == {-20, -3, 1, 4}
===============================================================================
