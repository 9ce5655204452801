----------------------------- MODULE MCFileSystem -----------------------------
(* The file system for TLC: the paths of the calls and the symmetry.        *)
EXTENDS FileSystem, TLC

Abs(s) == [abs |-> TRUE, elems |-> s]
Rel(s) == [abs |-> FALSE, elems |-> s]

Call(c, q) == [call |-> c, path |-> q, new |-> q]
Link(q, r) == [call |-> "link", path |-> q, new |-> r]

A   == Abs(<<"a">>)
AB  == Abs(<<"a", "b">>)
ABC == Abs(<<"a", "b", "c">>)
C   == Rel(<<"c">>)
UC  == Rel(<<"..", "c">>)

\* A directory in a directory and a process in the inner one; then a file beside
\* one of the processes, or the inner directory removed under its process.
Dirs == <<Call("mkdir", A), Call("mkdir", AB), Call("chdir", AB)>>
MCSetups == {Append(Dirs, Call("creat", C)), Append(Dirs, Call("unlink", AB))}

MCArgs ==
  {Dirs[k] : k \in DOMAIN Dirs}
  \union {Call(c, q) : c \in {"creat", "unlink", "open"}, q \in {A, AB, C, UC}}
  \union {Call("trunc", C), Call("mknod", C), Call("chdir", Rel(<<"..">>)), Call("chdir", Abs(<<>>)), Call("unlink", Abs(<<>>))}
  \union {Link(C, q) : q \in {UC, ABC}}

MCNames == {NoName, ".", "..", "a", "b", "c"}

MCSymmetry == Permutations(Procs)
===============================================================================
