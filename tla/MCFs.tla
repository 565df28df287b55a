-------------------------------- MODULE MCFs --------------------------------
(* File system calls on a tree of two levels. *)
EXTENDS Fs

Call(c, path) == [call |-> c, path |-> path, new |-> <<>>]
A == <<"/", "a">>
B == <<"/", "b">>
AB == <<"/", "a", "b">>

(* One process makes and removes directories, one in the other, and links  *)
(* a file there; the other makes, opens and removes files there, by path   *)
(* and from within, and goes up by "..".                                   *)
TwoLevels ==
  << {Call("mkdir", A), Call("unlink", A), Call("mkdir", AB), Call("unlink", AB),
      [call |-> "link", path |-> AB, new |-> B],
      [call |-> "link", path |-> A, new |-> B], Call("mknod", B)},
     {Call("creat", AB), Call("creat", A), Call("unlink", AB), Call("chdir", AB),
      Call("chdir", <<"..">>), Call("unlink", <<"b">>), Call("openw", A), Call("unlink", <<"a", ".">>)} >>
=============================================================================
