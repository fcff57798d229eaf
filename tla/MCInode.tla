------------------------------ MODULE MCInode ------------------------------
(***************************************************************************)
(* Instance of Inode for TLC: calls on paths of at most two elements.      *)
(***************************************************************************)
EXTENDS Inode, TLC

CONSTANTS p1, p2

Call(op, path) == [op |-> op, abs |-> TRUE, path |-> path, new |-> << >>]
Relative(op, path) == [Call(op, path) EXCEPT !.abs = FALSE]
Link(path, new) == [Call("link", path) EXCEPT !.new = new]

\* p1 makes, removes and enters the directory /a, p2 works on the file /a/b.
TreeCalls ==
  p1 :> {Call("mkdir", <<"a">>), Call("unlink", <<"a">>), Call("chdir", <<"a">>),
         Relative("unlink", <<"b">>), Call("mknod", << >>)} @@
  p2 :> {Call("create", <<"a", "b">>), Call("unlink", <<"a", "b">>),
         Call("open", <<"b">>), Link(<<"a", "b">>, <<"b">>),
         Call("unlink", <<"a", ".">>), Call("mknod", <<"b">>)}

\* p1 works in /a/b, which p2 removes, and /a with it.
DotDotCalls ==
  p1 :> {Call("chdir", <<"a", "b">>), Relative("chdir", <<"..">>)} @@
  p2 :> {Call("mkdir", <<"a">>), Call("mkdir", <<"a", "b">>),
         Call("unlink", <<"a", "b">>), Call("unlink", <<"a">>)}
=============================================================================
