--------------------------- MODULE MCCanvasStore ----------------------------
(* CanvasStore for TLC.  Each client logs in as one user, every client as   *)
(* any of them, or all as one and the first as another too; workers are     *)
(* interchangeable.                                                         *)
EXTENDS CanvasStore, TLC

CONSTANTS c1, c2, u1, u2

OneUserEach == {<<c1, u1>>, <<c2, u2>>}
SharedUser == (Clients \X {u1}) \cup {<<c1, u2>>}
AnyUser == {c1, c2} \X {u1, u2}

Symmetry == Permutations(Workers)
=============================================================================
