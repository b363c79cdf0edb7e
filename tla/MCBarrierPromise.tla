-------------------------- MODULE MCBarrierPromise --------------------------
(* CanvasStore for TLC.  Each client logs in as one user, or every client  *)
(* as any of them; workers are interchangeable.                            *)
EXTENDS BarrierPromise, TLC

CONSTANTS c1, c2, u1, u2

OneUserEach == {<<c1, u1>>, <<c2, u2>>}
AnyUser == {c1, c2} \X {u1, u2}

Symmetry == Permutations(Workers)
=============================================================================
