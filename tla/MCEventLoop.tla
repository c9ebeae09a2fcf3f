----------------------------- MODULE MCEventLoop -----------------------------
(* Small instances of EventLoop.                                            *)
EXTENDS EventLoop

CONSTANTS o1, o2, o3

ThreeObjects == {o1, o2, o3}
=============================================================================
