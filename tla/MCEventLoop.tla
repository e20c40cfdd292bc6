----------------------------- MODULE MCEventLoop -----------------------------
(* EventLoop on small instances; the .cfg files give the constants.        *)
EXTENDS EventLoop
=============================================================================
