-------------------------- MODULE MCEventLoopThread --------------------------
(* EventLoopThread on small instances; the .cfg file gives the constants.  *)
EXTENDS EventLoopThread
=============================================================================
