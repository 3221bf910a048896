----------------------------- MODULE MCEventLoop -----------------------------
(* EventLoop with the listener and one number that connections reuse.        *)
EXTENDS EventLoop
=============================================================================
