------------------------------ MODULE MCThread ------------------------------
(* TLC instance of Thread: an owner and a second caller, three runs.          *)
EXTENDS Thread
=============================================================================
