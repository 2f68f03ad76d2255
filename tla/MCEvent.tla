------------------------------- MODULE MCEvent -------------------------------
(* TLC instance of Event: one thread to set the event, one that waits and    *)
(* one that is late or barges in.                                            *)
EXTENDS Event
=============================================================================
