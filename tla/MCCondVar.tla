------------------------------ MODULE MCCondVar ------------------------------
(* TLC instance of CondVar: two threads that only wait, one that waits and    *)
(* wakes, and one that only wakes, so that the system never has to stop.      *)
EXTENDS CondVar
=============================================================================
