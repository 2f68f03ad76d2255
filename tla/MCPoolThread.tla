---------------------------- MODULE MCPoolThread ----------------------------
(* TLC instance of PoolThread: one owner, one worker, three jobs.             *)
EXTENDS PoolThread
=============================================================================
