---------------------------- MODULE MCTestRunner ----------------------------
(* TLC instance of TestRunner.                                                *)
EXTENDS TestRunner
=============================================================================
