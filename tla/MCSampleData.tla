---------------------------- MODULE MCSampleData ----------------------------
(* Instance of SampleData for TLC: see sample.cfg. *)
EXTENDS SampleData
=============================================================================
