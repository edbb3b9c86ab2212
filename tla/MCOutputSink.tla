---- MODULE MCOutputSink ----
(* OutputSink on small instances. *)
EXTENDS OutputSink
====
