---- MODULE MCReplyStream ----
(* ReplyStream on small instances. *)
EXTENDS ReplyStream
====
