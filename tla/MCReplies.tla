----------------------------- MODULE MCReplies -----------------------------
(* A small instance of Replies. *)
EXTENDS Replies
=============================================================================
