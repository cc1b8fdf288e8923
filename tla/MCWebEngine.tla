---------------------------- MODULE MCWebEngine ----------------------------
(* Four queries of two clients; the dialog does not look up its queries. *)
EXTENDS WebEngine

MCClient == [q \in Queries |-> IF q = "q3" THEN "dialog" ELSE "rss"]
=============================================================================
