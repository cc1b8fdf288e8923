----------------------------- MODULE MCNewsGroup -----------------------------
(* Three postings of two parts, two of them in the newer of two catalogs.  *)
EXTENDS NewsGroup

MCArticles == {[file |-> 1, date |-> 2], [file |-> 2, date |-> 1], [file |-> 2, date |-> 3]}
=============================================================================
