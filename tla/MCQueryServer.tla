--------------------------- MODULE MCQueryServer ----------------------------
(* Model values for QueryServer that a .cfg cannot write: negative numbers. *)
EXTENDS QueryServer

(* Below zero, the two boundaries, one above MAX_ROW_LIMIT. *)
MCRowLimits == {-1, 0, 2, 3}
=============================================================================
