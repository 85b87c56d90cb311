---------------------------- MODULE MCJavaServer ------------------------------
(* JavaServer with two segments of one file, one of a file that does not   *)
(* exist, and one name of each other kind.                                 *)
EXTENDS JavaServer

CONSTANTS b1, s1, s2, s3, l1, o1, present, missing

MCFileOf == [n \in {s1, s2, s3} |-> IF n = s3 THEN missing ELSE present]
=============================================================================
