---------------------------- MODULE MCJobManager ----------------------------
(* Two workers and three jobs, one of them of a kind nobody handles; two   *)
(* attempts per job and two calls of retry, so that one job can be queued  *)
(* twice while both workers run it.                                        *)
EXTENDS JobManager

CONSTANTS j1, j2, j3, w1, w2
=============================================================================
