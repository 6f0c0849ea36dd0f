---------------------------- MODULE MCShellJobs ----------------------------
(* irb and one other job.                                                  *)
EXTENDS ShellJobs
=============================================================================
