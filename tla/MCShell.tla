------------------------------ MODULE MCShell ------------------------------
(* phase7_shell_pipeline_test: `echo cpu | grep cpu > /tmp/p7_pipe.txt`, run by a *)
(* process without open descriptors.                                              *)
EXTENDS Shell

ShellText == <<"x", "y">>
TestJobs == {[caller |-> "script", lines |-> <<[cmds |-> <<"echo", "grep">>, redir |-> TRUE]>>]}
=============================================================================
