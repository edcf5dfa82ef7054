---------------------------- MODULE MCSshClient -----------------------------
(* Instances of SshClient: a command that prints nothing, one or two lines. *)
EXTENDS SshClient

MCOutputs == {<<>>, <<"line">>, <<"line", "last">>}
=============================================================================
