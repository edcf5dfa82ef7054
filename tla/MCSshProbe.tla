----------------------------- MODULE MCSshProbe -----------------------------
(* Instances of SshProbe: "S-" stands for "SSH-", "x" for any printable    *)
(* character and "^" for any unprintable one.                              *)
EXTENDS SshProbe

MCIdentification == <<"S", "-">>

(* An identification with and without more after the line, behind garbage, *)
(* on the second line, cut short, blank, endless, and nothing at all.      *)
MCStreams ==
  { <<>>,
    <<"S">>,
    <<"S", "-", "x", "\r", "\n", "x", "x">>,
    <<"^", "S", "-", "x", "\n">>,
    <<"x", "\n", "S", "-", "\n">>,
    <<"S", " ", " ", "-", "\n">>,
    <<"S", "-", "x", "x", "x", "x", "x", "x", "x">>,
    <<"x", "x", "x", "x", "x", "x", "x", "x", "x">> }
=============================================================================
