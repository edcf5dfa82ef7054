--------------------------- MODULE SshClientProofs --------------------------
(***************************************************************************)
(* Proofs about the SSH client, for every set of commands and outputs and  *)
(* every timeout.  The inductive invariant ties what is held to the place  *)
(* the client is at, and what was read to what the device has printed.     *)
(***************************************************************************)
EXTENDS SshClient, TLAPS

Places == {"idle", "ready", "tcp", "blocking", "init", "handshake", "hostkey",
           "auth", "open", "exec", "stdout", "stderr", "close", "threw"}

WithChannel == {"exec", "stdout", "stderr", "close"}
WithSession == {"handshake", "hostkey", "auth", "ready", "open"} \cup WithChannel
WithSocket  == {"blocking", "init"} \cup WithSession

(* The types that the types of TypeOK rest on. *)
Typed ==
  /\ policy \in HostKeyPolicy
  /\ at \in Places
  /\ {socket, session, channel, password_sent, complete} \subseteq BOOLEAN
  /\ lookup \in Lookup
  /\ host_key_status \in HostKeyStatus
  /\ last_error \in ErrorText
  /\ elapsed \in 0 .. MaxElapsed
  /\ remote \in [stdout : Seq(Lines), stderr : Int, code : ExitCodes \cup {0}]
  /\ result \in [ok : BOOLEAN, exit_code : ExitCodes \cup {-1, 0},
                 stdout : Seq(Lines), error : BOOLEAN]

(* Every place has its resources: a step that fails gives back what the    *)
(* steps before it took (connect_and_authenticate, execute, disconnect).   *)
(* An exception leaves what the place it comes from holds.                 *)
HeldInv ==
  /\ at # "threw" => /\ socket <=> at \in WithSocket
                     /\ session <=> at \in WithSession
                     /\ channel <=> at \in WithChannel
  /\ channel => session
  /\ session => socket

(* The client that is about to send the password has passed the check of   *)
(* the host key.                                                           *)
GateInv == at = "auth" /\ policy = "Strict" => lookup = "match"

(* Whatever was read is the beginning of what the command prints, and all  *)
(* of it when no read failed or timed out (the loops of execute).          *)
CapturesBeginning ==
  /\ Len(result.stdout) <= Len(remote.stdout)
  /\ \A i \in 1 .. Len(result.stdout) : result.stdout[i] = remote.stdout[i]
  /\ complete => Len(result.stdout) = Len(remote.stdout)

(* A command that has not started yet has no output. *)
FreshInv == at \in {"open", "exec"} => result.stdout = <<>> /\ ~complete

(* The inductive invariant of the client. *)
IInv ==
  /\ Typed
  /\ HeldInv
  /\ GateInv
  /\ CapturesBeginning
  /\ FreshInv

-----------------------------------------------------------------------------
(* A client that was just constructed *)
LEMMA InitInv == Init => IInv
<1> SUFFICES ASSUME Init PROVE IInv OBVIOUS
<1>1. /\ policy \in HostKeyPolicy /\ at = "idle" /\ lookup = "none"
      /\ host_key_status \in HostKeyStatus /\ last_error \in ErrorText /\ elapsed = 0
  BY Zenon DEF Init, HostKeyStatus, ErrorText
<1>2. ~socket /\ ~session /\ ~channel /\ ~complete
  BY Zenon DEF Init
<1>3. /\ remote = [stdout |-> <<>>, stderr |-> 0, code |-> 0]
      /\ result = [ok |-> FALSE, exit_code |-> -1, stdout |-> <<>>, error |-> FALSE]
  BY Zenon DEF Init, NoRemote, NoResult
<1>4. Typed
  <2>1. {socket, session, channel, password_sent, complete} \subseteq BOOLEAN
    BY Zenon DEF Init
  <2>2. remote \in [stdout : Seq(Lines), stderr : Int, code : ExitCodes \cup {0}]
    BY <1>3
  <2>3. result \in [ok : BOOLEAN, exit_code : ExitCodes \cup {-1, 0},
                    stdout : Seq(Lines), error : BOOLEAN]
    BY <1>3
  <2>4. elapsed \in 0 .. MaxElapsed
    BY <1>1, ClientAssumption
  <2> QED BY <1>1, <2>1, <2>2, <2>3, <2>4 DEF Typed, Places, Lookup
<1>5. HeldInv /\ GateInv
  BY <1>1, <1>2 DEF HeldInv, GateInv, WithSocket, WithSession, WithChannel, Places
<1>6. CapturesBeginning /\ FreshInv
  BY <1>1, <1>2, <1>3 DEF CapturesBeginning, FreshInv
<1> QED BY <1>4, <1>5, <1>6 DEF IInv

(* The steps of connect_and_authenticate() and disconnect() leave the last *)
(* command alone; each holds at its end what its place says.               *)
LEMMA ConnectionStepInv ==
  ASSUME IInv,
         \/ Connect \/ ConnectTcp \/ SetBlocking \/ InitSession \/ Handshake
         \/ CheckHostKey \/ Authenticate \/ Disconnect
  PROVE  IInv'
<1> USE DEF IInv
<1>1. UNCHANGED <<policy, command, remote, elapsed, complete, result>>
  BY DEF Connect, ConnectTcp, SetBlocking, InitSession, Handshake, CheckHostKey,
         Authenticate, Disconnect, StepOrAbandon, Abandon, connection
<1>2. /\ at \notin WithChannel \cup {"open"}
      /\ at' \in Places \ (WithChannel \cup {"open", "threw"})
  BY DEF Connect, ConnectTcp, SetBlocking, InitSession, Handshake, CheckHostKey,
         Authenticate, Disconnect, StepOrAbandon, Abandon, Places, WithChannel, Resting
<1>3. /\ lookup' \in Lookup
      /\ host_key_status' \in HostKeyStatus
      /\ last_error' \in ErrorText
  BY ZenonT(30) DEF Typed, Connect, ConnectTcp, SetBlocking, InitSession, Handshake, CheckHostKey,
         Authenticate, Disconnect, StepOrAbandon, Abandon, connection, StatusOf,
         Lookup, ErrorText, HostKeyStatus
<1>4. {socket', session', channel', password_sent'} \subseteq BOOLEAN
  BY ZenonT(30) DEF Typed, Connect, ConnectTcp, SetBlocking, InitSession, Handshake,
         CheckHostKey, Authenticate, Disconnect, StepOrAbandon, Abandon, Closed, connection
<1>5. Typed'
  BY <1>1, <1>2, <1>3, <1>4 DEF Typed
<1>6. HeldInv'
  <2> USE DEF HeldInv, WithSocket, WithSession, WithChannel, Closed
  <2>1. CASE Connect \/ Disconnect
    BY <2>1 DEF Connect, Disconnect, Resting
  <2>2. CASE ConnectTcp \/ InitSession
    BY <2>2 DEF ConnectTcp, InitSession, Abandon
  <2>3. CASE SetBlocking \/ Handshake
    BY <2>3 DEF SetBlocking, Handshake, StepOrAbandon, Abandon, connection
  <2>4. CASE CheckHostKey \/ Authenticate
    <3>1. \/ at' = "idle" /\ ~session' /\ ~socket' /\ ~channel'
          \/ /\ at' \in {"auth", "ready"}
             /\ session' = session /\ socket' = socket /\ channel' = channel
      BY <2>4 DEF CheckHostKey, Authenticate
    <3>2. at \in {"hostkey", "auth"}
      BY <2>4 DEF CheckHostKey, Authenticate
    <3>3. session /\ socket /\ ~channel
      BY <3>2
    <3>4. CASE at' = "idle" /\ ~session' /\ ~socket' /\ ~channel'
      BY <3>4
    <3>5. CASE at' \in {"auth", "ready"} /\ session' /\ socket' /\ ~channel'
      BY <3>5
    <3>6. session = TRUE /\ socket = TRUE /\ channel = FALSE
      BY <3>3, Zenon DEF Typed
    <3> QED BY <3>1, <3>4, <3>5, <3>6
  <2> QED BY <2>1, <2>2, <2>3, <2>4
<1>7. GateInv'
  BY DEF GateInv, Connect, ConnectTcp, SetBlocking, InitSession, Handshake,
         CheckHostKey, Authenticate, Disconnect, StepOrAbandon, Abandon, StatusOf
<1>8. CapturesBeginning' /\ FreshInv'
  BY <1>1, <1>2 DEF CapturesBeginning, FreshInv, WithChannel
<1> QED BY <1>5, <1>6, <1>7, <1>8

(* An exception stops a call where it is. *)
LEMMA ThrowsInv == ASSUME IInv, Throws PROVE IInv'
<1> USE DEF IInv
<1>1. /\ UNCHANGED <<policy, socket, session, channel, lookup, host_key_status,
                     last_error, command, remote, elapsed, complete, result>>
      /\ at' = "threw"
  BY DEF Throws
<1>2. password_sent' \in BOOLEAN
  BY ZenonT(30) DEF Typed, Throws
<1>3. Typed'
  BY <1>1, <1>2 DEF Typed, Places
<1>4. HeldInv' /\ GateInv' /\ CapturesBeginning' /\ FreshInv'
  BY <1>1 DEF HeldInv, GateInv, CapturesBeginning, FreshInv
<1> QED BY <1>3, <1>4

(* execute() starts from a result that is empty, whatever the last command *)
(* left.                                                                   *)
LEMMA ExecuteInv == ASSUME NEW c \in Commands, IInv, Execute(c) PROVE IInv'
<1> USE DEF IInv
<1>1. /\ UNCHANGED <<policy, socket, session, channel, lookup, host_key_status,
                     last_error, password_sent>>
      /\ remote' = NoRemote /\ elapsed' = 0 /\ ~complete'
      /\ at \in Resting
      /\ session => at' = "open" /\ result' = NoResult
      /\ ~session => at' = at /\ result' = [NoResult EXCEPT !.error = TRUE]
  BY DEF Execute, connection
<1>2. /\ remote' = [stdout |-> <<>>, stderr |-> 0, code |-> 0]
      /\ remote' \in [stdout : Seq(Lines), stderr : Int, code : ExitCodes \cup {0}]
  BY <1>1 DEF NoRemote
<1>3. /\ result'.stdout = <<>>
      /\ result' \in [ok : BOOLEAN, exit_code : ExitCodes \cup {-1, 0},
                      stdout : Seq(Lines), error : BOOLEAN]
  <2>1. CASE session
    <3>1. result' = [ok |-> FALSE, exit_code |-> -1, stdout |-> <<>>, error |-> FALSE]
      BY <1>1, <2>1 DEF NoResult
    <3> QED BY <3>1
  <2>2. CASE ~session
    <3>1. result' = [ok |-> FALSE, exit_code |-> -1, stdout |-> <<>>, error |-> TRUE]
      BY <1>1, <2>2 DEF NoResult
    <3> QED BY <3>1
  <2> QED BY <2>1, <2>2
<1>4. at' \in Places /\ elapsed' \in 0 .. MaxElapsed
  BY <1>1, ClientAssumption DEF Resting, Places
<1>5. {socket', session', channel', password_sent', complete'} \subseteq BOOLEAN
  BY Zenon DEF Typed, Execute, connection
<1>6. Typed'
  BY <1>1, <1>2, <1>3, <1>4, <1>5 DEF Typed
<1>7. HeldInv' /\ GateInv'
  BY <1>1 DEF HeldInv, GateInv, Resting, WithSocket, WithSession, WithChannel
<1>8. CapturesBeginning' /\ FreshInv'
  BY <1>1, <1>2, <1>3 DEF CapturesBeginning, FreshInv
<1> QED BY <1>6, <1>7, <1>8

(* Opening the channel and starting the command, and either of them        *)
(* failing: nothing has been read yet.                                     *)
LEMMA StartCommandInv == ASSUME IInv, OpenChannel \/ ExecCommand PROVE IInv'
<1> USE DEF IInv
<1>1. /\ UNCHANGED <<policy, socket, session, lookup, host_key_status, last_error,
                     password_sent, elapsed, complete>>
      /\ at \in {"open", "exec"}
  BY DEF OpenChannel, ExecCommand, ExecuteFails, connection
<1>2. \/ at' = "exec" /\ channel' /\ remote' = remote /\ result' = result
      \/ /\ at' = "stdout" /\ channel' = channel /\ result' = result
         /\ remote' \in [stdout : Outputs, stderr : 0 .. 1, code : ExitCodes]
         /\ at = "exec"
      \/ /\ at' = "ready" /\ ~channel' /\ remote' = remote
         /\ result' = [result EXCEPT !.error = TRUE]
  BY DEF OpenChannel, ExecCommand, ExecuteFails
<1>3. /\ result'.stdout = <<>> /\ ~complete'
      /\ result' \in [ok : BOOLEAN, exit_code : ExitCodes \cup {-1, 0},
                      stdout : Seq(Lines), error : BOOLEAN]
  BY <1>1, <1>2 DEF Typed, FreshInv
<1>4. remote' \in [stdout : Seq(Lines), stderr : Int, code : ExitCodes \cup {0}]
  BY <1>2, ClientAssumption DEF Typed
<1>5. {channel', complete'} \subseteq BOOLEAN
  BY Zenon DEF Typed, OpenChannel, ExecCommand, ExecuteFails
<1>6. Typed'
  BY <1>1, <1>2, <1>3, <1>4, <1>5 DEF Typed, Places
<1>7. HeldInv' /\ GateInv'
  BY <1>1, <1>2 DEF HeldInv, GateInv, WithSocket, WithSession, WithChannel
<1>8. CapturesBeginning' /\ FreshInv'
  BY <1>3, <1>4 DEF CapturesBeginning, FreshInv
<1> QED BY <1>6, <1>7, <1>8

(* The clock of a command stays within its bound. *)
LEMMA PassesInv ==
  ASSUME elapsed \in 0 .. MaxElapsed, NEW wait \in 0 .. command_timeout, Passes(wait)
  PROVE  elapsed' \in 0 .. MaxElapsed
BY ClientAssumption DEF Passes

(* A read of stdout appends the next piece of what the command prints. *)
LEMMA ReadStdoutInv == ASSUME IInv, ReadStdout PROVE IInv'
<1> USE DEF IInv
<1> DEFINE got == Len(result.stdout)
<1>1. /\ UNCHANGED <<policy, socket, session, channel, lookup, host_key_status,
                     last_error, password_sent, remote>>
      /\ at = "stdout"
  BY DEF ReadStdout, connection
<1>2. PICK wait \in 0 .. command_timeout :
        \/ /\ got < Len(remote.stdout) /\ wait < command_timeout
           /\ result' = [result EXCEPT !.stdout = Append(@, remote.stdout[got + 1])]
           /\ Passes(wait)
           /\ UNCHANGED <<at, complete>>
        \/ /\ at' = "stderr"
           /\ complete' = (got = Len(remote.stdout) /\ wait < command_timeout)
           /\ Passes(wait)
           /\ UNCHANGED result
  BY DEF ReadStdout
<1>3. elapsed' \in 0 .. MaxElapsed
  BY <1>2, PassesInv DEF Typed
<1>4. /\ result.stdout \in Seq(Lines) /\ remote.stdout \in Seq(Lines)
      /\ got \in Nat /\ Len(remote.stdout) \in Nat
  BY DEF Typed
<1>5. CASE got < Len(remote.stdout) /\ at' = at /\ complete' = complete
           /\ result' = [result EXCEPT !.stdout = Append(@, remote.stdout[got + 1])]
  <2>1. remote.stdout[got + 1] \in Lines
    BY <1>4, <1>5
  <2>2. /\ result'.stdout = Append(result.stdout, remote.stdout[got + 1])
        /\ result' \in [ok : BOOLEAN, exit_code : ExitCodes \cup {-1, 0},
                        stdout : Seq(Lines), error : BOOLEAN]
    <3>1. Append(result.stdout, remote.stdout[got + 1]) \in Seq(Lines)
      BY <1>4, <2>1
    <3>2. result \in [ok : BOOLEAN, exit_code : ExitCodes \cup {-1, 0},
                      stdout : Seq(Lines), error : BOOLEAN]
      BY DEF Typed
    <3>3. result' = [result EXCEPT !.stdout = Append(result.stdout, remote.stdout[got + 1])]
      BY <1>5
    <3> HIDE DEF got
    <3> QED BY <3>1, <3>2, <3>3
  <2>3. Typed'
    BY <1>1, <1>3, <1>5, <2>2 DEF Typed
  <2>4. HeldInv' /\ GateInv'
    BY <1>1, <1>5 DEF HeldInv, GateInv
  <2>5. CapturesBeginning' /\ FreshInv'
    BY <1>1, <1>4, <1>5, <2>1, <2>2 DEF CapturesBeginning, FreshInv
  <2> QED BY <2>3, <2>4, <2>5
<1>6. CASE at' = "stderr" /\ result' = result /\ complete' \in BOOLEAN
           /\ (complete' => got = Len(remote.stdout))
  <2>1. Typed'
    BY <1>1, <1>3, <1>6 DEF Typed, Places
  <2>2. HeldInv' /\ GateInv'
    BY <1>1, <1>6 DEF HeldInv, GateInv, WithSocket, WithSession, WithChannel
  <2>3. CapturesBeginning' /\ FreshInv'
    BY <1>1, <1>6 DEF CapturesBeginning, FreshInv
  <2> QED BY <2>1, <2>2, <2>3
<1> QED BY <1>2, <1>5, <1>6

(* A read of stderr touches neither the result nor what stdout prints. *)
LEMMA ReadStderrInv == ASSUME IInv, ReadStderr PROVE IInv'
<1> USE DEF IInv
<1>1. /\ UNCHANGED <<policy, socket, session, channel, lookup, host_key_status,
                     last_error, password_sent, result>>
      /\ at = "stderr"
  BY DEF ReadStderr, connection
<1>2. PICK wait \in 0 .. command_timeout :
        /\ Passes(wait)
        /\ \/ /\ remote' = [remote EXCEPT !.stderr = @ - 1]
              /\ UNCHANGED <<at, complete>>
           \/ /\ at' = "close"
              /\ complete' = (complete /\ remote.stderr = 0 /\ wait < command_timeout)
              /\ UNCHANGED remote
  BY DEF ReadStderr
<1>3. elapsed' \in 0 .. MaxElapsed
  BY <1>2, PassesInv DEF Typed
<1>4. /\ remote'.stdout = remote.stdout
      /\ remote' \in [stdout : Seq(Lines), stderr : Int, code : ExitCodes \cup {0}]
  BY <1>2, SMTT(20) DEF Typed
<1>5. complete' \in BOOLEAN /\ (complete' => complete)
  <2>1. complete \in BOOLEAN
    BY DEF Typed
  <2>2. \/ complete' = complete
        \/ complete' = (complete /\ remote.stderr = 0 /\ wait < command_timeout)
    BY <1>2
  <2>3. complete' \in BOOLEAN
    BY Zenon, <2>1, <2>2
  <2>4. complete' => complete
    BY Zenon, <2>1, <2>2
  <2> QED BY <2>3, <2>4
<1>6. at' \in {"stderr", "close"}
  BY <1>1, <1>2
<1>7. Typed'
  BY <1>1, <1>3, <1>4, <1>5, <1>6 DEF Typed, Places
<1>8. HeldInv' /\ GateInv'
  BY <1>1, <1>6 DEF HeldInv, GateInv, WithSocket, WithSession, WithChannel
<1>9. CapturesBeginning' /\ FreshInv'
  BY <1>1, <1>4, <1>5, <1>6 DEF CapturesBeginning, FreshInv
<1> QED BY <1>7, <1>8, <1>9

(* The end of execute() *)
LEMMA CloseChannelInv == ASSUME IInv, CloseChannel PROVE IInv'
<1> USE DEF IInv
<1>1. /\ UNCHANGED <<policy, socket, session, lookup, host_key_status,
                     last_error, password_sent, remote, elapsed, complete>>
      /\ at = "close" /\ at' = "ready" /\ ~channel'
  BY DEF CloseChannel, connection
<1>2. channel' \in BOOLEAN
  BY Zenon DEF CloseChannel
<1>3. PICK code \in {remote.code, 0} :
        result' = [result EXCEPT !.ok = TRUE, !.exit_code = code]
  BY DEF CloseChannel
<1>4. /\ result'.stdout = result.stdout
      /\ result' \in [ok : BOOLEAN, exit_code : ExitCodes \cup {-1, 0},
                      stdout : Seq(Lines), error : BOOLEAN]
  BY <1>3 DEF Typed
<1>5. Typed'
  BY <1>1, <1>2, <1>4 DEF Typed, Places
<1>6. HeldInv' /\ GateInv'
  BY <1>1 DEF HeldInv, GateInv, WithSocket, WithSession, WithChannel
<1>7. CapturesBeginning' /\ FreshInv'
  BY <1>1, <1>4 DEF CapturesBeginning, FreshInv
<1> QED BY <1>5, <1>6, <1>7

(* Every step of the client keeps the invariant. *)
LEMMA NextInv == IInv /\ [Next]_vars => IInv'
<1> SUFFICES ASSUME IInv, [Next]_vars PROVE IInv' OBVIOUS
<1>1. CASE Next
  BY <1>1, ConnectionStepInv, ExecuteInv, StartCommandInv, ReadStdoutInv,
     ReadStderrInv, CloseChannelInv, ThrowsInv DEF Next, ClientStep
<1>2. CASE UNCHANGED vars
  BY <1>2 DEF vars, IInv, Typed, HeldInv, GateInv, CapturesBeginning, FreshInv
<1> QED BY <1>1, <1>2

-----------------------------------------------------------------------------
(* The client never leaves its inductive invariant. *)
THEOREM Invariance == Spec => []IInv
BY InitInv, NextInv, PTL DEF Spec

(* Every reachable state of the client has the declared types. *)
THEOREM TypeCorrect == Spec => []TypeOK
<1>1. IInv => TypeOK
  BY DEF IInv, Typed, CapturesBeginning, TypeOK, Places, Resting
<1> QED BY <1>1, Invariance, PTL

(* Whatever fails, and whenever, no socket, session or channel outlives    *)
(* the call that is responsible for it.                                    *)
THEOREM NoLeak == Spec => []NothingLeaks
<1>1. IInv => NothingLeaks
  BY DEF IInv, HeldInv, NothingLeaks, Resting, WithSocket, WithSession, WithChannel
<1> QED BY <1>1, Invariance, PTL

(* What execute() returns is the beginning of what the command printed;    *)
(* when no read failed or timed out it is all of it.                       *)
THEOREM OutputIsBeginning == Spec => []CapturesBeginning
<1>1. IInv => CapturesBeginning
  BY DEF IInv
<1> QED BY <1>1, Invariance, PTL

(* The password is sent only on a connection that has passed the check of  *)
(* its host key.                                                           *)
THEOREM PasswordIsGated == Spec => CredentialGate
<1> DEFINE Gate == password_sent' /\ ~password_sent
                     => /\ session /\ socket
                        /\ policy = "Strict" => lookup = "match"
<1>1. IInv /\ [Next]_vars => [Gate]_vars
  <2> SUFFICES ASSUME IInv, Next, password_sent', ~password_sent
               PROVE  /\ session /\ socket
                      /\ policy = "Strict" => lookup = "match"
    OBVIOUS
  <2>1. Authenticate \/ Throws
    BY DEF Next, ClientStep, Connect, ConnectTcp, SetBlocking, InitSession, Handshake,
           CheckHostKey, Disconnect, StepOrAbandon, Abandon, Execute, OpenChannel,
           ExecCommand, ExecuteFails, ReadStdout, ReadStderr, CloseChannel, connection
  <2>2. at = "auth"
    BY <2>1 DEF Authenticate, Throws
  <2> QED BY <2>2 DEF IInv, HeldInv, GateInv, WithSocket, WithSession
<1> QED BY <1>1, Invariance, PTL DEF Spec, CredentialGate
=============================================================================
