------------------------------ MODULE SshClient -----------------------------
(***************************************************************************)
(* The SSH client of src/ssh/ssh_client.{hpp,cpp}: one object on which     *)
(* connect_and_authenticate(), execute() and disconnect() are called from  *)
(* one thread.  Each call of libssh2 is a step; the peer may make any of   *)
(* them fail.  A step that fails runs disconnect() before it returns; an   *)
(* exception runs nothing, and leaves the rest to ~SshClient().            *)
(***************************************************************************)
EXTENDS Integers, Sequences

CONSTANTS
  Commands,          \* the commands execute() is called with
  Outputs,           \* what a command may print, as sequences
  ExitCodes,         \* how a command may end
  command_timeout,   \* of each blocking call of libssh2, in ticks
  MaxElapsed         \* bound: the clock of a command stops here

Lines == UNION {{output[i] : i \in DOMAIN output} : output \in Outputs}

ASSUME ClientAssumption ==
  /\ \A output \in Outputs : output \in Seq(Lines)
  /\ command_timeout \in Nat
  /\ MaxElapsed \in Nat

VARIABLES
  policy,            \* config_.host_key_policy
  at,                \* where the client is
  socket, session, channel,      \* what is held
  lookup,            \* what known_hosts said of the key of this connection
  host_key_status,
  last_error,
  password_sent,     \* on the present or the last connection
  command, remote,   \* the command and what the device does with it
  elapsed,           \* how long the command has been read from
  complete,          \* both streams were read to their end
  result             \* the last CommandResult

vars == <<policy, at, socket, session, channel, lookup, host_key_status,
          last_error, password_sent, command, remote, elapsed, complete, result>>

connection == <<policy, socket, session, lookup, host_key_status, last_error,
                password_sent>>

HostKeyPolicy == {"Warn", "Strict"}
Lookup        == {"none", "match", "mismatch", "notfound", "failure"}
HostKeyStatus == {"", "unknown", "match", "mismatch", "check-failure"}
ErrorText     == {"", "initialisation", "connection", "blocking", "session",
                  "handshake", "host_key", "authentication"}
Resting       == {"idle", "ready"}

(* The default CommandResult: not ok, exit code -1. *)
NoResult == [ok |-> FALSE, exit_code |-> -1, stdout |-> <<>>, error |-> FALSE]

NoRemote == [stdout |-> <<>>, stderr |-> 0, code |-> 0]

TypeOK ==
  /\ policy \in HostKeyPolicy
  /\ at \in Resting \cup {"tcp", "blocking", "init", "handshake", "hostkey",
                          "auth", "open", "exec", "stdout", "stderr", "close",
                          "threw"}
  /\ {socket, session, channel, password_sent, complete} \subseteq BOOLEAN
  /\ lookup \in Lookup
  /\ host_key_status \in HostKeyStatus
  /\ last_error \in ErrorText
  /\ elapsed \in 0 .. MaxElapsed
  /\ result.exit_code \in ExitCodes \cup {-1, 0}
  /\ Len(result.stdout) <= Len(remote.stdout)

Init ==
  /\ policy \in HostKeyPolicy
  /\ at = "idle"
  /\ socket = FALSE /\ session = FALSE /\ channel = FALSE
  /\ lookup = "none" /\ host_key_status = ""
  /\ last_error = ""
  /\ password_sent = FALSE
  /\ command = "" /\ remote = NoRemote
  /\ elapsed = 0 /\ complete = FALSE
  /\ result = NoResult

-----------------------------------------------------------------------------
(* connect_and_authenticate()                                              *)

(* Mutant: the session is freed and the socket forgotten. *)
AbandonSession(error) ==
  /\ at' = "idle"
  /\ last_error' = error
  /\ session' = FALSE
  /\ UNCHANGED <<policy, socket, channel, lookup, host_key_status,
                 password_sent, command, remote, elapsed, complete, result>>

(* disconnect(): libssh2_session_free() frees the channels too. *)
Closed == session' = FALSE /\ channel' = FALSE /\ socket' = FALSE

(* last_error_ = ...; disconnect(); return false *)
Abandon(error) ==
  /\ at' = "idle"
  /\ last_error' = error
  /\ Closed
  /\ UNCHANGED <<policy, lookup, host_key_status, password_sent, command,
                 remote, elapsed, complete, result>>

(* A step that changes nothing but the place, or fails. *)
StepOrAbandon(from, to, error) ==
  /\ at = from
  /\ \/ /\ at' = to
        /\ UNCHANGED <<connection, channel, command, remote, elapsed,
                       complete, result>>
     \/ Abandon(error)

(* A client that holds no connection is asked to make one. *)
Connect ==
  /\ at = "idle"
  /\ at' = "tcp"
  /\ password_sent' = FALSE /\ lookup' = "none"
  /\ UNCHANGED <<policy, socket, session, channel, host_key_status,
                 last_error, command, remote, elapsed, complete, result>>

(* libssh2_init(), once in a process, and tcp_connect() *)
ConnectTcp ==
  /\ at = "tcp"
  /\ \/ /\ at' = "blocking" /\ socket' = TRUE
        /\ UNCHANGED <<policy, session, lookup, host_key_status, last_error,
                       password_sent, channel, command, remote, elapsed,
                       complete, result>>
     \/ Abandon("initialisation")
     \/ Abandon("connection")

(* ioctlsocket(FIONBIO) *)
SetBlocking == StepOrAbandon("blocking", "init", "blocking")

InitSession ==
  /\ at = "init"
  /\ \/ /\ at' = "handshake" /\ session' = TRUE
        /\ UNCHANGED <<policy, socket, lookup, host_key_status, last_error,
                       password_sent, channel, command, remote, elapsed,
                       complete, result>>
     \/ Abandon("session")

Handshake == StepOrAbandon("handshake", "hostkey", "handshake")

(* Mutant: host_key_status_ is not reset, and a lookup that cannot be made *)
(* leaves the status of an earlier connection.                             *)
StatusKept(found) ==
  CASE found = "match"    -> "match"
    [] found = "mismatch" -> "mismatch"
    [] found = "notfound" -> "unknown"
    [] found = "failure"  -> "check-failure"
    [] found = "none"     -> host_key_status

(* "unknown", and then what the lookup says, if there is one: it needs a   *)
(* host key, a path and libssh2_knownhost_init().                          *)
StatusOf(found) ==
  CASE found = "match"    -> "match"
    [] found = "mismatch" -> "mismatch"
    [] found = "failure"  -> "check-failure"
    [] OTHER              -> "unknown"

CheckHostKey ==
  /\ at = "hostkey"
  /\ \E found \in Lookup :
       /\ lookup' = found
       /\ host_key_status' = StatusOf(found)
       /\ IF policy = "Strict" /\ StatusOf(found) # "match"
            THEN at' = "idle" /\ last_error' = "host_key" /\ Closed
            ELSE at' = "auth" /\ UNCHANGED <<last_error, session, channel, socket>>
  /\ UNCHANGED <<policy, password_sent, command, remote, elapsed, complete,
                 result>>

(* libssh2_userauth_password(), which may fail before it sends a password. *)
Authenticate ==
  /\ at = "auth"
  /\ \/ /\ at' = "ready" /\ password_sent' = TRUE
        /\ UNCHANGED <<last_error, session, channel, socket>>
     \/ /\ at' = "idle" /\ last_error' = "authentication"
        /\ password_sent' \in BOOLEAN
        /\ Closed
  /\ UNCHANGED <<policy, lookup, host_key_status, command, remote, elapsed,
                 complete, result>>

-----------------------------------------------------------------------------
(* execute()                                                               *)

(* Mutant: the result of the last command is not cleared. *)
ExecuteStale(c) ==
  /\ at = "ready"
  /\ command' = c
  /\ remote' = NoRemote
  /\ elapsed' = 0 /\ complete' = FALSE
  /\ at' = "open"
  /\ UNCHANGED <<connection, channel, result>>

(* Without a session the call returns at once. *)
Execute(c) ==
  /\ at \in Resting
  /\ command' = c
  /\ remote' = NoRemote
  /\ elapsed' = 0 /\ complete' = FALSE
  /\ IF session THEN at' = "open" /\ result' = NoResult
                ELSE at' = at /\ result' = [NoResult EXCEPT !.error = TRUE]
  /\ UNCHANGED <<connection, channel>>

ExecuteFails ==
  /\ at' = "ready"
  /\ channel' = FALSE
  /\ result' = [result EXCEPT !.error = TRUE]
  /\ UNCHANGED <<connection, command, remote, elapsed, complete>>

OpenChannel ==
  /\ at = "open"
  /\ \/ /\ at' = "exec" /\ channel' = TRUE
        /\ UNCHANGED <<connection, command, remote, elapsed, complete, result>>
     \/ ExecuteFails

(* The device starts the command and will print what it prints. *)
ExecCommand ==
  /\ at = "exec"
  /\ \/ /\ at' = "stdout"
        /\ remote' \in [stdout : Outputs, stderr : 0 .. 1, code : ExitCodes]
        /\ UNCHANGED <<connection, channel, command, elapsed, complete, result>>
     \/ ExecuteFails

(* Each read waits for less than the timeout; nothing bounds their sum. *)
Passes(wait) ==
  elapsed' = IF elapsed + wait < MaxElapsed THEN elapsed + wait ELSE MaxElapsed

(* A read of stdout: bytes, which the loop appends, the end of the stream, *)
(* or an error or a timeout, which the loop takes for the end.             *)
ReadStdout ==
  /\ at = "stdout"
  /\ \E wait \in 0 .. command_timeout :
       LET got == Len(result.stdout)
       IN  \/ /\ got < Len(remote.stdout) /\ wait < command_timeout
              /\ result' = [result EXCEPT !.stdout =
                              Append(@, remote.stdout[got + 1])]
              /\ Passes(wait)
              /\ UNCHANGED <<at, complete>>
           \/ /\ at' = "stderr"
              /\ complete' = (got = Len(remote.stdout) /\ wait < command_timeout)
              /\ Passes(wait)
              /\ UNCHANGED result
  /\ UNCHANGED <<connection, channel, command, remote>>

(* Mutant: the loop goes on when a read returns 0. *)
ReadStderrForever ==
  /\ at = "stderr"
  /\ IF remote.stderr > 0 THEN remote' = [remote EXCEPT !.stderr = @ - 1]
                          ELSE UNCHANGED remote
  /\ UNCHANGED <<connection, at, channel, command, elapsed, complete, result>>

(* The same loop for stderr; remote.stderr is what is still to be read. *)
ReadStderr ==
  /\ at = "stderr"
  /\ \E wait \in 0 .. command_timeout :
       \/ /\ remote.stderr > 0 /\ wait < command_timeout
          /\ remote' = [remote EXCEPT !.stderr = @ - 1]
          /\ Passes(wait)
          /\ UNCHANGED <<at, complete>>
       \/ /\ at' = "close"
          /\ complete' = (complete /\ remote.stderr = 0 /\ wait < command_timeout)
          /\ Passes(wait)
          /\ UNCHANGED remote
  /\ UNCHANGED <<connection, channel, command, result>>

(* The channel is closed and freed.  libssh2 has the exit status if the    *)
(* command got to its end, and otherwise, perhaps, its initial value 0.    *)
CloseChannel ==
  /\ at = "close"
  /\ at' = "ready"
  /\ channel' = FALSE
  /\ \E code \in {remote.code} \cup (IF complete THEN {} ELSE {0}) :
       result' = [result EXCEPT !.ok = TRUE, !.exit_code = code]
  /\ UNCHANGED <<connection, command, remote, elapsed, complete>>

-----------------------------------------------------------------------------
(* A std::string that is set, built or appended to throws out of the call: *)
(* what was taken is still held, and a password may be under way.          *)
Throws ==
  /\ at \notin Resting \cup {"close", "threw"}
  /\ at' = "threw"
  /\ password_sent' \in IF at = "auth" THEN BOOLEAN ELSE {password_sent}
  /\ UNCHANGED <<policy, socket, session, channel, lookup, host_key_status,
                 last_error, command, remote, elapsed, complete, result>>

(* disconnect(), also called by ~SshClient(); nothing happens to a client  *)
(* without a connection.                                                   *)
Disconnect ==
  /\ at \in Resting \cup {"threw"}
  /\ at' = "idle"
  /\ Closed
  /\ UNCHANGED <<policy, lookup, host_key_status, last_error, password_sent,
                 command, remote, elapsed, complete, result>>

(* What happens inside a call *)
ClientStep ==
  \/ ConnectTcp \/ SetBlocking \/ InitSession \/ Handshake \/ CheckHostKey
  \/ Authenticate
  \/ OpenChannel \/ ExecCommand \/ ReadStdout \/ ReadStderr \/ CloseChannel

Next ==
  \/ ClientStep
  \/ Throws
  \/ Connect
  \/ \E c \in Commands : Execute(c)
  \/ Disconnect

Spec == Init /\ [][Next]_vars

(* Every blocking call of libssh2 returns within its timeout; exceptions   *)
(* need not happen.                                                        *)
FairSpec == Spec /\ WF_vars(ClientStep)

-----------------------------------------------------------------------------
(* Properties                                                              *)

(* The password leaves the machine only through a session whose host key   *)
(* was looked up on this very connection, and under --strict-host-key only *)
(* when that key matched (connect_and_authenticate).                       *)
CredentialGate ==
  [][password_sent' /\ ~password_sent
       => /\ session /\ socket
          /\ policy = "Strict" => lookup = "match"]_vars

(* A failed connect_and_authenticate() and a disconnect() leave nothing    *)
(* behind, also after an exception with any part of a connection in hand;  *)
(* a channel never outlives an execute() that returns, and no session      *)
(* outlives its socket (disconnect, execute).                              *)
NothingLeaks ==
  /\ at = "idle" => ~socket /\ ~session
  /\ at \in Resting => ~channel
  /\ channel => session
  /\ session => socket

(* Whatever the device does, a call of the client returns or throws, as    *)
(* long as what the command prints has an end.                             *)
CallsReturn == at \notin Resting ~> at \in Resting \cup {"threw"}

(* "Runs `command` on the remote host and captures stdout/stderr."         *)
(* (ssh_client.hpp): a command reported as ok with exit code 0 was read to *)
(* its end.                                                                *)
OkMeansCaptured ==
  at \in Resting /\ result.ok /\ result.exit_code = 0
    => result.stdout = remote.stdout

(* "every phase has a timeout" (README.md): reading the output of a        *)
(* command takes no longer than --command-timeout.                         *)
CommandTimed == elapsed <= command_timeout
=============================================================================
