------------------------------ MODULE SshProbe ------------------------------
(***************************************************************************)
(* One probe of one address: tcp_connect() and tcp_probe() of              *)
(* src/scanner/port_scanner.cpp, probe_ssh() and read_ssh_banner() of      *)
(* src/scanner/ssh_detector.cpp, on wait_for_socket() of                   *)
(* src/platform/windows_sockets.cpp.                                       *)
(*                                                                         *)
(* The probe blocks only in WSAPoll(); what it computes takes no time.     *)
(* The peer answers when it likes and sends its bytes in fragments of any  *)
(* size at any moment.  The clock ticks Resolution times a millisecond.    *)
(***************************************************************************)
EXTENDS Integers, SequencesExt, FiniteSetsExt

CONSTANTS
  connect_timeout, banner_timeout,   \* milliseconds, from the command line
  kMaxBannerBytes,
  ChunkSize,        \* the size of the array chunk
  Identification,   \* stands for the characters "SSH-"
  Streams,          \* what a peer may send, as sequences of characters
  IntMax,           \* the largest INT
  Resolution,       \* ticks of steady_clock in a millisecond
  MaxClock          \* bound: the clock stops here

Characters == UNION {Range(text) : text \in Streams}

ASSUME ProbeAssumption ==
  /\ {connect_timeout, banner_timeout, ChunkSize, kMaxBannerBytes, IntMax,
      Resolution, MaxClock} \subseteq Nat \ {0}
  /\ \A text \in Streams : text \in Seq(Characters)

VARIABLES
  op,            \* the function that was called
  pc,
  clock,
  poll_until,    \* when the current WSAPoll() returns 0, or Never
  deadline,      \* of read_ssh_banner()
  socket_open,   \* the operating system holds a socket of this probe
  peer,          \* the peer's end of the connection
  stream, sent,  \* all the peer has to say, and how much of it has arrived
  buffer,        \* what recv() has returned so far
  status         \* the result

vars == <<op, pc, clock, poll_until, deadline, socket_open, peer, stream,
          sent, buffer, status>>

ConnectResult  == {"Connected", "Refused", "TimedOut", "Unreachable", "Error"}
SshProbeStatus == {"SshDetected", "NotSsh", "NoBanner", "PortClosed",
                   "Timeout", "Unreachable", "Error"}
SocketError    == {"WSAECONNREFUSED", "WSAETIMEDOUT", "WSAEHOSTUNREACH",
                   "WSAENETUNREACH", "WSAEHOSTDOWN", "WSAENETDOWN", "other"}
Never          == MaxClock + 1

(* Where the probe is while it has the socket in hand. *)
InHand == {"mode", "start", "poll_write", "poll_read"}
Places == InHand \cup {"connect", "done", "threw"}

TypeOK ==
  /\ op \in {"probe_ssh", "tcp_probe"}
  /\ pc \in Places
  /\ clock \in 0 .. MaxClock
  /\ poll_until \in Nat
  /\ deadline \in Nat
  /\ socket_open \in BOOLEAN
  /\ peer \in {"unknown", "open", "closed", "failed"}
  /\ stream \in Streams
  /\ sent \in 0 .. Len(stream)
  /\ IsPrefix(buffer, SubSeq(stream, 1, sent))
  /\ status \in IF op = "tcp_probe" THEN ConnectResult ELSE SshProbeStatus

(* The default of SshProbeResult::status is Error. *)
Init ==
  /\ op \in {"probe_ssh", "tcp_probe"}
  /\ pc = "connect"
  /\ clock = 0 /\ poll_until = 0 /\ deadline = 0
  /\ socket_open = FALSE
  /\ peer = "unknown"
  /\ stream \in Streams /\ sent = 0
  /\ buffer = <<>>
  /\ status = "Error"

-----------------------------------------------------------------------------
(* static_cast<INT> *)
AsInt(n) == ((n + IntMax + 1) % (2 * (IntMax + 1))) - (IntMax + 1)

(* Mutant: what rounds down to 0 is passed on as "no timeout". *)
ZeroIsForever(ms) ==
  LET timeout == AsInt(IF ms < 0 THEN 0 ELSE ms)
  IN  IF timeout <= 0 THEN Never ELSE clock + timeout * Resolution

(* wait_for_socket(): a negative timeout becomes 0, then the milliseconds  *)
(* are cast to INT, and WSAPoll() takes a negative INT as "no timeout".    *)
PollUntil(ms) ==
  LET timeout == AsInt(IF ms < 0 THEN 0 ELSE ms)
  IN  IF timeout < 0 THEN Never ELSE clock + timeout * Resolution

classify(error) ==
  CASE error = "0"               -> "Connected"
    [] error = "WSAECONNREFUSED" -> "Refused"
    [] error = "WSAETIMEDOUT"    -> "TimedOut"
    [] error \in {"WSAEHOSTUNREACH", "WSAENETUNREACH", "WSAEHOSTDOWN",
                  "WSAENETDOWN"} -> "Unreachable"
    [] OTHER                     -> "Error"

(* The switch of probe_ssh(); tcp_probe() returns the result as it is. *)
Reported(result) ==
  IF op = "tcp_probe" THEN result
  ELSE CASE result = "Refused"     -> "PortClosed"
         [] result = "TimedOut"    -> "Timeout"
         [] result = "Unreachable" -> "Unreachable"
         [] result = "Error"       -> "Error"

-----------------------------------------------------------------------------
(* The banner                                                              *)

NewLine   == "\n"
LineBreak == {"\r", NewLine}
Control   == {"^"}          \* every byte outside 0x20 .. 0x7e
Blank     == " "
Unprinted == "?"            \* stands in for a control character

(* "SSH-" fits the buffer and has no character that sanitize_banner() may  *)
(* cut off or put in the place of another.                                 *)
ASSUME IdentificationAssumption ==
  /\ Identification \in Seq(Range(Identification)) /\ Identification # <<>>
  /\ Len(Identification) <= kMaxBannerBytes
  /\ Range(Identification) \cap (LineBreak \cup Control \cup {Blank, Unprinted}) = {}

(* Mutant: control characters are dropped instead of replaced. *)
sanitize_dropping(raw) ==
  LET line == SubSeq(raw, 1, Min({i \in DOMAIN raw : raw[i] \in LineBreak}
                                   \cup {Len(raw) + 1}) - 1)
  IN  SelectSeq(line, LAMBDA c : c \notin Control)

(* The first line, unprintable characters replaced, trailing blanks cut. *)
sanitize_banner(raw) ==
  LET line == SubSeq(raw, 1, Min({i \in DOMAIN raw : raw[i] \in LineBreak}
                                   \cup {Len(raw) + 1}) - 1)
      text == [i \in DOMAIN line |-> IF line[i] \in Control THEN Unprinted ELSE line[i]]
  IN  SubSeq(text, 1, Max({i \in DOMAIN text : text[i] # Blank} \cup {0}))

is_ssh_identification(line) == IsPrefix(Identification, line)

Verdict(raw) ==
  IF raw = <<>> THEN "NoBanner"
  ELSE IF is_ssh_identification(sanitize_banner(raw)) THEN "SshDetected"
  ELSE "NotSsh"

-----------------------------------------------------------------------------
(* tcp_connect()                                                           *)

(* Mutant: the socket is not closed when the connection is not made. *)
FailsOpen(result) ==
  /\ pc' = "done"
  /\ status' = Reported(result)
  /\ UNCHANGED <<op, clock, poll_until, deadline, socket_open, peer, stream,
                 sent, buffer>>

(* Every return that leaves out_socket invalid. *)
ConnectFails(result) ==
  /\ pc' = "done"
  /\ status' = Reported(result)
  /\ socket_open' = FALSE
  /\ UNCHANGED <<op, clock, poll_until, deadline, peer, stream, sent, buffer>>

(* The connection is made: tcp_probe() closes it, probe_ssh() goes on with *)
(* read_ssh_banner(), which computes its deadline and polls.               *)
Connected ==
  /\ IF op = "tcp_probe"
       THEN /\ pc' = "done" /\ status' = "Connected" /\ socket_open' = FALSE
            /\ UNCHANGED <<poll_until, deadline>>
       ELSE /\ pc' = "poll_read" /\ socket_open' = TRUE
            /\ deadline' = clock + banner_timeout * Resolution
            /\ poll_until' = PollUntil(banner_timeout)
            /\ UNCHANGED status
  /\ peer' = "open"
  /\ UNCHANGED <<op, clock, stream, sent, buffer>>

(* Winsock, the address, and the socket. *)
OpenSocket ==
  /\ pc = "connect"
  /\ \/ /\ pc' = "mode" /\ socket_open' = TRUE
        /\ UNCHANGED <<op, clock, poll_until, deadline, peer, stream, sent,
                       buffer, status>>
     \/ ConnectFails("Error")

(* set_non_blocking() *)
SetMode ==
  /\ pc = "mode"
  /\ \/ /\ pc' = "start"
        /\ UNCHANGED <<op, clock, poll_until, deadline, socket_open, peer,
                       stream, sent, buffer, status>>
     \/ ConnectFails("Error")

(* connect() ends at once. *)
ConnectAtOnce ==
  /\ pc = "start"
  /\ \/ Connected
     \/ \E error \in SocketError : ConnectFails(classify(error))

(* connect() returns WSAEWOULDBLOCK and the probe polls. *)
ConnectPending ==
  /\ pc = "start"
  /\ pc' = "poll_write"
  /\ poll_until' = PollUntil(connect_timeout)
  /\ UNCHANGED <<op, clock, deadline, socket_open, peer, stream, sent, buffer,
                 status>>

(* WSAPoll() returns 0. *)
ConnectTimesOut ==
  /\ pc = "poll_write"
  /\ clock >= poll_until
  /\ ConnectFails("TimedOut")

(* WSAPoll() reports an event; SO_ERROR tells which. *)
ConnectAnswered ==
  /\ pc = "poll_write"
  /\ \/ Connected
     \/ \E error \in SocketError : ConnectFails(classify(error))

(* WSAPoll() or getsockopt() fails. *)
ConnectBreaks ==
  /\ pc = "poll_write"
  /\ ConnectFails("Error")

-----------------------------------------------------------------------------
(* read_ssh_banner() and the end of probe_ssh()                            *)

Arrived == SubSeq(stream, Len(buffer) + 1, sent)

(* Mutant: the whole array is appended, the zeros after the bytes too. *)
WholeArray ==
  [i \in 1 .. ChunkSize |-> IF i <= Len(Arrived) THEN Arrived[i] ELSE "^"]

(* What recv() puts into the array chunk. *)
Chunk == SubSeq(Arrived, 1, Min({Len(Arrived), ChunkSize}))

(* The result is computed from the buffer and the socket is closed. *)
Finish(raw) ==
  /\ pc' = "done"
  /\ status' = Verdict(raw)
  /\ socket_open' = FALSE

(* Mutant: every turn polls for the whole timeout again. *)
whole_timeout == banner_timeout

(* duration_cast rounds down to whole milliseconds. *)
remaining == (deadline - clock) \div Resolution

(* Mutant: the size of the buffer is not looked at. *)
LineComplete(raw) == NewLine \in Range(raw) \/ clock >= deadline

(* A newline or a full buffer after recv(), or the deadline at the top. *)
LoopEnds(raw) ==
  \/ NewLine \in Range(raw)
  \/ Len(raw) >= kMaxBannerBytes
  \/ clock >= deadline

(* recv() returns bytes, and the loop ends or polls again. *)
ReadChunk ==
  /\ pc = "poll_read"
  /\ Arrived # <<>>
  /\ buffer' = buffer \o Chunk
  /\ IF LoopEnds(buffer')
       THEN Finish(buffer') /\ UNCHANGED poll_until
       ELSE /\ poll_until' = PollUntil(remaining)
            /\ UNCHANGED <<pc, status, socket_open>>
  /\ UNCHANGED <<op, clock, deadline, peer, stream, sent>>

(* The poll times out, or recv() returns 0 at the end of the stream. *)
ReadEnds ==
  /\ pc = "poll_read"
  /\ Arrived = <<>>
  /\ clock >= poll_until \/ peer = "closed"
  /\ Finish(buffer)
  /\ UNCHANGED <<op, clock, poll_until, deadline, peer, stream, sent, buffer>>

(* WSAPoll() or recv() fails: what was received decides. *)
ReadBreaks ==
  /\ pc = "poll_read"
  /\ peer' = "failed"
  /\ Finish(buffer)
  /\ UNCHANGED <<op, clock, poll_until, deadline, stream, sent, buffer>>

(* buffer.append() throws: nothing closes the socket. *)
ReadThrows ==
  /\ pc = "poll_read"
  /\ Arrived # <<>>
  /\ pc' = "threw"
  /\ UNCHANGED <<op, clock, poll_until, deadline, socket_open, peer, stream,
                 sent, buffer, status>>

-----------------------------------------------------------------------------
(* The environment                                                         *)

(* The next fragment of the peer's stream arrives. *)
Deliver ==
  /\ pc = "poll_read" /\ peer = "open"
  /\ sent' \in sent + 1 .. Len(stream)
  /\ UNCHANGED <<op, pc, clock, poll_until, deadline, socket_open, peer,
                 stream, buffer, status>>

PeerCloses ==
  /\ pc = "poll_read" /\ peer = "open"
  /\ peer' = "closed"
  /\ UNCHANGED <<op, pc, clock, poll_until, deadline, socket_open, stream,
                 sent, buffer, status>>

(* Time passes while WSAPoll() has nothing to report. *)
Tick ==
  /\ \/ pc = "poll_write"
     \/ pc = "poll_read" /\ Arrived = <<>> /\ peer = "open"
  /\ clock < poll_until /\ clock < MaxClock
  /\ clock' = clock + 1
  /\ UNCHANGED <<op, pc, poll_until, deadline, socket_open, peer, stream,
                 sent, buffer, status>>

Ended == pc \in {"done", "threw"} /\ UNCHANGED vars

ProbeStep ==
  \/ OpenSocket \/ SetMode \/ ConnectAtOnce \/ ConnectPending
  \/ ConnectTimesOut \/ ConnectAnswered \/ ConnectBreaks
  \/ ReadChunk \/ ReadEnds \/ ReadBreaks \/ ReadThrows

Next == ProbeStep \/ Deliver \/ PeerCloses \/ Tick \/ Ended

Spec == Init /\ [][Next]_vars

(* The thread runs, time passes and a poll whose time is up returns; the   *)
(* peer owes nothing, and errors need not happen.                          *)
Fairness ==
  /\ WF_vars(OpenSocket \/ SetMode \/ ConnectAtOnce \/ ConnectPending)
  /\ WF_vars(ConnectTimesOut \/ ReadChunk \/ ReadEnds)
  /\ WF_vars(Tick)

FairSpec == Spec /\ Fairness

-----------------------------------------------------------------------------
(* Properties                                                              *)

(* "the call never blocks longer than `timeout`" (tcp_connect) and "Never  *)
(* blocks longer than `timeout`" (read_ssh_banner), also when the peer     *)
(* sends its banner one byte at a time.                                    *)
NeverBlocksLonger ==
  /\ deadline = 0 => clock <= connect_timeout * Resolution
  /\ deadline # 0 => clock <= deadline

(* The socket is closed by every return of tcp_connect(), tcp_probe() and  *)
(* probe_ssh(), at whichever step they end; the one thing that leaves it   *)
(* open is an exception in read_ssh_banner().                              *)
SocketReleased == socket_open <=> pc \in InHand \cup {"threw"}

(* How the peer's bytes are cut into fragments does not change the         *)
(* verdict: only a stream that starts with the identification is SSH, and  *)
(* such a stream is turned down only if too little of it came before the   *)
(* peer broke off or less than a millisecond was left.                     *)
VerdictMatchesStream ==
  pc = "done" /\ deadline # 0 =>
    LET isSsh  == IsPrefix(Identification, stream)
        cutOff == peer # "open" \/ clock + Resolution > deadline
    IN  /\ status = "SshDetected" => isSsh
        /\ status = "NotSsh" /\ isSsh
             => cutOff /\ Len(buffer) < Len(Identification)
        /\ status = "NoBanner" => cutOff /\ buffer = <<>>

(* A peer that never ends its line cannot make the buffer grow: at most    *)
(* one chunk goes past the limit.                                          *)
BufferBounded == Len(buffer) < kMaxBannerBytes + ChunkSize

(* A probe ends, whatever the peer does or fails to do. *)
ProbeEnds == <>(pc \in {"done", "threw"})
=============================================================================
