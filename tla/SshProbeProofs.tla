--------------------------- MODULE SshProbeProofs ---------------------------
(***************************************************************************)
(* Proofs about one probe, for all timeouts, buffer sizes and streams of   *)
(* the peer.  Two inductive invariants: ProbeInv says what the buffer and  *)
(* the socket are at every point, and holds whatever the timeouts are;     *)
(* TimeInv bounds the waits, and needs timeouts that fit the INT to which  *)
(* wait_for_socket() casts them.                                           *)
(***************************************************************************)
EXTENDS SshProbe, DataFacts

Failures == ConnectResult \ {"Connected"}

(* Where tcp_connect() has not made its connection yet. *)
Connecting == {"connect", "mode", "start", "poll_write"}

StatusOf(function) == IF function = "tcp_probe" THEN ConnectResult ELSE SshProbeStatus

(* The types, with {x} \subseteq BOOLEAN for a Boolean x. *)
Typed ==
  /\ op \in {"probe_ssh", "tcp_probe"}
  /\ pc \in Places
  /\ clock \in 0 .. MaxClock
  /\ poll_until \in Nat
  /\ deadline \in Nat
  /\ {socket_open} \subseteq BOOLEAN
  /\ peer \in {"unknown", "open", "closed", "failed"}
  /\ stream \in Streams
  /\ sent \in 0 .. Len(stream)
  /\ status \in StatusOf(op)

(* The buffer is a beginning of what has arrived. *)
BufferInv == \E n \in 0 .. sent : buffer = SubSeq(stream, 1, n)

(* While read_ssh_banner() waits, its buffer holds neither a whole line    *)
(* nor all it may; before it is called there is nothing in it.             *)
ReadInv ==
  /\ pc = "poll_read" => /\ op = "probe_ssh"
                         /\ Len(buffer) < kMaxBannerBytes
                         /\ NewLine \notin Range(buffer)
  /\ pc \in Connecting => buffer = <<>>

(* The inductive invariant of a probe, whatever the timeouts are. *)
ProbeInv ==
  /\ Typed
  /\ BufferInv
  /\ ReadInv
  /\ SocketReleased
  /\ BufferBounded

(* The timeouts survive static_cast<INT>. *)
TimeoutsFit == connect_timeout <= IntMax /\ banner_timeout <= IntMax

(* No wait goes past the end of its timeout, and a wait of                 *)
(* read_ssh_banner() ends less than a millisecond before the deadline.     *)
WaitInv ==
  /\ pc \in {"connect", "mode", "start"} => clock = 0 /\ deadline = 0
  /\ pc = "poll_write" => /\ deadline = 0
                          /\ clock <= poll_until
                          /\ poll_until <= connect_timeout * Resolution
  /\ pc = "poll_read" => /\ deadline > 0
                         /\ clock <= poll_until /\ poll_until <= deadline
                         /\ deadline < poll_until + Resolution
                         /\ deadline <= clock + banner_timeout * Resolution

(* The peer broke off, or less than a millisecond was left. *)
CutOff == peer # "open" \/ clock + Resolution > deadline

(* A probe that read a banner judges what it read, and it stopped because  *)
(* it had a line, had enough, or was cut off.                              *)
JudgedInv ==
  pc = "done" /\ deadline # 0 =>
    /\ status = Verdict(buffer)
    /\ NewLine \in Range(buffer) \/ Len(buffer) >= kMaxBannerBytes \/ CutOff

(* The inductive invariant of a probe with timeouts that fit. *)
TimeInv ==
  /\ WaitInv
  /\ NeverBlocksLonger
  /\ JudgedInv

-----------------------------------------------------------------------------
(* Facts about the constants and the helpers of the probe                  *)

(* The numbers among the constants. *)
LEMMA ConstantFacts ==
  /\ connect_timeout \in Nat /\ connect_timeout > 0
  /\ banner_timeout \in Nat /\ banner_timeout > 0
  /\ kMaxBannerBytes \in Nat /\ kMaxBannerBytes > 0
  /\ ChunkSize \in Nat /\ ChunkSize > 0
  /\ IntMax \in Nat /\ IntMax > 0
  /\ Resolution \in Nat /\ Resolution > 0
  /\ MaxClock \in Nat /\ MaxClock > 0
BY ProbeAssumption

(* The lengths of what was sent and received. *)
LEMMA StreamFacts ==
  ASSUME Typed, BufferInv
  PROVE  /\ stream \in Seq(Characters) /\ Len(stream) \in Nat
         /\ sent \in Nat /\ sent <= Len(stream)
         /\ buffer \in Seq(Characters) /\ Len(buffer) \in Nat /\ Len(buffer) <= sent
         /\ buffer = SubSeq(stream, 1, Len(buffer))
         /\ \A i \in 1 .. Len(buffer) : buffer[i] = stream[i]
<1>1. stream \in Seq(Characters) /\ Len(stream) \in Nat
  BY ProbeAssumption DEF Typed
<1>2. sent \in Nat /\ sent <= Len(stream)
  BY <1>1 DEF Typed
<1>3. PICK n \in 0 .. sent : buffer = SubSeq(stream, 1, n)
  BY DEF BufferInv
<1>4. n \in 0 .. Len(stream)
  BY <1>1, <1>2
<1>5. /\ SubSeq(stream, 1, n) \in Seq(Characters) /\ Len(SubSeq(stream, 1, n)) = n
      /\ \A i \in 1 .. n : SubSeq(stream, 1, n)[i] = stream[i]
  BY <1>1, <1>4, TakeFacts
<1> QED BY <1>1, <1>2, <1>3, <1>5

(* classify() never takes an error for a connection. *)
LEMMA ClassifyFacts == \A error \in SocketError : classify(error) \in Failures
<1>1. ASSUME NEW error \in SocketError
      PROVE  classify(error) \in {"Refused", "TimedOut", "Unreachable", "Error"}
  BY <1>1, Zenon DEF classify, SocketError
<1> QED BY <1>1 DEF Failures, ConnectResult

(* The switch of probe_ssh() has a case for every failure. *)
LEMMA ReportedFacts ==
  ASSUME Typed, NEW result \in Failures
  PROVE  Reported(result) \in StatusOf(op)
<1>1. CASE op = "tcp_probe"
  BY <1>1 DEF Reported, StatusOf, Failures
<1>2. CASE op # "tcp_probe"
  <2>1. result \in {"Refused", "TimedOut", "Unreachable", "Error"}
    BY DEF Failures, ConnectResult
  <2>2. Reported(result) \in {"PortClosed", "Timeout", "Unreachable", "Error"}
    BY <1>2, <2>1, Zenon DEF Reported
  <2> QED BY <1>2, <2>2 DEF StatusOf, SshProbeStatus
<1> QED BY <1>1, <1>2

(* A poll ends at some moment, which may be the one that never comes. *)
LEMMA PollFacts ==
  ASSUME Typed, NEW ms \in Int
  PROVE  PollUntil(ms) \in Nat
<1> DEFINE timeout == AsInt(IF ms < 0 THEN 0 ELSE ms)
<1>1. timeout \in Int
  BY ConstantFacts DEF AsInt
<1> HIDE DEF timeout
<1>2. Never \in Nat /\ clock \in Nat
  BY ConstantFacts DEF Never, Typed
<1>3. timeout >= 0 => timeout * Resolution \in Nat
  BY <1>1, ConstantFacts
<1>4. PollUntil(ms) = IF timeout < 0 THEN Never ELSE clock + timeout * Resolution
  BY DEF PollUntil, timeout
<1> QED BY <1>1, <1>2, <1>3, <1>4

(* A whole number of milliseconds that fits an INT is not changed by the   *)
(* cast, and the poll ends when it should.                                 *)
LEMMA PollFits ==
  ASSUME Typed, NEW ms \in 0 .. IntMax
  PROVE  PollUntil(ms) = clock + ms * Resolution
<1>1. ms \in Nat /\ ms + IntMax + 1 \in Nat /\ ms + IntMax + 1 < 2 * (IntMax + 1)
  BY ConstantFacts
<1>2. \A x, m \in Nat : x < m => x % m = x
  OBVIOUS
<1>3. (ms + IntMax + 1) % (2 * (IntMax + 1)) = ms + IntMax + 1
  BY <1>1, <1>2, ConstantFacts
<1>4. AsInt(ms) = ms
  BY <1>1, <1>3, ConstantFacts DEF AsInt
<1> QED BY <1>1, <1>4 DEF PollUntil

(* All returns of tcp_connect() once it has called connect() are a failure *)
(* or a connection.                                                        *)
LEMMA ConnectEnds ==
  ASSUME ConnectAtOnce \/ ConnectTimesOut \/ ConnectAnswered \/ ConnectBreaks
  PROVE  /\ pc \in {"start", "poll_write"}
         /\ Connected \/ \E result \in Failures : ConnectFails(result)
<1>1. "Error" \in Failures /\ "TimedOut" \in Failures
  BY DEF Failures, ConnectResult
<1>2. ASSUME NEW error \in SocketError, ConnectFails(classify(error))
      PROVE  \E result \in Failures : ConnectFails(result)
  BY <1>2, ClassifyFacts
<1> QED
  BY <1>1, <1>2 DEF ConnectAtOnce, ConnectTimesOut, ConnectAnswered, ConnectBreaks

(* Before it calls connect(), tcp_connect() goes on to the next call, with *)
(* a socket, or fails.                                                     *)
LEMMA PrepareEnds ==
  ASSUME OpenSocket \/ SetMode
  PROVE  \/ /\ pc \in {"connect", "mode"} /\ pc' \in {"mode", "start"}
            /\ socket_open' = TRUE \/ (pc = "mode" /\ socket_open' = socket_open)
            /\ UNCHANGED <<op, clock, poll_until, deadline, peer, stream, sent,
                           buffer, status>>
         \/ /\ pc \in {"connect", "mode"}
            /\ \E result \in Failures : ConnectFails(result)
<1>1. "Error" \in Failures
  BY DEF Failures, ConnectResult
<1> QED BY <1>1 DEF OpenSocket, SetMode

(* The result computed from a buffer is one of probe_ssh(). *)
LEMMA VerdictFacts ==
  ASSUME NEW raw
  PROVE  /\ Verdict(raw) \in SshProbeStatus
         /\ Verdict(raw) = "NoBanner" <=> raw = <<>>
         /\ Verdict(raw) = "SshDetected" => is_ssh_identification(sanitize_banner(raw))
         /\ Verdict(raw) = "NotSsh" => ~is_ssh_identification(sanitize_banner(raw))
BY DEF Verdict, SshProbeStatus

(* A chunk that recv() returns extends the buffer by what follows it in    *)
(* the stream, by at least one byte and at most ChunkSize.                 *)
LEMMA ChunkFacts ==
  ASSUME Typed, BufferInv, ReadChunk
  PROVE  /\ \E n \in 0 .. sent : buffer' = SubSeq(stream, 1, n)
         /\ Len(buffer') \in Nat /\ Len(buffer') > Len(buffer)
         /\ Len(buffer') <= Len(buffer) + ChunkSize
<1> DEFINE n == Len(buffer)
           k == Min({Len(Arrived), ChunkSize})
<1>1. /\ stream \in Seq(Characters) /\ sent \in Nat /\ sent <= Len(stream)
      /\ n \in Nat /\ n <= sent /\ buffer = SubSeq(stream, 1, n)
  BY StreamFacts
<1>2. Arrived # <<>> /\ buffer' = buffer \o SubSeq(Arrived, 1, k)
  BY DEF ReadChunk, Chunk
<1>3. /\ Arrived \in Seq(Characters) /\ Len(Arrived) = sent - n /\ Len(Arrived) > 0
      /\ \A i \in 1 .. sent - n : Arrived[i] = stream[n + i]
  BY <1>1, <1>2 DEF Arrived
<1>4. k \in Nat /\ k > 0 /\ k <= sent - n /\ k <= ChunkSize
  <2>1. {Len(Arrived), ChunkSize} \subseteq Nat
    BY <1>1, <1>3, ConstantFacts
  <2>2. k \in {Len(Arrived), ChunkSize} /\ \A y \in {Len(Arrived), ChunkSize} : k <= y
    BY <2>1, MinFacts
  <2> QED BY <1>1, <1>3, <2>2, ConstantFacts
<1> HIDE DEF k, n
<1>5. SubSeq(Arrived, 1, k) = SubSeq(stream, n + 1, n + k)
  <2>1. /\ SubSeq(Arrived, 1, k) \in Seq(Characters) /\ Len(SubSeq(Arrived, 1, k)) = k
        /\ \A i \in 1 .. k : SubSeq(Arrived, 1, k)[i] = Arrived[i]
    BY <1>1, <1>3, <1>4, TakeFacts
  <2>2. /\ SubSeq(stream, n + 1, n + k) \in Seq(Characters)
        /\ Len(SubSeq(stream, n + 1, n + k)) = k
        /\ \A i \in 1 .. k : SubSeq(stream, n + 1, n + k)[i] = stream[n + i]
    BY <1>1, <1>4
  <2>3. \A i \in 1 .. k : Arrived[i] = stream[n + i]
    BY <1>1, <1>3, <1>4
  <2>4. \A i \in 1 .. k : SubSeq(Arrived, 1, k)[i] = SubSeq(stream, n + 1, n + k)[i]
    BY <2>1, <2>2, <2>3, Zenon
  <2> QED BY <2>1, <2>2, <2>4, SameElements
<1>6. buffer' = SubSeq(stream, 1, n + k)
  BY <1>1, <1>2, <1>4, <1>5, TakeMore
<1>7. n + k \in 0 .. sent /\ Len(SubSeq(stream, 1, n + k)) = n + k
  BY <1>1, <1>4, TakeFacts
<1>8. \E m \in 0 .. sent : buffer' = SubSeq(stream, 1, m)
  BY <1>6, <1>7
<1>9. Len(buffer') = n + k /\ n = Len(buffer)
  BY <1>6, <1>7 DEF n
<1>10. /\ Len(buffer') \in Nat /\ Len(buffer') > Len(buffer)
       /\ Len(buffer') <= Len(buffer) + ChunkSize
  BY <1>1, <1>4, <1>9, ConstantFacts
<1> QED BY <1>8, <1>10

(* A probe starts in the invariant. *)
LEMMA ProbeInitInv == Init => ProbeInv
<1> SUFFICES ASSUME Init PROVE ProbeInv OBVIOUS
<1>1. stream \in Seq(Characters) /\ Len(stream) \in Nat
  BY ProbeAssumption DEF Init
<1>2. Typed
  <2>1. {socket_open} \subseteq BOOLEAN
    BY Zenon DEF Init
  <2>2. status \in StatusOf(op)
    BY DEF Init, StatusOf, ConnectResult, SshProbeStatus
  <2> QED BY <1>1, <2>1, <2>2, ConstantFacts DEF Init, Typed, Places
<1>3. BufferInv
  BY <1>1 DEF Init, BufferInv
<1>4. ReadInv /\ SocketReleased
  BY DEF Init, ReadInv, SocketReleased, InHand
<1>5. BufferBounded
  BY ConstantFacts DEF Init, BufferBounded
<1> QED BY <1>2, <1>3, <1>4, <1>5 DEF ProbeInv

(* A step that leaves the buffer, the stream and the socket alone and does *)
(* not move the probe.                                                     *)
LEMMA EnvironmentInv ==
  ASSUME ProbeInv, Deliver \/ PeerCloses \/ Tick \/ Ended \/ UNCHANGED vars
  PROVE  ProbeInv'
<1>1. UNCHANGED <<op, pc, poll_until, deadline, socket_open, stream, buffer, status>>
  BY DEF Deliver, PeerCloses, Tick, Ended, vars
<1>2. sent' \in 0 .. Len(stream) /\ sent' \in Nat /\ sent <= sent'
  BY StreamFacts DEF ProbeInv, Typed, Deliver, PeerCloses, Tick, Ended, vars
<1>3. clock' \in 0 .. MaxClock
  BY ConstantFacts DEF ProbeInv, Typed, Deliver, PeerCloses, Tick, Ended, vars
<1>4. peer' \in {"unknown", "open", "closed", "failed"}
  BY DEF ProbeInv, Typed, Deliver, PeerCloses, Tick, Ended, vars
<1>5. Typed'
  BY <1>1, <1>2, <1>3, <1>4 DEF ProbeInv, Typed
<1>6. BufferInv'
  <2>1. Len(buffer) \in 0 .. sent' /\ buffer = SubSeq(stream, 1, Len(buffer))
    BY <1>2, StreamFacts DEF ProbeInv
  <2>2. \E m \in 0 .. sent' : buffer = SubSeq(stream, 1, m)
    BY <2>1
  <2> QED BY <1>1, <2>2 DEF BufferInv
<1>7. ReadInv' /\ SocketReleased' /\ BufferBounded'
  BY <1>1 DEF ProbeInv, ReadInv, SocketReleased, BufferBounded
<1> QED BY <1>5, <1>6, <1>7 DEF ProbeInv

(* A return of tcp_connect() that leaves no socket. *)
LEMMA ConnectFailsInv ==
  ASSUME ProbeInv, pc \in Connecting,
         NEW result \in Failures, ConnectFails(result)
  PROVE  ProbeInv'
<1> USE DEF ProbeInv
<1>1. /\ pc' = "done" /\ ~socket_open' /\ status' = Reported(result)
      /\ UNCHANGED <<op, clock, poll_until, deadline, peer, stream, sent, buffer>>
  BY DEF ConnectFails
<1>2. {socket_open'} \subseteq BOOLEAN
  BY Zenon DEF ConnectFails
<1>3. Typed'
  BY <1>1, <1>2, ReportedFacts DEF Typed, Places
<1>4. BufferInv' /\ ReadInv' /\ SocketReleased' /\ BufferBounded'
  BY <1>1 DEF BufferInv, ReadInv, Connecting, SocketReleased, InHand, BufferBounded
<1> QED BY <1>3, <1>4

(* The socket is created, or made not to block. *)
LEMMA PrepareInv ==
  ASSUME ProbeInv, OpenSocket \/ SetMode
  PROVE  ProbeInv'
<1> USE DEF ProbeInv
<1>1. CASE \E result \in Failures : ConnectFails(result)
  BY <1>1, ConnectFailsInv DEF OpenSocket, SetMode, Connecting
<1>2. CASE ~\E result \in Failures : ConnectFails(result)
  <2>1. /\ pc \in {"connect", "mode"} /\ pc' \in {"mode", "start"}
        /\ socket_open' = TRUE \/ (pc = "mode" /\ socket_open' = socket_open)
        /\ UNCHANGED <<op, clock, poll_until, deadline, peer, stream, sent,
                       buffer, status>>
    BY <1>2, PrepareEnds
  <2>2. {socket_open'} \subseteq BOOLEAN
    BY <2>1, Zenon DEF Typed
  <2>3. Typed'
    BY <2>1, <2>2 DEF Typed, Places, InHand
  <2>4. BufferInv' /\ ReadInv' /\ SocketReleased' /\ BufferBounded'
    BY <2>1 DEF BufferInv, ReadInv, Connecting, SocketReleased, InHand, BufferBounded
  <2> QED BY <2>3, <2>4
<1> QED BY <1>1, <1>2

(* The connection is made, or connect() has to be waited for. *)
LEMMA ConnectedInv ==
  ASSUME ProbeInv, pc \in {"start", "poll_write"}, Connected \/ ConnectPending
  PROVE  ProbeInv'
<1> USE DEF ProbeInv
<1>1. /\ UNCHANGED <<op, clock, stream, sent, buffer>> /\ buffer = <<>>
      /\ peer' \in {"unknown", "open", "closed", "failed"}
  BY DEF Connected, ConnectPending, ReadInv, Connecting, Typed
<1>2. {socket_open'} \subseteq BOOLEAN
  BY Zenon DEF Connected, ConnectPending, Typed
<1>3. poll_until' \in Nat /\ deadline' \in Nat
  <2>1. clock \in Nat /\ banner_timeout * Resolution \in Nat
    BY ConstantFacts DEF Typed
  <2>2. PollUntil(banner_timeout) \in Nat /\ PollUntil(connect_timeout) \in Nat
    BY ConstantFacts, PollFacts
  <2> QED BY <2>1, <2>2 DEF Connected, ConnectPending, Typed
<1>4. status' \in StatusOf(op)
  BY DEF Connected, ConnectPending, Typed, StatusOf, ConnectResult
<1>5. pc' \in Places
  BY DEF Connected, ConnectPending, Places, InHand
<1>6. Typed'
  BY <1>1, <1>2, <1>3, <1>4, <1>5 DEF Typed
<1>7. SocketReleased'
  BY DEF Connected, ConnectPending, SocketReleased, InHand
<1>8. ReadInv'
  <2>1. pc' = "poll_read" => op = "probe_ssh"
    BY DEF Connected, ConnectPending, Typed
  <2>2. Len(<<>>) = 0 /\ Range(<<>>) = {}
    BY DEF Range
  <2>3. buffer' = <<>> /\ Len(buffer') < kMaxBannerBytes /\ Range(buffer') = {}
    BY <1>1, <2>2, ConstantFacts
  <2> QED BY <1>1, <2>1, <2>3 DEF ReadInv
<1>9. BufferInv' /\ BufferBounded'
  BY <1>1 DEF BufferInv, BufferBounded
<1> QED BY <1>6, <1>7, <1>8, <1>9

(* The steps of read_ssh_banner(). *)
LEMMA ReadStepInv ==
  ASSUME ProbeInv, ReadChunk \/ ReadEnds \/ ReadBreaks \/ ReadThrows
  PROVE  ProbeInv'
<1> USE DEF ProbeInv
<1>1. /\ UNCHANGED <<op, clock, deadline, stream, sent>> /\ op = "probe_ssh"
      /\ peer' \in {"unknown", "open", "closed", "failed"}
      /\ pc = "poll_read" /\ pc' \in {"poll_read", "done", "threw"}
      /\ Len(buffer) < kMaxBannerBytes
  BY DEF ReadChunk, ReadEnds, ReadBreaks, ReadThrows, Finish, ReadInv, Typed
<1>2. socket_open /\ {socket_open'} \subseteq BOOLEAN
  <2>1. socket_open
    BY <1>1 DEF SocketReleased, InHand
  <2> QED BY <2>1, Zenon DEF ReadChunk, ReadEnds, ReadBreaks, ReadThrows, Finish, Typed
<1>3. poll_until' \in Nat
  <2>1. remaining \in Int
    BY ConstantFacts DEF remaining, Typed
  <2>2. PollUntil(remaining) \in Nat
    BY <2>1, PollFacts
  <2> QED BY <2>2 DEF ReadChunk, ReadEnds, ReadBreaks, ReadThrows, Typed
<1>4. status' \in StatusOf(op)
  <2>1. status' = status \/ \E raw : status' = Verdict(raw)
    BY DEF ReadChunk, ReadEnds, ReadBreaks, ReadThrows, Finish
  <2> QED BY <1>1, <2>1, VerdictFacts DEF Typed, StatusOf
<1>5. Typed'
  BY <1>1, <1>2, <1>3, <1>4 DEF Typed, Places, InHand
<1>6. SocketReleased'
  <2>1. pc' = "done" => ~socket_open'
    BY <1>1 DEF ReadChunk, ReadEnds, ReadBreaks, ReadThrows, Finish
  <2>2. pc' \in {"poll_read", "threw"} => socket_open'
    BY <1>1, <1>2 DEF ReadChunk, ReadEnds, ReadBreaks, ReadThrows, Finish
  <2> QED BY <1>1, <2>1, <2>2 DEF SocketReleased, InHand
<1>7. CASE ReadChunk
  <2>1. BufferInv' /\ Len(buffer') \in Nat /\ Len(buffer') <= Len(buffer) + ChunkSize
    BY <1>1, <1>7, ChunkFacts DEF BufferInv
  <2>2. BufferBounded'
    BY <1>1, <2>1, StreamFacts, ConstantFacts DEF BufferBounded
  <2>3. pc' = "poll_read" => ~LoopEnds(buffer')
    BY <1>7 DEF ReadChunk, Finish
  <2>4. pc' = "poll_read" => Len(buffer') < kMaxBannerBytes /\ NewLine \notin Range(buffer')
    BY <2>1, <2>3, ConstantFacts DEF LoopEnds
  <2>5. ReadInv'
    BY <1>1, <2>4 DEF ReadInv, Connecting
  <2> QED BY <1>5, <1>6, <2>1, <2>2, <2>5
<1>8. CASE ~ReadChunk
  <2>1. buffer' = buffer
    BY <1>8 DEF ReadEnds, ReadBreaks, ReadThrows
  <2>2. BufferInv' /\ ReadInv' /\ BufferBounded'
    BY <1>1, <2>1 DEF BufferInv, ReadInv, Connecting, BufferBounded
  <2> QED BY <1>5, <1>6, <2>2
<1> QED BY <1>7, <1>8

(* Every step of a probe and of its peer preserves the invariant. *)
LEMMA ProbeNextInv == ProbeInv /\ [Next]_vars => ProbeInv'
<1> SUFFICES ASSUME ProbeInv, [Next]_vars PROVE ProbeInv' OBVIOUS
<1>1. CASE ConnectAtOnce \/ ConnectTimesOut \/ ConnectAnswered \/ ConnectBreaks
  BY <1>1, ConnectEnds, ConnectFailsInv, ConnectedInv DEF Connecting
<1>2. CASE ConnectPending
  BY <1>2, ConnectedInv DEF ConnectPending
<1>3. CASE ReadChunk \/ ReadEnds \/ ReadBreaks \/ ReadThrows
  BY <1>3, ReadStepInv
<1>4. CASE Deliver \/ PeerCloses \/ Tick \/ Ended \/ UNCHANGED vars
  BY <1>4, EnvironmentInv
<1>5. CASE OpenSocket \/ SetMode
  BY <1>5, PrepareInv
<1> QED BY <1>1, <1>2, <1>3, <1>4, <1>5 DEF Next, ProbeStep

(* The invariant of a probe holds in every reachable state. *)
THEOREM ProbeInvariance == Spec => []ProbeInv
BY ProbeInitInv, ProbeNextInv, PTL DEF Spec

(* Every reachable state of SshProbe has the declared types, and the       *)
(* buffer is a beginning of what has arrived.                              *)
THEOREM TypeCorrect == Spec => []TypeOK
<1>1. ASSUME ProbeInv PROVE TypeOK
  <2> USE <1>1 DEF ProbeInv
  <2>1. socket_open \in BOOLEAN
    BY Zenon DEF Typed
  <2>2. IsPrefix(buffer, SubSeq(stream, 1, sent))
    <3>1. /\ stream \in Seq(Characters) /\ sent \in 0 .. Len(stream)
          /\ buffer \in Seq(Characters) /\ Len(buffer) \in Nat /\ Len(buffer) <= sent
          /\ sent \in Nat /\ \A i \in 1 .. Len(buffer) : buffer[i] = stream[i]
      BY StreamFacts DEF Typed
    <3>2. /\ SubSeq(stream, 1, sent) \in Seq(Characters)
          /\ Len(SubSeq(stream, 1, sent)) = sent
          /\ \A i \in 1 .. sent : SubSeq(stream, 1, sent)[i] = stream[i]
      BY <3>1, TakeFacts
    <3>3. \A i \in 1 .. Len(buffer) : buffer[i] = SubSeq(stream, 1, sent)[i]
      BY <3>1, <3>2
    <3>4. Len(buffer) <= Len(SubSeq(stream, 1, sent))
      BY <3>1, <3>2
    <3> QED BY <3>1, <3>2, <3>3, <3>4, PrefixFacts, Zenon
  <2> QED BY <2>1, <2>2 DEF Typed, TypeOK, StatusOf
<1> QED BY <1>1, ProbeInvariance, PTL

(* Every return of tcp_connect(), tcp_probe() and probe_ssh() has closed   *)
(* the socket, whichever of their calls fails and whatever the peer does.  *)
(* An exception in read_ssh_banner() is no return: it leaves it open.      *)
THEOREM SocketsReleased == Spec => []SocketReleased
<1>1. ProbeInv => SocketReleased
  BY DEF ProbeInv
<1> QED BY <1>1, ProbeInvariance, PTL

(* A peer that never ends its line cannot make the buffer grow past its    *)
(* limit by more than one chunk.                                           *)
THEOREM BufferStaysBounded == Spec => []BufferBounded
<1>1. ProbeInv => BufferBounded
  BY DEF ProbeInv
<1> QED BY <1>1, ProbeInvariance, PTL

-----------------------------------------------------------------------------
(* Time                                                                    *)

(* A duration cut to whole milliseconds is short by less than one. *)
LEMMA RoundedDown ==
  ASSUME NEW a \in Nat, NEW r \in Nat, r > 0
  PROVE  /\ a \div r \in Nat
         /\ (a \div r) * r <= a
         /\ a < (a \div r) * r + r
OBVIOUS

(* The remaining time fits an INT when the whole timeout does. *)
LEMMA RemainingFacts ==
  ASSUME Typed, TimeoutsFit, clock <= deadline,
         deadline - clock <= banner_timeout * Resolution
  PROVE  /\ PollUntil(remaining) >= clock /\ PollUntil(remaining) <= deadline
         /\ deadline < PollUntil(remaining) + Resolution
         /\ PollUntil(remaining) \in Nat
<1> DEFINE a == deadline - clock
<1>1. a \in Nat /\ Resolution \in Nat /\ Resolution > 0 /\ clock \in Nat
      /\ a <= banner_timeout * Resolution
  BY ConstantFacts DEF Typed
<1> HIDE DEF a
<1>2. /\ a \div Resolution \in Nat /\ (a \div Resolution) * Resolution <= a
      /\ a < (a \div Resolution) * Resolution + Resolution
  BY <1>1, RoundedDown
<1>3. a \div Resolution <= banner_timeout
  <2>1. (a \div Resolution) * Resolution <= banner_timeout * Resolution
    BY <1>1, <1>2, ConstantFacts
  <2>2. \A x, y, r \in Nat : r > 0 /\ x * r <= y * r => x <= y
    OBVIOUS
  <2> QED BY <1>2, <2>1, <2>2, ConstantFacts
<1>4. remaining \in 0 .. IntMax /\ remaining = a \div Resolution
  BY <1>2, <1>3, ConstantFacts DEF remaining, a, TimeoutsFit
<1>5. PollUntil(remaining) = clock + remaining * Resolution
  BY <1>4, PollFits
<1>6. (a \div Resolution) * Resolution \in Nat
  BY <1>1, <1>2
<1>7. deadline = clock + a /\ deadline \in Nat
  BY <1>1 DEF a, Typed
<1> QED BY <1>1, <1>2, <1>4, <1>5, <1>6, <1>7

(* A probe starts before all its timeouts. *)
LEMMA TimeInitInv == Init => TimeInv
<1>1. connect_timeout * Resolution \in Nat
  BY ConstantFacts
<1> QED BY <1>1 DEF Init, TimeInv, WaitInv, NeverBlocksLonger, JudgedInv

(* The waits of tcp_connect(). *)
LEMMA ConnectTimeInv ==
  ASSUME ProbeInv, TimeInv, TimeoutsFit, pc \in Connecting,
         Connected \/ ConnectPending \/ \E result \in Failures : ConnectFails(result)
  PROVE  TimeInv'
<1> USE DEF ProbeInv, TimeInv
<1>1. /\ deadline = 0 /\ clock' = clock /\ clock \in Nat
      /\ connect_timeout * Resolution \in Nat /\ clock <= connect_timeout * Resolution
      /\ banner_timeout * Resolution \in Nat /\ banner_timeout * Resolution > 0
      /\ Resolution \in Nat /\ Resolution > 0
  BY ConstantFacts
     DEF WaitInv, NeverBlocksLonger, Connecting, Connected, ConnectPending,
         ConnectFails, Typed
<1>2. PollUntil(banner_timeout) = clock + banner_timeout * Resolution
  BY ConstantFacts, PollFits DEF TimeoutsFit
<1>3. CASE ConnectPending
  <2>1. clock = 0 => PollUntil(connect_timeout) = connect_timeout * Resolution
    BY ConstantFacts, PollFits, <1>1 DEF TimeoutsFit
  <2>2. clock = 0 /\ poll_until' = PollUntil(connect_timeout)
    BY <1>3 DEF ConnectPending, WaitInv
  <2> QED BY <1>1, <1>3, <2>1, <2>2 DEF ConnectPending, WaitInv, NeverBlocksLonger, JudgedInv
<1>4. ASSUME NEW result \in Failures, ConnectFails(result) PROVE TimeInv'
  <2>1. pc' = "done" /\ deadline' = 0 /\ clock' = clock
    BY <1>1, <1>4 DEF ConnectFails
  <2> QED BY <1>1, <2>1 DEF WaitInv, NeverBlocksLonger, JudgedInv
<1>5. CASE Connected
  <2>1. CASE op = "tcp_probe"
    <3>1. pc' = "done" /\ deadline' = 0 /\ clock' = clock
      BY <1>1, <1>5, <2>1 DEF Connected
    <3> QED BY <1>1, <3>1 DEF WaitInv, NeverBlocksLonger, JudgedInv
  <2>2. CASE op # "tcp_probe"
    <3>1. /\ pc' = "poll_read" /\ deadline' = clock + banner_timeout * Resolution
          /\ poll_until' = clock + banner_timeout * Resolution
      BY <1>2, <1>5, <2>2 DEF Connected
    <3> QED BY <1>1, <3>1 DEF WaitInv, NeverBlocksLonger, JudgedInv
  <2> QED BY <2>1, <2>2
<1> QED BY <1>3, <1>4, <1>5

(* No time is spent before connect() is called. *)
LEMMA PrepareTimeInv ==
  ASSUME ProbeInv, TimeInv, TimeoutsFit, OpenSocket \/ SetMode
  PROVE  TimeInv'
<1>1. CASE \E result \in Failures : ConnectFails(result)
  BY <1>1, ConnectTimeInv DEF OpenSocket, SetMode, Connecting
<1>2. CASE ~\E result \in Failures : ConnectFails(result)
  <2>1. /\ pc \in {"connect", "mode"} /\ pc' \in {"mode", "start"}
        /\ UNCHANGED <<clock, deadline>>
    BY <1>2, PrepareEnds
  <2> QED BY <2>1 DEF TimeInv, WaitInv, NeverBlocksLonger, JudgedInv
<1> QED BY <1>1, <1>2

(* The waits of read_ssh_banner(), and why it stops. *)
LEMMA ReadTimeInv ==
  ASSUME ProbeInv, TimeInv, TimeoutsFit,
         ReadChunk \/ ReadEnds \/ ReadBreaks \/ ReadThrows
  PROVE  TimeInv'
<1> USE DEF ProbeInv, TimeInv
<1>1. /\ pc = "poll_read" /\ UNCHANGED <<clock, deadline>>
      /\ clock \in Nat /\ deadline \in Nat /\ deadline > 0 /\ clock <= deadline
      /\ poll_until \in Nat /\ clock <= poll_until /\ deadline < poll_until + Resolution
      /\ deadline <= clock + banner_timeout * Resolution
      /\ Resolution \in Nat /\ Resolution > 0
  BY ConstantFacts
     DEF WaitInv, NeverBlocksLonger, Typed, ReadChunk, ReadEnds, ReadBreaks, ReadThrows
<1>2. NeverBlocksLonger'
  BY <1>1 DEF NeverBlocksLonger
<1>3. CASE ReadChunk
  <2>1. CASE LoopEnds(buffer')
    <3>1. pc' = "done" /\ status' = Verdict(buffer')
      BY <1>3, <2>1 DEF ReadChunk, Finish
    <3>2. NewLine \in Range(buffer') \/ Len(buffer') >= kMaxBannerBytes \/ CutOff'
      BY <1>1, <2>1 DEF LoopEnds, CutOff
    <3> QED BY <1>2, <3>1, <3>2 DEF WaitInv, JudgedInv
  <2>2. CASE ~LoopEnds(buffer')
    <3>1. pc' = "poll_read" /\ poll_until' = PollUntil(remaining)
      BY <1>1, <1>3, <2>2 DEF ReadChunk
    <3>2. deadline - clock <= banner_timeout * Resolution
      <4>1. banner_timeout * Resolution \in Nat
        BY ConstantFacts
      <4> QED BY <1>1, <4>1
    <3>3. /\ PollUntil(remaining) >= clock /\ PollUntil(remaining) <= deadline
          /\ deadline < PollUntil(remaining) + Resolution
          /\ PollUntil(remaining) \in Nat
      BY <1>1, <3>2, RemainingFacts
    <3>4. WaitInv'
      BY <1>1, <3>1, <3>3 DEF WaitInv
    <3> QED BY <1>2, <3>1, <3>4 DEF JudgedInv
  <2> QED BY <2>1, <2>2
<1>4. CASE ReadEnds \/ ReadBreaks
  <2>1. pc' = "done" /\ status' = Verdict(buffer) /\ buffer' = buffer
    BY <1>4 DEF ReadEnds, ReadBreaks, Finish
  <2>2. CutOff'
    <3>1. CASE ReadEnds
      BY <1>1, <3>1 DEF ReadEnds, CutOff
    <3>2. CASE ReadBreaks
      BY <3>2 DEF ReadBreaks, CutOff
    <3> QED BY <1>4, <3>1, <3>2
  <2> QED BY <1>2, <2>1, <2>2 DEF WaitInv, JudgedInv
<1>5. CASE ReadThrows
  BY <1>2, <1>5 DEF ReadThrows, WaitInv, JudgedInv
<1> QED BY <1>3, <1>4, <1>5

(* The clock stops where a poll returns. *)
LEMMA EnvironmentTimeInv ==
  ASSUME ProbeInv, TimeInv, Deliver \/ PeerCloses \/ Tick \/ Ended \/ UNCHANGED vars
  PROVE  TimeInv'
<1> USE DEF ProbeInv, TimeInv
<1>1. CASE Tick
  <2>1. /\ UNCHANGED <<pc, poll_until, deadline, buffer, status, peer>>
        /\ clock \in Nat /\ clock' = clock + 1 /\ clock < poll_until
        /\ pc \in {"poll_write", "poll_read"}
        /\ poll_until \in Nat /\ deadline \in Nat
    BY <1>1 DEF Tick, Typed
  <2>2. connect_timeout * Resolution \in Nat /\ banner_timeout * Resolution \in Nat
    BY ConstantFacts
  <2>3. WaitInv'
    BY <2>1, <2>2 DEF WaitInv
  <2> QED BY <2>1, <2>2, <2>3 DEF WaitInv, NeverBlocksLonger, JudgedInv
<1>2. CASE Deliver \/ PeerCloses
  <2>1. pc = "poll_read" /\ UNCHANGED <<pc, clock, poll_until, deadline, buffer, status>>
    BY <1>2 DEF Deliver, PeerCloses
  <2> QED BY <2>1 DEF WaitInv, NeverBlocksLonger, JudgedInv
<1>3. CASE Ended \/ UNCHANGED vars
  <2>1. UNCHANGED <<pc, clock, poll_until, deadline, buffer, status, peer>>
    BY <1>3 DEF Ended, vars
  <2> QED BY <2>1 DEF WaitInv, NeverBlocksLonger, JudgedInv, CutOff
<1> QED BY <1>1, <1>2, <1>3

(* Every step keeps a probe within its timeouts. *)
LEMMA TimeNextInv ==
  ASSUME ProbeInv, TimeInv, TimeoutsFit, [Next]_vars
  PROVE  TimeInv'
<1>1. CASE ConnectAtOnce \/ ConnectTimesOut \/ ConnectAnswered \/ ConnectBreaks
  BY <1>1, ConnectEnds, ConnectTimeInv DEF Connecting
<1>2. CASE ConnectPending
  BY <1>2, ConnectTimeInv DEF ConnectPending, Connecting
<1>3. CASE ReadChunk \/ ReadEnds \/ ReadBreaks \/ ReadThrows
  BY <1>3, ReadTimeInv
<1>4. CASE Deliver \/ PeerCloses \/ Tick \/ Ended \/ UNCHANGED vars
  BY <1>4, EnvironmentTimeInv
<1>5. CASE OpenSocket \/ SetMode
  BY <1>5, PrepareTimeInv
<1> QED BY <1>1, <1>2, <1>3, <1>4, <1>5 DEF Next, ProbeStep

(* With timeouts that fit an INT, the bounds on the waits and the reasons  *)
(* to stop hold in every reachable state.                                  *)
THEOREM TimeInvariance == TimeoutsFit => (Spec => []TimeInv)
<1> SUFFICES ASSUME TimeoutsFit PROVE Spec => []TimeInv OBVIOUS
<1>1. ProbeInv /\ TimeInv /\ [Next]_vars => TimeInv'
  BY TimeNextInv
<1> QED BY <1>1, TimeInitInv, ProbeInvariance, PTL DEF Spec

(* "the call never blocks longer than `timeout`": tcp_connect() and        *)
(* read_ssh_banner() keep to their timeouts, however the peer's bytes are  *)
(* cut into fragments.  A timeout that does not fit the INT of WSAPoll()   *)
(* is excluded: it may wrap to one that never ends.                        *)
THEOREM NeverBlocks == TimeoutsFit => (Spec => []NeverBlocksLonger)
<1> SUFFICES ASSUME TimeoutsFit PROVE Spec => []NeverBlocksLonger OBVIOUS
<1>1. TimeInv => NeverBlocksLonger
  BY DEF TimeInv
<1> QED BY <1>1, TimeInvariance, PTL

-----------------------------------------------------------------------------
(* The verdict                                                             *)

(* "SSH-", element by element. *)
LEMMA IdentificationFacts ==
  /\ Identification \in Seq(Range(Identification))
  /\ Len(Identification) \in Nat /\ Len(Identification) > 0
  /\ Len(Identification) <= kMaxBannerBytes
  /\ \A i \in 1 .. Len(Identification) :
       Identification[i] \notin LineBreak \cup Control \cup {Blank, Unprinted}
<1>1. /\ Identification \in Seq(Range(Identification)) /\ Len(Identification) \in Nat
      /\ Len(Identification) > 0 /\ DOMAIN Identification = 1 .. Len(Identification)
  BY IdentificationAssumption
<1>2. \A i \in DOMAIN Identification : Identification[i] \in Range(Identification)
  BY DEF Range
<1> QED BY <1>1, <1>2, IdentificationAssumption

(* A text that starts with "SSH-". *)
LEMMA IdentificationPrefix ==
  ASSUME NEW T, NEW t \in Seq(T)
  PROVE  IsPrefix(Identification, t)
           <=> /\ Len(Identification) <= Len(t)
               /\ \A i \in 1 .. Len(Identification) : Identification[i] = t[i]
BY IdentificationFacts, PrefixFacts

(* sanitize_banner() neither hides nor forges an identification: it cuts   *)
(* and replaces only characters that are not part of one, and what it puts *)
(* in their place is not either.                                           *)
LEMMA SanitizeKeepsIdentification ==
  ASSUME NEW raw \in Seq(Characters)
  PROVE  is_ssh_identification(sanitize_banner(raw)) <=> IsPrefix(Identification, raw)
<1> DEFINE L == Len(Identification)
           Id == Identification
           breaks == {i \in DOMAIN raw : raw[i] \in LineBreak} \cup {Len(raw) + 1}
           k == Min(breaks)
           line == SubSeq(raw, 1, k - 1)
           text == [i \in DOMAIN line |-> IF line[i] \in Control THEN Unprinted ELSE line[i]]
           inked == {i \in DOMAIN text : text[i] # Blank} \cup {0}
           m == Max(inked)
           S == Characters \cup {Unprinted}
<1>1. sanitize_banner(raw) = SubSeq(text, 1, m)
  BY DEF sanitize_banner
<1>2. Len(raw) \in Nat /\ DOMAIN raw = 1 .. Len(raw)
  OBVIOUS
<1>3. k \in breaks /\ \A y \in breaks : k <= y
  <2>1. breaks \subseteq Nat /\ breaks # {}
    BY <1>2
  <2> HIDE DEF breaks
  <2> QED BY <2>1, MinFacts
<1>4. k \in Nat /\ k >= 1 /\ k <= Len(raw) + 1
  BY <1>2, <1>3
<1>5. \A n \in 1 .. Len(raw) : (\A i \in 1 .. n : raw[i] \notin LineBreak) => k > n
  BY <1>2, <1>3, <1>4
<1> HIDE DEF k
<1>6. /\ line \in Seq(Characters) /\ Len(line) = k - 1 /\ DOMAIN line = 1 .. k - 1
      /\ \A i \in 1 .. k - 1 : line[i] = raw[i]
  <2>1. k - 1 \in 0 .. Len(raw)
    BY <1>2, <1>4
  <2>2. /\ SubSeq(raw, 1, k - 1) \in Seq(Characters) /\ Len(SubSeq(raw, 1, k - 1)) = k - 1
        /\ \A i \in 1 .. k - 1 : SubSeq(raw, 1, k - 1)[i] = raw[i]
    BY <2>1, TakeFacts
  <2> QED BY <1>4, <2>2
<1> HIDE DEF line
<1>7. /\ text \in Seq(S) /\ Len(text) = k - 1 /\ DOMAIN text = 1 .. k - 1
      /\ \A i \in 1 .. k - 1 : text[i] = IF raw[i] \in Control THEN Unprinted ELSE raw[i]
  <2>1. \A i \in 1 .. k - 1 : text[i] = (IF raw[i] \in Control THEN Unprinted ELSE raw[i])
                              /\ text[i] \in S
    BY <1>4, <1>6
  <2>2. DOMAIN text = 1 .. k - 1 /\ k - 1 \in Nat
    BY <1>4, <1>6
  <2>3. text = [i \in 1 .. k - 1 |-> text[i]]
    BY <2>2
  <2> HIDE DEF text, S
  <2>4. text \in [1 .. k - 1 -> S]
    BY <2>1, <2>3
  <2>5. text \in Seq(S) /\ Len(text) = k - 1
    BY <2>2, <2>4
  <2> QED BY <2>1, <2>2, <2>5
<1> HIDE DEF text, S
<1>8. m \in inked /\ \A y \in inked : m >= y
  <2>1. inked \subseteq 0 .. k - 1 /\ inked # {} /\ k - 1 \in Nat
    BY <1>4, <1>7
  <2> HIDE DEF inked
  <2> QED BY <2>1, MaxFacts
<1>9. m \in Nat /\ m <= k - 1 /\ \A i \in 1 .. k - 1 : text[i] # Blank => m >= i
  BY <1>4, <1>7, <1>8, SMTT(20)
<1> HIDE DEF m
<1>10. /\ SubSeq(text, 1, m) \in Seq(S) /\ Len(SubSeq(text, 1, m)) = m
       /\ \A i \in 1 .. m : SubSeq(text, 1, m)[i] = text[i]
  <2>1. m \in 0 .. Len(text)
    BY <1>7, <1>9, <1>4
  <2> QED BY <1>7, <2>1, TakeFacts
<1>11. is_ssh_identification(sanitize_banner(raw))
         <=> L <= m /\ \A i \in 1 .. L : Id[i] = text[i]
  <2> DEFINE clean == SubSeq(text, 1, m)
  <2>1. is_ssh_identification(sanitize_banner(raw)) <=> IsPrefix(Identification, clean)
    BY <1>1, Zenon DEF is_ssh_identification
  <2>2. clean \in Seq(S) /\ Len(clean) = m /\ \A i \in 1 .. m : clean[i] = text[i]
    BY <1>10
  <2> HIDE DEF clean
  <2>3. IsPrefix(Identification, clean)
          <=> L <= Len(clean) /\ \A i \in 1 .. L : Identification[i] = clean[i]
    BY <2>2, IdentificationPrefix
  <2>4. (L <= Len(clean) /\ \A i \in 1 .. L : Identification[i] = clean[i])
          <=> L <= m /\ \A i \in 1 .. L : Id[i] = text[i]
    BY <1>9, <2>2, IdentificationFacts, SMTT(20)
  <2> QED BY <2>1, <2>3, <2>4, Zenon
<1>12. IsPrefix(Id, raw) <=> L <= Len(raw) /\ \A i \in 1 .. L : Id[i] = raw[i]
  BY IdentificationFacts, PrefixFacts
<1>13. ASSUME L <= m, \A i \in 1 .. L : Id[i] = text[i]
       PROVE  L <= Len(raw) /\ \A i \in 1 .. L : Id[i] = raw[i]
  BY <1>2, <1>4, <1>7, <1>9, <1>13, IdentificationFacts
<1>14. ASSUME L <= Len(raw), \A i \in 1 .. L : Id[i] = raw[i]
       PROVE  L <= m /\ \A i \in 1 .. L : Id[i] = text[i]
  <2>1. \A i \in 1 .. L : raw[i] \notin LineBreak /\ raw[i] \notin Control /\ raw[i] # Blank
    BY <1>14, IdentificationFacts
  <2>2. L \in 1 .. Len(raw) /\ L \in Nat
    BY <1>2, <1>14, IdentificationFacts
  <2>3. k > L
    BY <1>5, <2>1, <2>2
  <2>4. \A i \in 1 .. L : text[i] = raw[i] /\ i \in 1 .. k - 1
    BY <1>4, <1>7, <2>1, <2>2, <2>3
  <2>5. L \in 1 .. L
    BY <2>2
  <2>6. m >= L
    BY <1>9, <2>1, <2>4, <2>5
  <2> QED BY <1>9, <1>14, <2>2, <2>4, <2>6
<1> QED BY <1>11, <1>12, <1>13, <1>14

(* How the peer's bytes are cut into fragments does not change the         *)
(* verdict of probe_ssh(): only a stream that starts with the              *)
(* identification is SSH, and one that does is turned down only if the     *)
(* peer broke off or the time was up before enough of it had come.         *)
THEOREM VerdictFollowsStream == TimeoutsFit => (Spec => []VerdictMatchesStream)
<1> SUFFICES ASSUME TimeoutsFit PROVE Spec => []VerdictMatchesStream OBVIOUS
<1>1. ASSUME ProbeInv, TimeInv PROVE VerdictMatchesStream
  <2> DEFINE L == Len(Identification)
             isSsh == IsPrefix(Identification, stream)
  <2>1. SUFFICES ASSUME pc = "done", deadline # 0
                 PROVE  /\ status = "SshDetected" => isSsh
                        /\ status = "NotSsh" /\ isSsh => CutOff /\ Len(buffer) < L
                        /\ status = "NoBanner" => CutOff /\ buffer = <<>>
    BY DEF VerdictMatchesStream, CutOff
  <2>2. /\ status = Verdict(buffer)
        /\ NewLine \in Range(buffer) \/ Len(buffer) >= kMaxBannerBytes \/ CutOff
    BY <1>1, <2>1 DEF TimeInv, JudgedInv
  <2>3. /\ stream \in Seq(Characters) /\ Len(stream) \in Nat
        /\ buffer \in Seq(Characters) /\ Len(buffer) \in Nat /\ Len(buffer) <= Len(stream)
        /\ \A i \in 1 .. Len(buffer) : buffer[i] = stream[i]
    BY <1>1, StreamFacts DEF ProbeInv
  <2>4. isSsh <=> L <= Len(stream) /\ \A i \in 1 .. L : Identification[i] = stream[i]
    BY <2>3, IdentificationFacts, PrefixFacts
  <2>5. IsPrefix(Identification, buffer)
          <=> L <= Len(buffer) /\ \A i \in 1 .. L : Identification[i] = buffer[i]
    BY <2>3, IdentificationFacts, PrefixFacts
  <2>6. is_ssh_identification(sanitize_banner(buffer)) <=> IsPrefix(Identification, buffer)
    BY <2>3, SanitizeKeepsIdentification
  <2> HIDE DEF isSsh
  <2>7. status = "SshDetected" => isSsh
    <3>1. IsPrefix(Identification, buffer) => isSsh
      BY <2>3, <2>4, <2>5, IdentificationFacts
    <3> QED BY <2>2, <2>6, <3>1, VerdictFacts
  <2>8. ASSUME status = "NotSsh", isSsh PROVE CutOff /\ Len(buffer) < L
    <3>1. ~IsPrefix(Identification, buffer)
      BY <2>2, <2>6, <2>8, VerdictFacts
    <3>2. Len(buffer) < L
      BY <2>3, <2>4, <2>5, <2>8, <3>1, IdentificationFacts
    <3>3. NewLine \notin Range(buffer)
      <4>1. NewLine \in LineBreak
        BY Zenon DEF LineBreak
      <4>2. \A i \in 1 .. Len(buffer) : buffer[i] # NewLine
        BY <2>3, <2>4, <2>8, <3>2, <4>1, IdentificationFacts
      <4>3. DOMAIN buffer = 1 .. Len(buffer)
        BY <2>3
      <4> QED BY <4>2, <4>3 DEF Range
    <3>4. ~(Len(buffer) >= kMaxBannerBytes)
      BY <2>3, <3>2, IdentificationFacts, ConstantFacts
    <3> QED BY <2>2, <3>2, <3>3, <3>4
  <2>9. ASSUME status = "NoBanner" PROVE CutOff /\ buffer = <<>>
    <3>1. buffer = <<>>
      BY <2>2, <2>9, VerdictFacts
    <3>2. Len(<<>>) = 0 /\ Range(<<>>) = {}
      BY DEF Range
    <3>3. ~(Len(buffer) >= kMaxBannerBytes) /\ NewLine \notin Range(buffer)
      BY <3>1, <3>2, ConstantFacts
    <3> QED BY <2>2, <3>1, <3>3
  <2> QED BY <2>7, <2>8, <2>9
<1> QED BY <1>1, ProbeInvariance, TimeInvariance, PTL
=============================================================================
