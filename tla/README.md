# Verification of device-discovery

TLA+ models of *device-discovery*, a Windows command line tool that finds the one
device at the other end of a direct Ethernet link: it picks the network adapter,
sweeps the subnet for SSH servers with a thread pool, falls back to listening on
the link, logs in to the device, runs `ifconfig` and reports its addresses. The
models are checked with TLC on small instances. The safety properties of all
components are also proved with TLAPS, for every number of threads, addresses,
adapters, arguments or bytes, every device and every text.

Paths in this file are relative to the repository; file names without a
directory are in this one.

## 1. Inventory

| Component | State | Operations | Hard about it |
| --- | --- | --- | --- |
| thread pool (`src/threading/`) | queue, `stopping_`, workers, futures | constructor, `submit`, `worker_loop`, `shutdown`, destructor | the only concurrency: lost wake-ups, draining, racing shutdowns, threads that cannot start |
| port scanner (`src/scanner/port_scanner.*`) | a non-blocking socket | `tcp_connect`, `tcp_probe` | timeout against late answer, many error paths with a socket in hand |
| SSH detector (`src/scanner/ssh_detector.*`) | socket, buffer, deadline | `probe_ssh`, `read_ssh_banner`, `sanitize_banner` | fragmented, slow, endless or broken input |
| subnet enumeration and sweep (`src/scanner/subnet_sweep.*`) | list of addresses, futures | `enumerate_subnet_hosts`, `sweep_for_ssh` | unsigned arithmetic at the ends of the range; probes that end out of order |
| layer-2 discovery (`src/network/arp_discovery.*`) | observations, raw socket | cache reading, capture, merging | the cache changes meanwhile; a busy or a silent link |
| SSH client (`src/ssh/`) | socket, session, host key status, errors | `connect_and_authenticate`, `execute`, `disconnect` | failure at each of a dozen steps; when the password may leave; partial output |
| interface parser (`src/parser/`) | current interface, list | `parse_ifconfig_output`, `parse_ip_addr_output` | three formats, two parsers, cut output |
| `main.cpp`, `config.hpp` | options, stage, devices, exit code | `main`, `parse_options`, `run`, `run_mock_mode`, `select_interface`, the two stages | order of the steps, early returns, exceptions; values that look like options, numbers at their limits |
| interface discovery (`src/network/interface_discovery.*`) | buffer, list of adapters | enumeration, selection | a retry loop around a system call while the machine changes; masks at both ends |
| formatter (`src/output/`) | none | text and JSON | names and banners with any characters |
| Windows layer (`src/platform/`) | Winsock | `wait_for_socket`, `close_socket`, error texts | a narrowing cast of the timeout |

How they interact: `run()` owns the pool and is its only caller. A stage chooses
addresses (`enumerate_subnet_hosts`, or `discover_link_layer_hosts`), submits one
probe for each, waits for the futures in order, and the pool is shut down before
anything is done with the devices. The subnet is that of the one adapter that
interface discovery left. Then the SSH client works alone, in the main
thread, and its output goes through a parser to the report and the exit code.
Exceptions of probes end in their futures; all others unwind `run()`, and with it
the pool or the client, into the `catch` of `main()`.

`PROJECT.json` lists what can go wrong at which line (`hazards`), with the
properties that cover it.

## 2. Modules

| Module | Models | Composes |
| --- | --- | --- |
| `ThreadPool` | the thread pool | |
| `PoolContract` | what its users may rely on: accept, refuse, complete, close, drain, each one atomic step | implemented by `ThreadPool` |
| `SshProbe` | one probe, TCP connect to verdict, with a clock | |
| `SubnetHosts` | the enumeration of a subnet | |
| `InterfaceDiscovery` | the adapters, the choice of one, and its hosts | extends `SubnetHosts` |
| `SubnetSweep` | the two stages on the thread pool | extends `ThreadPool` |
| `DiscoveryStages` | the stages without threads | implemented by `SubnetSweep` |
| `Layer2` | layer-2 discovery, with a clock | |
| `SshClient` | the SSH client | |
| `IfconfigParser` | the parsers and the output they read, as operators | |
| `Formatter` | the report as text and JSON, and readers of both, as operators | |
| `InterfaceReport` | the parsers line by line, to the report and the exit code | extends `IfconfigParser`, `Formatter` |
| `CommandLine` | the options and their parser, and the usage text as a reference, as operators | |
| `DeviceDiscovery` | `main()` and `run()` | `CommandLine`, `DiscoveryStages`, `SshClient`, `IfconfigParser` |
| `DataFacts` | lemmas on least numbers, minima, sequences and `FlattenSeq` | |
| `SubnetSweepProofs` | theorems about `ThreadPool` and `SubnetSweep` | |
| `SshProbeProofs`, `Layer2Proofs`, `SshClientProofs`, `DeviceDiscoveryProofs` | theorems about the module of that name | |
| `InterfaceDiscoveryProofs` | theorems about `InterfaceDiscovery` and `SubnetHosts` | |
| `InterfaceReportProofs` | theorems about `InterfaceReport`, `IfconfigParser` and `Formatter` | |

An `MC` module gives the constants of a module values for TLC; each `.cfg` is one
run. Definitions that begin with the comment `Mutant:` are wrong versions of the
definition after them, named in `PROJECT.json`; no specification uses them. They
show that the property they are listed with can fail.

### How state and actions correspond to the code

**ThreadPool.** The variables are the members `tasks_`, `stopping_` and
`workers_` (`spawned`, `joined`), the place of each worker in `worker_loop()`
with its local `task`, the futures, and the place of each caller. All access to
`tasks_` and `stopping_` is under `mutex_` and a wait gives up the mutex and
blocks in one step, so a critical section is one action. Everything outside the
mutex is an action of its own: `NotifyOne`/`NotifyAll` (both come after the
unlock), `RunTask`, `Join`. `SpawnFails` is a `std::thread` that cannot be
started: with no thread yet the exception leaves the constructor, otherwise the
vector of joinable threads terminates the process. A task is a name; its future
starts as `none` and a task is submitted at most once. Joins are one step, since
`join()` in order gets past the last exactly when all have exited.

**SshProbe.** Variables: the place in `tcp_connect()`/`read_ssh_banner()`, the
clock in fractions of a millisecond, the deadline, when the present `WSAPoll()`
gives up, the socket, the peer's stream and how much of it has arrived, the
buffer, the result. Each call between `socket()` and `connect()` is a step that
may fail with the socket in hand (`InHand`). Computation takes no time; time
passes in polls. The cast to
`INT` in `wait_for_socket()` and the rounding of `duration_cast` are modelled
(`AsInt`, `remaining`). Characters are those the code tells apart.

**SubnetHosts.** The loops of `enumerate_subnet_hosts()`, one turn an action, on
unsigned integers of `Width` bits that wrap.

**InterfaceDiscovery.** The machine is a list of adapters that may change at any
moment; a call of `GetAdaptersAddresses()` copies it, or says how large it is.
`needed` keeps what the attempts asked for. An adapter is a record of the fields
of `IP_ADAPTER_ADDRESSES` that are read; dotted text is four numbers, made and
read back as in the code. The candidates are the positions of adapters in the
list that pass `filter_candidate_interfaces()` and `--interface`.
`select_interface()` and then the loops of `SubnetHosts` follow. Exceptions end
in `main()` with `kNoDevice`; `error` keeps which of the two it was.

**SubnetSweep.** The main thread is the pool's one caller; `Submit`, `Shutdown`,
`NotifyOne`, `NotifyAll` and `Join` of `ThreadPool` are conjoined with what the
main thread does around them. A task is a position in the list of a stage. A
probe is one step here: a verdict or an exception (what it does inside is
`SshProbe`). `StageThrows` is an exception in `run()`, which unwinds through
`~ThreadPool()`.

**Layer2.** `discover_link_layer_hosts()` as first reading, capture, second
reading; the cache is a fresh choice at each reading. One address stands for
each kind that the code treats differently.

**SshClient.** One libssh2 call is one step, and each may fail. `lookup` is what
known_hosts said on this connection, kept apart from `host_key_status`, which
the code carries on the object. A command's device side (`remote`) is chosen
when it starts. Each read takes some time below the timeout, or hits it. A string
that cannot be built or appended to throws out of the call (`Throws`) and leaves
what was taken to the destructor, which is `Disconnect`. A refused
`userauth` may have sent the password or may have failed before.

**IfconfigParser, InterfaceReport.** A line is a sequence of classified words;
classification stands for the tokenising, the cutting at `@`, `:` and `/`, and
`inet_pton`. `NetTools`, `BusyBox` and `IpAddr` say what a device prints,
after `samples/` and the tests, and `Has` what the report should be. When the
lines are used up, `Report` fills the `DiscoveryReport`, formats it and ends
with the exit code.

**Formatter.** A text is a sequence of characters; those `json_escape()` tells
apart are themselves, fixed text is one symbol. `JsonTokens` is a small reader
of JSON, an automaton that takes one character at a time; `JsonSays` and
`TextSays` are what a report has to say to a reader. The text report is a list of
lines, so a line feed inside a name, which `format_text()` prints as it is, is
not seen to break its line there.

**CommandLine.** The struct `Options` is a function from options to values, with
the defaults of `config.hpp`; `Turn` is one turn of the loop of
`parse_options()`. Texts are opaque, and a constant says which of them
`strtoll()` reads as numbers. `Faithful` compares the parser with a definition
that knows no order of reading: which arguments are options, what is legal, and
that the last word on an option counts.

**DeviceDiscovery.** One action for each turn of the option parser, and for each
way on or out of `run()`. The stages are an instance of `DiscoveryStages`, which
the sweep is shown to implement; the client is an instance of `SshClient` whose
policy is what `--strict-host-key` makes it. Every way out of the scope of the
client runs its destructor (`Destroyed`), and an exception of the client
(`ClientThrew`) or of anything else after the discovery (`RunThrows`) then reaches
the `catch` of `main()`. The environment is a constant. Of the candidates only
the names are left here.

## 3. Runs

Passing runs:

| Run | Instance | Checks |
| --- | --- | --- |
| `pool` | 3 workers, 2 callers, 3 tasks | no task lost or doubled, drain before exit, no lost wake-up, refinement of `PoolContract`; accepted tasks complete, shutdown returns |
| `probe` | timeouts of 2 and 3 ms in half milliseconds, buffer limit 4, chunks of 3, eight streams | deadlines, socket, verdict, buffer; the probe ends |
| `interface` | addresses of 8 bits (four numbers of two), cap /4; a link with every prefix length, and two machines that change among nine lists of adapters | the choice is that of one moment and by the rules, giving up after four retries and not before, only the link is swept, every host once; ends |
| `sweep` | 2 workers, up to 3 addresses a stage | result as without threads (`DiscoveryStages`), quiet when over; discovery ends |
| `client` | two commands, up to two lines, any order of calls, exceptions | password gate, leaks; calls return or throw |
| `report` | every device of up to two Ethernet interfaces and loopback, up to two addresses each; three formats, and mock mode; text and JSON | the report is what the device has, and reads back as that |
| `discovery` | two addresses a stage, four outputs, a thousand command lines, of which a dozen go on; exceptions at any point | the options are as written; credentials, what exit codes tell of them, closing; `run()` ends |
| `layer2` | two stations, five caches, nine packets, window of 5 in slices of 2 | observations, window, diagnostics; discovery ends |

Runs that TLC refutes, each a statement of the repository that the code does not
keep (`findings` in `PROJECT.json` quotes it):

| Run | What happens |
| --- | --- |
| `sweep_threads` | a thread that cannot be started, after the first, terminates the process instead of reaching `main()`'s `catch` |
| `client_capture` | output cut by an error or a timeout is reported as ok |
| `client_timed` | a trickling device outlasts `--command-timeout` |
| `report_mock_ip` | mock mode misreads captured `ip -4 addr` output |

Smaller disagreements between the code and its comments, which the models show
as they are and no run asserts:

- a second, concurrent `shutdown()` returns before the pool is drained
  (`ShutdownAgain`);
- an exception after the devices were found, even after authentication, ends with
  5, "no device discovered" (`README.md:295`; `Caught`). With 0 and 9 to 11 the
  password was sent, with 2 to 4, 6 and 7 it was not
  (`ExitCodeTellsCredentials`); 5 does not tell, and 8 does not either, since
  `libssh2_userauth_password()` may fail before it sends anything;
- an exception in `read_ssh_banner()` leaves the socket of a probe open
  (`ReadThrows`);
- a timeout above the largest `INT` becomes a negative one, that is none
  (`AsInt`, outside the instance of `probe`);
- the broadcast address of the subnet is observed as a station (the row
  `directed` of `MCLayer2`), and a refused capture goes unmentioned when the cache
  has an entry (`FinalError`);
- a second address of the PC in the same subnet is probed as if it were the
  device, against "excluding [...] the PC's own address" (`UsableAddresses` keeps
  the first);
- one interface with two addresses passes for two interfaces, and `lo:0` does not
  count as loopback (`ReportCode`, `is_loopback_interface_name`).

### Why the bounds are enough

- *Pool*: a lost wake-up needs a waiting worker, a busy one and a caller between
  unlock and notification; three workers, two callers and three tasks have all of
  these, with the queue non-empty at shutdown while workers are busy or still
  being started. The theorems take away the bound for safety.
- *Probe*: the limit (4) is not a multiple of the chunk (3), so the buffer goes
  past it; streams are longer than limit and chunk; half milliseconds make the
  rounding of `remaining` visible. `MaxClock` (20) is beyond every deadline.
- *Interface*: addresses at both ends and in the middle of the address space with
  every mask, so /0, /31 and /32 in proportion and the PC first, last or in
  between. The adapters grow to five sizes beyond the buffer, so that all four
  attempts can fail, and shrink again.
- *Command line*: up to five arguments that are parsed, so that a value hides an
  option, an option comes twice and a value is missing at the end; numbers on
  both sides of each limit. `LLMax` (5000) stands for 2^63 - 1.
- *Report*: names of different length, banners that end in one and in two
  backslashes, every kind of character that is escaped.
- *Sweep*: three addresses and two workers let a later probe overtake an earlier
  one; both stages, empty lists included.
- *Client*: two lines of output give a read cut in the middle; a second
  connection follows a failed or a closed first one. `MaxElapsed` stops the
  clock of a command at one tick beyond the timeout (four for `client_timed`).
- *Layer 2*: the window is not a multiple of the slice.

### Fairness

A runnable thread runs, a call that was entered goes on, time passes. Weak
fairness of the workers' and callers' steps (`ThreadPool`), of the probe's steps
without its failures (`SshProbe`), of the steps inside a call (`SshClient`), of
the program in `InterfaceDiscovery` and of `run()` (`DeviceDiscovery`) says this
and no more. The peer and the machine owe nothing: no byte, packet, answer or
change of an adapter is ever fair. Exceptions of the client and of `run()` are
separate from the fair steps: they may happen and need not. That a task of the pool ends is assumed in
`ThreadPool` and `SubnetSweep`, and shown in `SshProbe` (`ProbeEnds`); that a
call of libssh2 returns is its timeout; that the output of a command is finite
is assumed in `CallsReturn`, and `client_timed` shows why it has to be. That the
stages and the client's calls end, assumed by `RunEnds`, is `DiscoveryEnds` and
`CallsReturn`. Spurious wake-ups are never needed.

## 4. Proofs

Every invariant of the passing runs and every action property and refinement is a
theorem, for all values of the constants. `theorems` in `PROJECT.json` lists them
with the property each states. The assumptions on constants are named where the
constants are declared, and TLC evaluates them on each instance.

| Module | Theorems | From |
| --- | --- | --- |
| `SubnetSweepProofs` (pool) | `TypeCorrect`, `NoTaskLost`, `ExitsDrained`, `WakeupsReachWorkers`, `JoinDrains`, `PoolImplementsContract` | `PoolAssumption`: `worker_count` is a natural number and `NoTask` no task |
| `SubnetSweepProofs` (stages) | `SweepTypeCorrect`, `QuietAtEnd`, `SweepImplementsStages` | also `SweepAssumption`: one caller, a task for each position of a stage, lists of at most `MaxHosts` addresses |
| `SshProbeProofs` | `TypeCorrect`, `SocketsReleased`, `BufferStaysBounded`, `NeverBlocks`, `VerdictFollowsStream` | `ProbeAssumption`: positive timeouts and sizes, streams of characters; `IdentificationAssumption`: `SSH-` is printable, without blanks, and fits the buffer |
| `InterfaceDiscoveryProofs` | `EnumerationIsComplete`, `RetriesUntilGrown`, `LinkHostsComplete`, `NothingButTheLink`, `SelectionIsDocumented` | `WidthAssumption`: at least two bits, a cap within the width; `MachineAssumption`: four equal parts of an address, well-formed adapters whose GUID contains no marker |
| `Layer2Proofs` | `TypeCorrect`, `StationsObservedOnce`, `WindowKept`, `RefusalIsReported`, `CacheResolvesStations`, `ObservationsGrow` | `WindowAssumption`: window and slice are positive; `LinkAssumption`: rows and packets have addresses |
| `SshClientProofs` | `TypeCorrect`, `NoLeak`, `OutputIsBeginning`, `PasswordIsGated` | `ClientAssumption`: outputs are lists of lines, the timeout is a number |
| `DeviceDiscoveryProofs` | `ParserIsFaithful`, `NothingOpenAtExit`, `ExitCodeIsTelling`, `CredentialsGoToTheDevice` | `NumeralsAssumption`: what `strtoll()` reads are integers, and 1024 is below its maximum; `RunAssumption`: lists of addresses and arguments |
| `InterfaceReportProofs` | `ReportIsTheDevice`, `CutOutputHarmless`, `JsonReadsBack`, `TextReadsBack`, `ReportReads` | `DeviceAssumption`: an interface has a name of its own, an address once, and a loopback name exactly if it is loopback; `TextAssumption`: texts are sequences of characters; `HexAssumption`: control characters have different digits and are none of the other special characters |

Some theorems have a hypothesis that is not an assumption on the constants,
because the code does not establish it:

- `TimeoutsFit` (`NeverBlocks`, `VerdictFollowsStream`): the timeouts are at most
  `IntMax`. `parse_options()` accepts larger ones, and `static_cast<INT>` then
  makes a different wait of them. The instance of `probe` satisfies it.
- `OrdinaryAdapters` (`SelectionIsDocumented`): adapters have different indices,
  IPv4 addresses only, and no mixture of legal and illegal prefix lengths; nobody
  gives a GUID to `--interface`. The documented rules speak of such machines only.
  `MCInterfaceDiscovery` checks that its instance is one.
- `FilesAreIfconfig` (`ReportIsTheDevice`, `CutOutputHarmless`, `ReportReads`): the
  file given to `--mock-ifconfig` holds the output of an `ifconfig`, of net-tools
  or BusyBox. `run_mock_mode()` takes any file, and `report_mock_ip` is the run in
  which one that holds the output of `ip -4 addr` is misread: the theorems are
  false without the hypothesis. The instance of `report` satisfies it.

### The inductive invariants

None of the properties is inductive alone.

**Pool** (`IInv`). The invariants of the run, and what their proofs lean on: a
worker has a task exactly while it runs one; a worker is `unspawned` exactly if
its number is above `spawned`, and all are spawned once the pool is constructed,
so that an empty set of awake workers really means that somebody waits for a
notification; nothing is submitted and no caller is busy before that; and the
stages of a shutdown follow from each other (`stopping_`, then notify, then
join). The wake-up invariant has to count the caller that has changed the queue
but not yet notified: that is the window in which all workers sleep on a
non-empty queue. Refinement then needs `JoinedMeansDrained` for the abstract
`Drain`; all other steps map one to one or to stuttering.

**Stages** (`SweepInv`). Every step of the stages is a step of the pool, so the
pool's invariant comes for free. Added are where the main thread may be for each
state of the pool (`PlaceInv`); that the futures of the present stage are handed
out in order, those collected are ready and the other stage has none under way
(`FutureInv`); and that `found` is what the collected verdicts select, in order
(`FoundInv`). The last is stated by a function of the number collected, of which
one step adds one value: this makes the fold of `DiscoveryStages` provable.

**Probe** (`ProbeInv`, `TimeInv`). Whatever the timeouts are: the buffer is a
beginning of what arrived, and while the probe waits it holds neither a line nor
all it may. With timeouts that fit: every wait ends by its deadline, and a
reading wait ends less than a millisecond before it, which is what the rounding
of `remaining` costs. A probe that ends has judged its buffer and had a reason to
stop (`JudgedInv`); `VerdictFollowsStream` compares that judgement with the
judgement of the whole stream.

**Interface discovery** (`LinkInv`). The list in the buffer is one the machine
had; sizes asked for only grow, and an overflow ends the loop exactly when four
were asked for (`ErrorInv`); the decision is that of the list in the buffer;
and the loop invariant of the enumeration (`HostsInv`): what was collected is
every host below the loop variable, in order, and the loop variable stays at or
below the broadcast address, so it never wraps. The rest is arithmetic on masks:
that netmasks made of prefix lengths, printed as four numbers and read back, have
the same prefix length, and that `network` and `broadcast` are the ends of the
set of addresses with the same leading bits. The provers know nothing of `2^n`;
its laws are obtained by counting the subsets of sets of n elements
(`FS_SUBSET`).

**Layer 2** (`Layer2Inv`). Observations have different addresses; after the
second reading they cover the cache; while the loop runs its poll ends in the
window; a refusal lies between the two readings.

**SSH client** (`IInv`). Each place in the code holds exactly the resources of
the steps before it; after an exception only that a channel has a session and a
session a socket, which is what `disconnect()` needs; before `userauth` a strict
client has seen a match; the result is a beginning of what the device prints.

**run()** (`RunInv`). The client's invariants again, without its data; where
`run()` is against where the client is and whether the password has left, where a
failed connection can have sent it only if its error is the one of `userauth`;
what an exit code tells (`Tells`); the parser against the usage text, for lists of arguments of any length; the
addresses of the stage and the devices found among them; and that the target
answered and was selected if others did.

**Report** (`IInv`). While lines are read, the loop of the parser stands in the
block of lines of one interface (`Where`): its list is the beginning of `Has` that
the earlier blocks and the lines read of this one give, and `current` is the name
of that interface, or still the last name if its header is yet to come. That no
pair is dropped as a duplicate by `append` follows from the addresses of one
interface, and the names of all, being different. The other case is the second
parser on output the first found nothing in: it knows no line of it, so it
stays as it began. A line of a block does one of three things, whatever the format
(`BlockTurns`); where the blocks begin in the output is a function that is shown
to exist by induction over the blocks (`FlattenStarts`), which the invariant
carries along.

**Formatter**. `Says(x, tokens)`: whatever tokens the reader has, after the text x
it has these in addition and is again between texts. `Says` is closed under putting
one text after another, so the proof follows the structure of `format_json()`: an
escaped character is read as the character (`ReadsEscaped`, where quote,
backslash, the named and the other control characters are separate cases), then a
quoted text, a member, an object, an array. For the text report, lines that do not
start with the word for a warning are closed under concatenation (`Calm`), and the
width of the table is at least that of each name.

Induction over lists and numbers, where it cannot be avoided, is by the least
counterexample: `LeastNat` of `DataFacts` says that a non-empty set of natural
numbers has a least element.

### Only checked by TLC

- All liveness: `EveryTaskCompletes`, `ShutdownReturns`, `ProbeEnds`,
  `SelectionEnds`, `DiscoveryEnds`, `CallsReturn`, `RunEnds`. Fairness and
  `ENABLED` are out of the prover's reach.
- The runs that end in a violation.

## 5. Not modelled

- What the timeouts of the command line become in narrower types, but for the
  cast of `wait_for_socket()` (`AsInt`): `parse_options()` lets every positive
  `long long` through, and the `long` of libssh2 and the nanoseconds of the clock
  have no width in the models.
- The list of markers of virtual adapters, and the conversion of wide strings;
  hardware addresses as text.
- Messages and logging. Error texts are kept where code looks at them
  (`last_error()`, the layer-2 `error`).
- Running out of memory where nothing is at stake: not in `parse_options()`, which
  is outside the `try` of `main()`, so that an exception there ends the process
  before anything was opened. `ReadThrows`, `StageThrows`, `RunThrows` and
  `ClientThrows` have the rest.
- Output of a command that is cut inside a line: `CutOutputIsBeginning` is about
  cuts between lines. Inside one, `10.0.0.12` may become `10.0.0.1`; that such
  output counts as complete is what `client_capture` shows.
- Winsock, WSAPoll, libssh2, the condition variable: as far as the code sees
  them. The SSH protocol, flow control included, is libssh2's.
- A second `connect_and_authenticate()` on a connected client, which `run()`
  never makes.

## 6. Plan

Done: the models of all components, checked, and the proofs of all their safety
properties. What could follow:

1. `SshClient` with a second connect on a connected client, and its proof.
2. `DeviceDiscovery` as a refinement: that the stages and the client inside it
   take only steps of `DiscoveryStages` and of `SshClient`.
3. Where a line of the text report ends, when names contain line feeds.
