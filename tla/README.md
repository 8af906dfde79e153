# A TLA+ verification of hev-fsh

hev-fsh joins two hosts that can both only reach a public server. A *forwarder*
logs in to the server under a token and keeps that control connection open. A
*connector* asks the server for a token; the server tells the forwarder, which
opens a second connection to the server and *accepts*; the server then splices
the connector's connection with the accepting one. What is carried is a
terminal, a TCP port or a socks5 session. The code is C, built from cooperative
tasks (hev-task-system): a task runs without interruption until it calls
something that blocks, and there is one system thread (plus helper threads on
Windows and a signal handler).

Paths below are relative to the repository; `session.c:236` is
`src/hev-fsh-session.c`, and so on.

## 1. Inventory

| Component | State | Operations | Interacts with |
|---|---|---|---|
| server sessions (`hev-fsh-session.c`, `hev-fsh-io.c`) | per session: type, token, is_mgr, is_temp_token, client_fd, remote_fd, timeout, write lock, tree node; the task's position | LOGIN, CONNECT, ACCEPT, KEEP_ALIVE, the waits, close | each other, through the tree, the write lock, timeouts and wake-ups |
| session manager (`hev-fsh-session-manager.c`) | red-black tree keyed by (type, token) | insert, remove, find | sessions |
| server (`hev-fsh-server.c`) | listening socket, event task, pipe | accept loop, start, reload | sessions, token manager |
| token manager (`hev-fsh-token-manager.c`) | allow list | find, clear, reload | login, event task |
| process start and signals (`hev-main.c`) | `instance` | main, signal handler, Windows reload thread | server |
| forwarder client (`hev-fsh-client-forward.c`, `*-accept.c`) | base.fd, token, accept tasks and their descriptors | reconnect loop, keep-alive task, accept tasks | server, local services |
| connector client (`*-connect.c`, `*-listen.c`) | base.fd, local descriptor | listen, connect tasks | server, terminal |
| client base (`hev-fsh-client-base.c`) | fd | socket, listen, connect, encrypt, destruct | all clients |
| userspace splice (`misc/hev-task-io-us.c`) | two circular buffers, two results | read, write, shutdown, yield, sleep | clients, socks5 splicer |
| Windows bridge (`misc/hev-bridge.c`) | handles, socket pair, reference count | two threads | term/port clients on Windows |
| configuration (`hev-fsh-config.c`, `hev-main.c`) | options, address lists | parsing, address list lookup | everything |
| protocol (`hev-fsh-protocol.c`) | none | token generation and text conversion | everything |

What is hard here: the handlers of different sessions change each other's state
(eviction, pairing) while the other task sleeps in any of its blocking calls; a
descriptor changes owner, task and epoll registration in the middle of a
handler; waits race with what they wait for; descriptor numbers are reused while
stale copies of them are around; a signal may arrive at any instruction; an edge
triggered sleep must not miss an event. The list `hazards` in `PROJECT.json`
gives each with its line and the properties that would catch it going wrong.

What makes each component correct:

* *sessions and manager*: the tree agrees with the sessions' own fields, so that
  nothing is erased twice or left dangling; every descriptor has one owner, across
  the handover too; frames on a control connection do not interleave; a
  connector is joined to a connection that presented its token; roles only
  advance; a token has one forwarder; an evicted session ends;
* *token reload*: an announced edit is loaded whatever the interleaving;
* *clients*: no descriptor leaks on any path and nobody closes or writes to a
  descriptor that belongs to another task;
* *splice*: no bytes lost, closes passed on, no sleep while there is work;
* *bridge*: the reference count is right, every handle is released once, and the
  end of the shell ends all threads, even with full pipes in both directions;
* *command line*: the in-place parsers stay in their buffers, the documented
  forms mean what the help says, the address lists decide as they were written;
* *the whole*: both ends of every stream read what the other one wrote, the ends
  of a joined connection have each other's keys, a connector is served, and a
  forwarder comes back after failures.

## 2. Modules

| Module | What it is |
|---|---|
| `Rendezvous` | abstract specification of what the server promises its clients |
| `FshSession` | sessions, session manager, accept loop, i/o base of the server |
| `MCFshSession` | its instances for TLC (symmetry) |
| `FshSessionProofs` | theorems about `FshSession` |
| `RendezvousProofs` | the proof that `FshSession` implements `Rendezvous` |
| `TokenReload`, `TokenReloadProofs` | signal, pipe, event task, reload, and theorems about them |
| `FshClient`, `MCFshClient`, `FshClientProofs` | a client process in all modes, as far as descriptors go |
| `UsSplice`, `UsSpliceProofs` | `hev_task_io_us_splice` with both yielders |
| `Bridge`, `BridgeProofs` | the Windows bridge with its three users, the pseudo console and the shell's waiter |
| `AddrParser` | the two in-place parsers of `hev-main.c` |
| `CommandForms` | what a user may write: the options, the scan of GNU getopt, the grammar of the documented forms |
| `CommandLine`, `MCCommandLine` | getopt, `parse_args`, the configuration and the address list; the command lines that TLC tries |
| `CommandLineProofs` | theorems about both, for every command line |
| `EndToEnd`, `MCEndToEnd` | composition: `FshSession` with a forwarder process, connectors and the byte streams between them; the configurations that TLC tries |
| `EndToEndProofs` | theorems about the composition |

Operators whose comment starts with "Mutant" are deliberately wrong variants of
the definition that follows them. No specification uses them; replacing the
definition by its mutant must make TLC find a named property violated
(`mutants` in `PROJECT.json`), which shows that the property depends on that code.

### FshSession

One variable per field of `HevFshSession`, indexed by session, `pc` for the
blocking call the session's task sleeps in, and the locals that live across a
blocking call (`ver`, `mt`, `op`, `target`, `sfd`). `ntype`/`ntoken` are the
key under which the session's node sits in the tree; they are kept apart from
`type`/`token` because the code changes the fields and the tree separately.
`open` and `poll` are the kernel's view of descriptors: which are open and which
task each one's events wake.

An action is what a task does from one blocking call to the next, with
everything that it does to other sessions. `Login`, `ConnectOk`, `Pair` etc.
are the parts of handlers between blocking calls. The clients are the
environment: any message at any time, silence until a timeout, a hang-up.

Abstractions:

* Session `s` serves one connection, whose descriptor is called `s` too, and a
  token generated in its handlers is called `s` as well: a session generates
  at most one, and 122 random bits are taken to be unique. A client can send
  a generated token only after it was generated (`issued`).
* `find` returns any node with the key. Equal keys are possible (several
  connectors of one token) and the tree's shape decides.
* Sends. With `SendMayBlock` every send passes through a state in which other
  tasks run and may then fail; without it a send succeeds or fails within
  its step. The first is the general case, the second the usual one (messages
  of at most 18 bytes into an idle connection).
* A connector that waits for, or holds, the write lock of a forwarder that
  ends uses freed memory. The model lets the lock of a freed session be taken
  and released freely and does not look at what else may be damaged.
* Protocol versions other than 1 and 3 behave like 2. The configured timeout is
  not zero; `timeout` is 1 as configured and 0 after an eviction.

### TokenReload

`content`/`version` are the tokens file as an operator edits it, in place or by
replacing it; `sig` a pending signal; `pipe` the bytes in the pipe; `pc` is the
main thread until the server runs and the event task afterwards. Init is the
moment when `main` has installed its handlers. On Windows the reload thread
takes the handler's place and is started after `instance` is assigned.

A reload goes through the file line by line. The lines `Bad` are no token and are
skipped, any other may find no memory for its node (`lost`), and the rest are
inserted. A token is named by the version of the file and the line it comes from, so
that `TypeOK` can say that the allow list never mixes two versions. What is read of
half an edit (`NotWhole`) may be any lines, of any number.

### FshClient

`own` says who opened each open descriptor; `base_fd`, `mnew`, `afd`, `anew`
and `lfd` are the variables that name descriptors. A new descriptor is the
lowest free number. Whatever a blocking call waits for succeeds or fails. `kalive`
and `reclosed` are history variables (who was last sent a keep-alive, whether a
stale number was closed). `TypeOK` includes that a task past its connect has a
descriptor, which fails when the result of connect is not looked at. The mode is chosen in Init and covers
the three forwarders and four kinds of connector.

### UsSplice

Each system call of `task_io_splice` is a step of its own, so peers act between
any two. `event` is the kernel's edge-triggered notification: any change of
a connection sets it, the task consumes it when it is woken. `hangup` says
which of the two yielders is in use. Bytes are counted; the order inside the
circular buffer is the library's. The splice is used when `ugly_ktls` is set,
which only the option `-U` does; see section 6.

### Bridge

One program counter per actor: the client's task (`tpc`), the bridge's reader and
writer (`rpc`, `wpc`) and the thread that waits for the shell (`apc`). `h` is the
state of every handle, `misuse` collects those that were closed or used when not
open, `mem` the two heap structures. The three users differ in their flags:
the pseudo console owns its handles, drains and translates; the console and the
standard handles do none of this. `hev_bridge_new` starts a thread only for a handle
that is not NULL, and a process may have no standard input or output. Every call that can fail does, at any
time; `failed` remembers the failures that a property needs to know.

External: a pipe and the socket hold one byte per direction, which is what is
needed for everybody to be blocked; `ClosePseudoConsole` returns only when
its output has been read or the reading end is closed; a read of a console may end
at any time. The interlocked decrement and the release that may follow it are one
step, since nobody else has a reference then.

### AddrParser, CommandForms and CommandLine

A word is a sequence of characters and a parser's pointer an index of its copy, so
that the in-place cuts are what they are in C. One action is one round of a
parser's loop, one call of getopt with the case of the switch it leads to, or
one part of `parse_client` between two texts that have to be parsed. A
command line carries what its user means by it (`form`), if it is one of the
documented forms: the properties compare the configuration with that. `getopt`
is the Windows build's; the properties describe the C library's as well.

`CommandForms` is the reference. `GnuScan` reads the words once, from left to right.
`OfForm(a, f)` is the grammar of the help text: the words `a`, in any order that
GNU getopt allows, have the options of the mode, and their operands spell the
hosts (in brackets when they contain a colon), ports, tokens and lists of `f`. It is
written with concatenation only and knows nothing of how the parsers
work. `FormsAssumption` says that a case that claims a form is of that form; TLC
evaluates it for every case of `command_line`, and the proofs have no other
knowledge of what `form` is. `MCCommandLine` builds its cases from the meaning,
without the grammar.

Abstractions: digits are counted (`atoi`), `inet_pton` knows three addresses
(an IPv4 one, its mapped IPv6 form, an IPv6 one), the key file can or cannot be
read, the arguments of `-t`, `-l`, `-a` and `-c` are stored only. `strdup` and
the malloc of `getopt_permute` succeed; a list node may have no memory.

### EndToEnd

The server's variables and actions are those of `FshSession`, each joined with the
unit it takes from a client's stream and what it puts on another. A unit is
what one `recv` of the code takes: a header, a token, an IV, an info message.
The forward task (`fpc`, `fconn`, `ftok`), the keep-alive task and the accept and
connect tasks (`cpc`, `ctok`, `rx`, `info`, one per connection) read and write
the other ends.

The tasks of the forwarder's process share descriptor numbers. `tab` is the kernel's
table, `base` the number in the forward task's `base->fd`, and `fd` the number of
each accept task, or of the socket that the forward task is still connecting.
A new socket gets a number of its own or any closed one that somebody still holds
(`Numbers`). `CloseFds` and the sends act on what a number names at that moment:

* `Restart` (the label `restart`) closes `base->fd` and keeps the number. After a
  failed connect (`FwdNoConnect`) the same number is closed again, whatever it
  names by then; an accept task that loses its descriptor in this way goes on with
  the number, may find the forward task's next connection behind it
  (`SpliceStale`), and closes it at its end (`TaskEnd`).
* `FwdSocket`/`FwdConnected` and `AccSocket`/`AccConnected` are the two halves of
  `hev_fsh_client_base_connect`, so that everything can happen while it blocks. A
  keep-alive on a stale `base->fd` goes into what it names (`KeepAliveStale`): an
  accept task's connection, before its ACCEPT or later, or the forward task's own
  new one, before its LOGIN. Or it waits with the write lock on a socket that is not
  connected (`KeepAliveStuck`), until its timeout (`KeepAliveGivesUp`).
* `FwdLogin` and `FwdLoginToken` are the two locked sends of LOGIN. The lock is free
  between them, but the task does not yield there, and a task that was woken by
  the unlock looks again when it runs; the mutant of `Aligned` has the gap.

`hit` collects the connections that somebody else wrote to or read from, and those
that the server passed their bytes to. What is read on them out of place is a
unit like any other: the server takes it for nothing it knows, or for any message
(`SrvMisread`), a client goes on without the value it expected, and a read of
what somebody else has taken waits for its timeout (`Starved`). A token made of such
bytes is taken to be none that is in use (`Noise`), since tokens are random.

Faults: a connection breaks, noticed by the server or not; a connect, an accept or
a send fails; a timer fires early. `MaxFaults` bounds them, and `MaxStale` the
uses of a number for another's connection, which are no faults of their own. Closes
of another's descriptor are not bounded by it. One
keep-alive is in flight at a time, sends do not block, there is no tokens file.

## 3. Runs

| Run | Instance | Shows |
|---|---|---|
| `session_blocking` | 3 sessions, 1 client token, blocking sends | `TypeOK`, `RegistryConsistent`, `FdOwnership`, `WireExclusive`, `PairedByToken`, `RoleOrder`, and the inductive `IInv` |
| `session_live` | 3 sessions, 1 client token, tokens file, fairness | `UniqueForwarder`, that `FshSession` implements `Rendezvous`, and `EvictedEnds` |
| `token_reload` | 3 edits of a file of 3 lines, one of them no token, pipe of 3, reads of 2 | `TypeOK` (no mixed list), `NoLostReload`, `UpdateTakesEffect`; deadlock is checked here |
| `client_fds` | 2 tasks, 5 descriptors, all 7 modes | `NoLeak`, `TaskOwnsFd` |
| `us_splice` | 3 bytes per direction, buffer 2, send buffer 1 | `NoTruncation`, `NoLostWakeup`, `ClosePassedOn` |
| `bridge` | 3 typed bytes, all three users | `RefsCountUsers`, `HandlesOnce`, `EndReleasesAll`, `LineFeedsTranslated`, `ShellEndReleases` |
| `command_line` | all texts of up to 5 characters for `parse_addr`, `parse_addr_pair` and the list, 4 for a local end, long pairs, all sequences of up to 4 words, 516 documented forms | `BufferSafe`, `PermuteLikeGNU`, `FormsUnderstood`, `AcceptedIsUsable`, `ListDecides` |
| `end_to_end` | 5 connections, up to 2 connectors, 1 fault, 1 use of a stale number, with and without a configured token and key | `Aligned`, `KeysAgree`, `Served`, `Recovers` |
| `late_accept`, `client_reclose`, `splice_hangup`, `option_u` | small | disagreements between the code and what it says, see section 6 |

Why the bounds are enough. Three sessions give a forwarder, a connector and an
acceptor, or two rival forwarders and a connector whose send to one of them is
blocked. A client
token and the generated ones give equal and different keys. Each session is
used once, so "long" histories are covered as far as they involve three
connections; the theorems remove that bound for safety. In `token_reload` the
pipe fills up (3 bytes) and is drained by less than it holds (2). In
`client_fds` five descriptors are what the main task and two tasks with two each
need, and a descriptor may fail to open at any time anyway. In `us_splice` the
buffer can hold more than the send buffer takes, so partial writes, full buffers
and an end of file behind buffered data all occur. In `bridge` three bytes of
three kinds give every way to cut a CRLF, and a byte is still unread when the
pipe is full. In `command_line` five characters reach every state of both parsers
with every next character, and the long pairs fill the array of four pointers
and go on. In `end_to_end` five connections are a
forwarder and two connectors with their acceptors, so that pairs can be mixed up,
or a forwarder, its successor after the fault, a connector and its acceptor. The
sum of faults, forward connections and twice the connectors is bounded by
`MaxLoad` = 5; `Exhausted` names the states in which a further connection would be
needed. One fault is enough for a stale number: the lost connection leaves it in
`base->fd`, an accept task or the next connect gets it, and one use of it makes
the streams it hits go wrong. Token and key are configured together or not at all;
the two do not interact (one is the dialogue with the server, the other that of
the ends).

Deadlock is not checked where the modelled connections may all have ended:
sessions, tasks and splices are used once.

Fairness. `FshSession!Fairness`: timers fire (`sleep_wait`, the two waits) and a
woken task with a zero timeout gets its -1 from the yielder; nothing is assumed
of clients. A receive with the configured timeout need not end, because traffic
restarts it. `TokenReload`: the event task runs when the pipe is readable, a
pending signal is delivered; nothing of the operator. `UsSplice`: the task runs
when it can and the sinks consume; sources need not close, and the timeout
may or may not strike. `Bridge`: the task and the threads run, an idle splice
times out; nothing of the shell, the user or the console taking input.
`EndToEnd`: some step of the server and the client tasks is taken as long as one is
possible without a new fault, and the same for the forward task and for the
echo of keep-alives by themselves; users and the keep-alive timer need not act.
This is weaker than fairness for each task. These are what the scheduler and the kernel give:
hev-task-system runs every runnable task in turn.

## 4. Refinement

`Rendezvous` has four variables: the named forwarders, the waiting connectors,
each connector's peer, and the connections that are gone. `FshSession` implements
it with reg and wait read off the tree keys, peer as `remote_fd`, and gone as the
freed sessions, when sends do not block. With sends that may block it does not:
login evicts before its TOKEN reply and registers after it, so two logins whose
replies block can both register under one token (`UniqueForwarder` has that
premise for the same reason). TLC checks it on `session_live`, and
`RendezvousProofs` proves it for every set of sessions and tokens, with and
without a tokens file (`ServerImplementsRendezvous`, with the hypothesis
`~SendMayBlock`).

The proof reads each step of the server as a step of the service or a stutter.
A close is `Leave`, with the evicted sessions among those it releases
(`CloseLeaves`); a login is `Register` (`LoginRegisters`), which has to evict
exactly the earlier forwarder of the token; a connect is `Ask`
(`ConnectAsks`); an accept is `Match` (`PairMatches`), and everything else leaves
the four mapped variables alone (`Invisible`). It uses the invariant `IInv` of
`FshSessionProofs` and one fact more, `WaitsWithToken`: a waiting connector has a
generated token.

## 5. Proofs

`FshSessionProofs` proves, for every set of sessions and tokens, with and
without a tokens file, and whether or not sends block, from
`SessionAssumption` and `ModeAssumption` only:

    Invariance, TypeCorrect, RegistryCorrect, DescriptorsOwned,
    FramesExclusive, PairingCorrect, ForwarderUnique, RolesAdvance

The properties are not inductive one by one. `IInv` adds

* `RoleAtLabel`, the roles a session can have at each blocking call. Without it
  an eviction could hit a session that is about to register, and the type of a
  session that leaves a receive would be unknown;
* `FdInv`, a stronger form of `FdOwnership` that names the owner: a live session
  holds the descriptor it was accepted with, and any other open descriptor
  belongs to the connector its events wake. The handover in `Pair` is the
  step that needs it;
* `SendInv`, that a task that waits for a lock or sends does so on a session
  that has been accepted: otherwise a new session could start with its lock taken.

There is one lemma per action or shared part of actions (`CloseInv`,
`LoginOkInv`, `PairInv`, ...), `NextInv` puts them together, and the theorems
follow. `RolesAdvance` is proved from the invariant step by step, because a
session's role depends on what other sessions do to it.

`TokenReloadProofs` proves `ReloadTypeCorrect` and `ReloadNeverLost` for any
number of edits, lines and bad lines and any pipe and buffer size. The
strengthening `Parsing` says that the list is empty between clear and open, that
while a whole file is parsed it holds exactly the tokens of the lines read so far
that found memory, and that a parse reads the announced version or another reload is
still to come.

`UsSpliceProofs` proves `SpliceTypeCorrect`, `SpliceForwardsWhole` and
`SpliceLosesNoWakeup` for streams of any length and buffers of any size.
`SpliceInv` adds that bytes are conserved (`Conserved`: what was read is what was
written and what is buffered), that the end of a direction is reached only with
an empty buffer, and `StillBlocked`: while the task is between its two
attempts and its sleep, a direction it gave up is still blocked or an event for
it is pending. That is what makes the wake-up argument work, because the
code looks at both directions before it sleeps.

`FshClientProofs` proves `ClientTypeCorrect`, `ClientNeverLeaks` and
`ClientTasksOwnFds` for any number of tasks and descriptors. `ClientInv` lists,
for every place where the main task can be, which variables name a descriptor
(`VarsAtLabel`), and `CleanInv` says that before a reconnect fails no two
variables name the same one.

`BridgeProofs` proves `BridgeTypeCorrect`, `BridgeCountsUsers`,
`BridgeClosesOnce`, `BridgeEndsClean` and `BridgeTranslates` for any amount of
input. The invariant has a control part, which ties the reference count, the
threads, the pseudo console and the shell to the places of the four actors, and a
data part: what was typed is the concatenation of what the console got, what is
in each buffer and what is still to be read, with the translation of line
feeds in between (`DataInv`).

`CommandLineProofs` proves `CommandTypeCorrect`, `ParsersStayInBuffer`,
`AcceptedCanBeUsed`, `PermutesLikeGNU`, `DocumentedUnderstood` and
`ServesTheList` for every command line, of any number of words of any length. The
assumptions are that words consist of characters, not of NUL or null pointers
(`CasesAssumption`), and `FormsAssumption`, which only the last two use. There are
three invariants, each resting on those before it.

* `CommandInv`, types and bounds. `BufferInv` adds that at the start of a field
  `parse_addr_pair` has room for a pointer. `ConfigInv` says in each phase what
  was already checked: that a connector has a token was checked with the server's
  address, long before the mode is set. The permutation of the words is shown to
  be one by counting (`PlacesFilled`: the places are all different, so they are
  all taken), and pointers into a cut buffer to be strings by taking the least
  NUL behind them (`Least`).
* `GnuInv`, getopt against the scan. Until the permutation the words are those
  given; after it there is a word of the given line up to which getopt has read:
  `optind` is the number of option words before it (`Count`), and what getopt has
  found is what the scan has found up to there, together with the flags already
  read of a cluster (`ReadSoFar`). At the end both agree on options, arguments
  and operands (`Agrees`).
* `FormInv`, what has been understood of a documented command line in each phase:
  which text is being parsed and what is already set (`ServerIn`, `EndsIn`), so
  that `Means(cfg)` holds at the end. It rests on what a whole run of a parser
  does with a text of the grammar. `Layout` says where a text's bracket and
  separators are, `AddrRun` which state and pointers `parse_addr` has at each
  character of it, and `AddrCall` that it returns the host, port and token of the
  form; `SplitAt`, `PairAt` and `PairCall` do the same for the two to four
  fields of `parse_addr_pair`. For a list, `Rests` gives the texts that are left
  behind each element, and `NodesAt` describes the address list after the first
  `k` of them: the default node is last, every other node belongs to an element,
  and unless an allocation failed each element has a node in each of its
  families. `ListServes` concludes what the first matching node decides.

The recursive functions (`WordKinds`, `GnuScans`) are unfolded, and facts about
every prefix of a text are shown, by induction in the form of `Induct`: a set of
numbers that contains 0 and with each number the next contains all. It follows
from `Least`, and needs no theorem with an operator parameter.

`EndToEndProofs` proves `EndToEndTypeCorrect`, `ServerWithClients`,
`StreamsAligned` and `KeysAgreed` for any number of connections, connectors, faults
and uses of stale numbers, from the assumptions of `FshSession` and
`EndToEndAssumption`. The invariant `FInv` is `BInv`, which holds whatever
happens, and `CInv` as long as nobody has written or read under a number that names
another's connection (`hit = {}`). This premise is in the statements of
`StreamsAligned` and `KeysAgreed`. It is not that nothing goes wrong with numbers: those
that are closed for somebody else, reused and closed once more are covered, and so
is the keep-alive on the forward task's own new connection. That after a use the
harm stays with the connections in `hit` (`Aligned` and `KeysAgree` quantify over
`Session \ hit`) is model-checked only.

`BInv` is `IInv` of the sessions, `ETypeOK`, and that every token on its way, or in
an accept task, is configured or was issued (`FlightInv`). It also covers what
the server reads out of place, and gives `EndToEndTypeCorrect` and
`ServerWithClients` without a premise. `CInv` adds

* one connection at a time: where the client's task and its end can be (`TaskAt`),
  that the session does what the client is there for and what is still to be read
  of the client's request (`RoleOf`, `FromFwd`, `FromTask`), which numbers name it
  (`FdAt`), and that a task that has read an info message or data has read an IV
  before, when traffic is encrypted (`Keyed`);
* `FwdInv` and `ToFwd`, the forward task: it has at most one open connection, open
  exactly as long as `base->fd` names it; it has the lock between the halves of
  LOGIN; and after the answer to its login nothing but CONNECTs and echoes of
  keep-alives comes to it;
* a pairing `P` of the accept and connect tasks. A task without a peer has read
  nothing (`Single`). Two tasks that are paired are at places that fit each other
  (`Linked`), and what one has sent and the other has not read, in the stream to
  the server or in the one from it, is what the reader's place calls for
  (`Flow`).

The pairing is needed because `rx` and `info` outlive the server's side: after
the sessions are freed nothing there says who was joined with whom, and the last
units are still on their way. The `remote_fd` of the server would not do.

`ServerSteps` shows that every step of the composition is a step of `FshSession` or
leaves its variables alone, so `ServerWithClients` (`ESpec => Spec`) carries every
theorem about the sessions over to the composition. The lemmas on frames (`Same`)
say that a connection that a step does not touch keeps what holds of it; with
them each action is a matter of one connection or of the two of a pair.

Only model-checked: the liveness properties `EvictedEnds`, `UpdateTakesEffect`,
`ClosePassedOn`, `ShellEndReleases`, `Served` and `Recovers`, which need fairness
and ENABLED and are out of the prover's reach, and the containment of stale numbers
(above). Every other invariant and action property of a passing run, and the
refinement, is proved.

## 6. Where the code and its comments disagree

* `late_accept`: a connector that has stopped waiting "for accept"
  (`session.c:170`) stays in the tree; a late acceptor is joined to it and
  nothing moves.
* `client_reclose`: the forward task closes `base->fd` and keeps the number. It
  is closed again after a failed reconnect, and keep-alives are sent on it, when it
  may belong to an accept task. `TaskOwnsFd` holds as long as no reconnect has
  failed; `EndToEnd` follows what the writes, reads and closes under such a number
  do on both sides, and `Aligned` and `KeysAgree` hold of all connections that they
  did not hit.
* `splice_hangup`: the terminal connector hangs up while output of the remote
  shell waits for the terminal.

* `option_u`: `-U` is in the help, in the README and in the switch of
  `parse_args`, and not in the option string.

Other behaviour that the properties have to except, or that a reader should know:

* An acceptor that waits for its connector (`session.c:236`) is not woken when
  the connector registers and does not look again when its sleep has expired.
* A `SIGUSR1` between the initial load and the assignment of `instance` is dropped.
* A `LOGIN` that was delayed on an abandoned connection evicts the forwarder's
  present session; it comes back, but a connector may be lost in between
  (`Settled` in `Served`).
* When the bridge's writer thread cannot be started, the reader's last
  reference and `hev_fsh_client_term_accept_task_entry` both close the handles
  (premise of `HandlesOnce`). A failed malloc of the attribute list leaves the
  pseudo console open (`EndReleasesAll`). Without a waiter thread the task itself
  calls `ClosePseudoConsole` and may block (`ShellEndReleases`). Without
  the duplicated process handle a shell is not killed at the end of its
  session and ends on its own.
* The getopt of `hev-compat.h` differs from GNU's for a cluster that ends with an
  option whose argument is the next word (`-fk KEY`), for operands in front of
  `--` and for an option without its argument: `PlainWords` leaves them out.
* A node that cannot be allocated is dropped silently: a white list then
  serves less, a black list more (`ListDecides`). A fifth field of an address
  pair is ignored, text after a closing bracket too, and an empty address text
  means the default address.

## 7. Not modelled

The text form of tokens; the conversion of addresses and names to socket
addresses, and the value of the timeout (`timeout * 1000`); the terminal attributes
of the Unix connector; partial sends (a frame is sent whole or not at all);
balancing of the trees and the task system (libraries); kernel TLS and
`linux-tls.h`; the socks5 server (a submodule that is not in the repository);
logging, random numbers, class tables.

## 8. Plan

Done: the server core (`FshSession`, `Rendezvous`), the reload path, client
descriptors, the userspace splice, the Windows bridge, the command line with
the address list, and the composition of server and clients, each with its
proofs. Next: the text form of tokens, and the tree as a binary search tree with
`find` over all shapes against `Find`.
