# A TLA+ model of E-MailRelay

E-MailRelay is an SMTP store-and-forward relay and proxy, with a POP server.  This
directory holds TLA+ modules that model its core, TLC configurations that check
them on small instances, and TLAPS proofs for every instance.  Paths below are
relative to the repository; the code is under `src/src/`.

## 1. The parts of the system

The program is single-threaded: an event loop calls one handler at a time, and a
handler runs to its end.  Concurrency comes from elsewhere: several processes that
share a spool directory, peers that send when they like, filter and verifier
programs and network services that answer later, timers, and a process that may be
killed between any two system calls.

| Part | State | Operations | Talks to | What is hard | What makes it correct |
|---|---|---|---|---|---|
| Message store (`gstore`) | a spool directory: per message a content file and an envelope file whose suffix (`.new`, none, `.busy`, `.bad`) is the state of the message | new message, commit, roll back, scan, lock, unlock, edit, fail, destroy, unfail | server sessions, forwarding clients, filters, other processes | interleaving of processes, crashes between two renames, failing file operations, filters that delete the files | one worker per message; nothing accepted is lost; nothing delivered is sent again; only complete messages are visible |
| SMTP server session (`gsmtpserver*`, `gprotocolmessage*`) | state of `ServerProtocol`, the message being built, the input buffer with its timer and flow control, in proxy mode a forwarding client | one handler per command, one per completion event, the buffer's `apply`, `onTimeout`, flow control | verifier, filter, store, forwarding client, peer | pipelined input while busy, late and repeated completion events, `clear()` in the middle of work, loss of the forwarding client | replies in order, each about its own message; each completion event expected; nothing stranded; every reply sent |
| SMTP client connection (`gsmtpclient*`) | state of `ClientProtocol`, recipient index and reject list, session features, timer | one transition per reply class, the filter, flow control, timeouts, `Client::protocolDone` | remote server, filter, the store | silence, loss and refusal at every step, pipelining, BDAT, TLS and authentication fallbacks | in step with the server; only what was taken is destroyed; the envelope that is left has the right recipients; no wait without a timer |
| `GSmtp::Forward` | the store iterator, the current message and client, addresses that could not be connected to | scan, next message, routing filter, client made and deleted | store, client, units, proxy sessions | the client lost between two messages, exceptions thrown later from a timer | every message of the scan is tried, failed or left for later; one message at a time |
| Filters (`gfilters`, `gsmtp/gfilter*`) | the running program, request or chain | start, done, cancel, timeout | sessions and clients | a result that arrives after a cancel; a chain that is abandoned half way | one result per start, none after cancel |
| Verifiers (`gverifiers`) | the running program or request | verify, done, cancel | server sessions | the same | the same |
| Authentication (`gauth`) | a SASL mechanism's progress; secrets | init, apply | both protocols, POP | mechanisms of several steps, restarts | authenticated only after a complete, successful dialogue |
| POP (`gpop`) | `POP3` state, a user's message list with deletion marks | one handler per command, commit on QUIT | the spool directory and its per-user subdirectories | the list goes stale while forwarders rename envelopes; content shared by several envelopes | a content file goes with its last envelope and not before; deletions only on QUIT |
| Administration server (`gsmtp/gadminserver*`) | connections, a client for `flush` | one handler per command | store, forwarding | a command while the last one is still at work | one notification per event |
| Units and scheduling (`main/unit`, `run`) | timers, a flag per unit | poll, forward on disconnect | Forward, store signals | requests while forwarding is going on | no request is forgotten |
| Event loop, timers, line buffer (`gnet`) | handler lists, timer list, partial lines | add, remove, fire, extract a line | everything | objects deleted while their list is iterated; input in arbitrary fragments | a deleted object gets no event; lines do not depend on fragmentation |
| Connections (`gnet`: `Client`, `Socks`, `SocketProtocol`; `GSmtp::ServerPeer`) | connecting phase, TLS state, what the socket did not take, what is kept while it is blocked, timers | connect, send, read and write events, TLS handshake | the kernel, the TLS library, sessions | a socket that blocks, a TLS call that wants the other direction, a handshake behind unsent replies | what is sent arrives in order and once; whatever waits has an event or a timer |
| Base library, TLS adapters, DNS, submission tool, GUI, Windows | – | – | – | – | not part of the mail logic |

`PROJECT.json` lists the parts in more detail, with what is left out of each and
why, and the hazards of this code line by line.

## 2. Modules

| Module | Models |
|---|---|
| `Spool` | what the store promises: the life of a message with no files, processes or crashes |
| `FileStore` | the spool directory at the granularity of one file operation, and everybody who works on it |
| `ServerProtocol` | one server session |
| `ServerInput` | how a session cuts the bytes it receives into commands and content |
| `ClientProtocol` | one client connection |
| `Forwarding` | the unit, the administrators and the `Forward` objects they own |
| `Filters` | filter chains and the four kinds of filter that answer later |
| `PopServer` | POP sessions and the mailboxes they share with each other and with other processes |
| `EventLoop` | the epoll loop and its timer list |
| `Connection` | one TCP connection below the protocols: connecting, SOCKS, TLS and unsent output |
| `FileStoreProofs`, `ServerProofs`, `ClientProofs`, `PopServerProofs`, `ForwardingProofs`, `FiltersProofs`, `NetProofs`, `ConnectionProofs` | inductive invariants and safety theorems of those modules (`NetProofs`: of `EventLoop` and `ServerInput`); in `FileStoreProofs` also that `FileStore` implements `Spool` |
| `MC...` | instances of each for TLC; `Connection` needs none |

The models meet where the code does.  A session of `ServerProtocol` sees of its filter
what `Filters` gives, of its input what `ServerInput` gives and of its forwarding client what
`Forwarding` and `ClientProtocol` give: an answer, or a loss that is reported later.  What
`ClientProtocol` decides about a message (removed, failed, unlocked) is one of the
choices of `Forwarding`'s `MessageDone`, and a sequence of file operations in `FileStore`.
What the two protocols take for granted, that lines arrive in the order in which they were sent and
that a blocked socket is followed by `onSendComplete()` or by the end, is what `Connection` shows.

The operators whose comment starts with "(mutant" are changed versions of the
definition that follows them, as a plausible mistake in the code would have it.
They are not part of any specification.  They show that each property can fail.

### FileStore

`envelope[i]` is the set of suffixes under which the envelope of message `i` exists,
`content[i]` its content file.  An actor is an object that owns a message: a server
session with its `NewFile`, a forwarder with its `FileIterator` and `StoredFile`, or a
session of a proxy, which is the one and then the other.  `pc` says which file
operation comes next, so that a crash (`Crash`) or another actor's step may come
between any two; a process that is killed loses its actors' memory and leaves the
files.  `rename()` replaces its target and fails without its source, which is the
lock.  Actions are named after what they do: `NewMessage`, `Prepare`, the three results
of the server-side filter, `Acknowledge`, `Get` (proxy), `Scan`, `LockNext`, `Unlock`, the
client-side filter, `SentToAll` with `DestroyEnvelope` and `DestroyContent`,
`SentToSome` with the editing of the envelope, `FailReason` and `FailRename`.  The
environment is a filter program that deletes its files in the order of
`rm "$envelope" "$content"`, the built-in delivery filter, which deletes the content
first, and the administrator (`Unfail`).

Abstracted: names and text, the order of the directory listing, the routing filter,
the store's signals, and failures of file operations other than those that the code
can meet through another actor or while it edits an envelope.

### ServerProtocol

A line of input stands for a command word or for a piece of content; whatever depends
on its arguments is a choice.  `Receive` is the arrival of a batch, which sets `drain`;
while `drain` is set only lines are applied (one action per `doXxx` handler), until the
buffer is empty (`Drained`) or the state machine is busy (`Suspend`), because the code
does this in one handler.  Completion events (`VerifyDone`, `FilterDone`, `ForwardDone`,
`ForwardGone`, `Secure`) come in steps of their own.  `armed` is the one-shot signal of
`ProtocolMessageForward`; `doomed` is a forwarding client whose connection is lost but
whose `Forward` object throws only later, from a timer.  History variables keep the
line whose reply is due, the lines that were answered before it, the message that
the reply is about, and what the submitter was told of each message.

`setup` is the configuration and the kind of peer, chosen once.  A "patient" peer waits
for each reply.

Abstracted: text, sizes ("too big" is a choice), the reply buffer, the idle timer, whose
effect is that of `Disconnect`.

### ClientProtocol

One action per branch of `applyEvent()`, with what `Client` does in the same call.  The
remote server is a queue of commands that it answers in order, with the replies that
SMTP allows, or not at all.  Each reply carries the command it answers, which the
client never sees and the properties need.  `setup` holds the configuration;
`outcome` and `rcpts` are the message's fate in the store and its envelope's recipients.

Abstracted: text, multi-line replies, TLS before SMTP.  Two paths that
`GSmtp::Forward` never takes are left out: a client without a first message
(`ServiceReady`) and a change of account on an open connection.

### ServerInput

`in` is the line buffer's input, `out` what `LineBuffer::Output` remembers of the last
piece, `expect` the size of the block it was told to expect.  `Receive` is the arrival of a
piece of the stream, of any length up to `MaxPiece`.  `More` is one round of the loop in
`ServerBufferIn::applySome()`: the branches of `LineBuffer::more()` (a whole block, part
of one, a line, a fragment, nothing yet) with the call of the protocol's `apply()` for what
comes out.  Of the protocol only the states matter in which it reads lines, DATA text or
a BDAT chunk, or is busy.  `Complete` is `onProtocolChange()` and `OnTimeout` the timer that
goes on with the buffer.

The reference is a reader that has the whole stream before it and goes through it byte by
byte: `Reading(stream)[k]` is what it has understood after byte `k`.  `SameMeaning` says that the
protocol has been given exactly what this reader makes of the bytes that the line buffer has given
out, so that neither more nor less of the stream has taken effect.  Since the reader is itself a
definition that could be wrong, TLC compares it in `MCServerInput` with `Meaning`, which takes the
stream apart line by line and chunk by chunk, on every prefix of every session.

Abstracted: a command word is one byte, and so is the size of a chunk; the automatic
detection of the line ending, which SMTP does not use.

### Forwarding

`fwd[o]` is the `Forward` object of the unit or of an administrator's connection: what its
iterator has still to offer, `m_message`, whether the routing filter is at work, its two
timers, the addresses it could not connect to, and its client.  Every action is one
callback: `Continue` and `Error` are the timers, `RoutingOk`, `RoutingIgnores` and `RoutingFails`
the results of the filter, `MessageDone` the end of a message at the client with the
start of the next one in the same call (`SendNext`), `Lose` the client's exception, and
`Delete` an exception that reaches the owner.  `Request` and `RequestTimeout` are the
unit's scheduling, with the flag for a request that comes too early; `Flush` and `Leave` are the
administrator's.

Abstracted: the client's dialogue (see `ClientProtocol`), and that forwarding works on
messages one by one with file operations in between (see `FileStore`).

### Filters

`filter[i]` is what filter `i` of the chain is doing: its program or connection, the answer it
holds and whether it has answered.  The filters answer through timers of zero length,
which go off at the beginning of the next turn of the event loop in the order they were
started; `soon` is that order and `passing` what the current pass has still to call.  `Start`
and `Cancel` are the user's; `TaskDone`, `Connected`, `Reply`, `ClientTimeout` and `Broken` are
events, which come when no pass is going on.  `Exit` translates a program's exit code
for a server's and for a client's filter.

Abstracted: the answers' text, the message's content, the parsing of `--filter`.

### PopServer

A session has the state of `POP3`, its SASL authenticator (`mech`, `id`), the name it works
under and its message list.  The directories are the spool and one sub-directory per
user.  Each command that changes state is an action; those that only list are left out, except `RETR`, which
can block.  `Quit` begins the removal of the deleted messages, which goes one file
operation at a time: `RemoveEnvelope`, `CheckShared`, `RemoveContent`, `Committed`.  When the
sessions are in one process (`setup.apart` is false) a removal is not interrupted by another session; the
forwarding client, the copy and delivery filters and a crash may still come between.

`proven`, `asked` and `excused` are history: whose password was shown last, which deletions
were confirmed, and what was being removed at a crash.

### EventLoop

An object owns a descriptor and a timer.  `Poll` is the wait with what it harvests,
`NextTimeout` and `EndPass` the pass over the timer list, `NextEvent` and `EndEvents` the
harvested events.  While `current` runs, its handler does up to `MaxOps` things:
start or cancel a timer, create or delete an object, stop listening, throw.  Immediate timers
have the `m_time` that `adjust()` gives them, which lies before the clock's beginning.

Abstracted: the clock is the time of the loop's steps, and the memory of lists is not
modelled, except that an item that is reset stays in place.


### Connection

Both ends of the code: a client from `connect()` (`phase`, `socks`) and a server's peer from `accept()`.
`tls` is the state of `SocketProtocol`, `residue` what `send()` could not send, with `writes` and `reads` the
socket's handlers; `blocked` and `buffer` are `ServerPeer`'s `m_output_blocked` and `m_output_buffer`.  A
handler is several steps, because it calls the user between two of its own; `next` says which step
comes.  `RawWriteEvent` and `SslWriteEvent` retry a send and lead to `SendComplete`, `RawReadEvent` and
`SslRead` to `OnData` or, for STARTTLS, over `GoAhead` to `Secure` and `Handshake`.  A user's line is two
numbers, so that the kernel can take a part of it; `asked` says how many there have been.

The kernel's buffer (`out`, with `Room`), the peer (`in`, `got`, `net`) and the TLS library (`shaking`,
`pending`) are external.  The library takes a write as a whole or wants to read or to write first, asks for a
second handshake when the peer begins one, and with a small read buffer (`small`) has more
than was read.

Abstracted: the number of segments, plain text that comes in the middle of TLS (it is an error, as in
`HandshakeFails`), a SOCKS answer in pieces, the ordered shutdown, and which of several addresses is connected to.
## 3. What is checked

| Run | States | Instance | Shows |
|---|---|---|---|
| `store_spool` | 536 012 | 2 messages; a server with a plain session, a proxy session and a forwarder, which may be killed, and a forwarder in another process | the safety of the store, that it implements `Spool`, and that locks are given up in the end |
| `server_session` | 280 330 | four setups: a pipelining peer of a store, one of a proxy, and a patient peer with every command of each | order, fate of messages, no stray or missing event, no stranded input, every reply sent |
| `server_input` | 120 090 | every DATA text of up to five bytes out of `a`, `.`, CR and LF, every BDAT chunk of one to three bytes, a pipelined session; pieces of one to four bytes | the protocol is given what the whole stream means, and all of it |
| `client_session` | 529 738 | a queue of three messages with one, three and two recipients; every combination of TLS, authentication and `--forward-to-*`, and every one of pipelining, BDAT (three chunks), unterminated content and `--forward-to-*` | in step, session ready, what is destroyed was taken, what is left is owed, every message ends |
| `forward_scan` | 290 958 | 2 messages, the unit and an administrator, a forward-to-address, a malformed one and the default | a locked message has one owner that works on it, no request is lost |
| `filter_chains` | 227 650 | every chain of up to three filters of four kinds, started three times | one filter works at a time, and the answer is about this message |
| `pop_mailboxes` | 1 520 982 | two users, two sessions, one message; five ways of using the spool and the strictest choice of logins | logins, shared content and deletions |
| `event_loop` | 548 275 | three objects for two descriptors, two operations per handler | lists, events and timers while handlers change them |
| `connection` | 45 045 | a client with and without a SOCKS server, and a server's peer, each with a large and a small read buffer; eight half lines, room for three | what is sent arrives in order; what waits is woken up or timed |
| `client_lost`, `forward_ignored`, `filter_unscanned` | | the smallest instances | violated: see section 6 |

### The bounds, and why they are enough

* *Store.*  Two messages are needed so that a scan has a stale entry while another
  message is held.  Four actors in two processes give every pair of roles (writer
  and scanner in one process, a session that takes its own message back, two scanners in different ones).  The invariants speak of
  one message and at most two actors.  The theorems of section 5 have no bounds.
* *Server.*  Batches of two lines and a buffer of three (`Hard`), with the flow stopped
  at two (`Soft`), reach every case of the buffer: a line behind a busy one, a stopped
  flow, an overflow.  Two messages are what it takes to confuse one with the other.
  Two protocol errors reach the error limit.
* *Input.*  The longest sequence that the line buffer looks at as a whole is the five
  bytes of the end of the text; five more before it put each prefix of it, and each
  doubled dot, at each place relative to a cut.  A piece of four bytes holds a
  whole line ending with both its neighbours.  The flow is stopped at three bytes.
* *Client.*  Three recipients have a first, a middle and a last one; later messages
  show what the first leaves behind.  A pipelining client needs one message to fall behind with, and
  two of different lengths to confuse with one another: with this queue the exceptions that
  `DestroyedWasTaken` and `RightRecipients` make for pipelining are needed.  Three chunks have a first, a middle and a last.
  `mechanisms` is none or two, so that there is a next one and no next one.
* *Forwarding.*  Two messages: one that is at work and one that is next, or that another
  owner has taken.  One address that can be unreachable and one that cannot be parsed, beside the
  default, which is never noted as unreachable.
* *Filters.*  A chain of three has a filter before and one after the one that is at work.  Three
  starts let an answer of the first message reach the third.  In this run
  spamd keeps its connection open; `filter_unscanned` has the other case.
* *POP.*  The content of a message is shared by two users and the spool: three envelopes,
  of which the last two can go at the same time.  Messages do not influence one another.
* *Loop.*  With three objects one can be deleted, one created and one be at work;
  two descriptors make one of them be used again.  `Base` is 2 because a handler does
  at most two things between passes, and the clock ends at one tick after `Base`: in each
  state a timer is expired, immediate or still to come.
* *Connection.*  Room for three half lines makes the second line of two stop in its middle.  Eight are four
  lines: one in the kernel, one left over, two that the server keeps.  The peer is two items ahead of what is read.

### Deadlock

Deadlock is not checked, because each of these systems may stop: a session that is
closed, a client that is deleted, a spool directory whose messages have all been used,
a chain that has been started as often as it may.  That nothing stops too early is what the
liveness properties say.

### Fairness

Each condition is weak, but for four of `Connection`.  Nothing is expected of a peer except where it is said.

* `FileStore!FairSpec`: the steps of an object that owns a message, because each is
  driven by a timeout (idle, response, filter) or follows in the same call.  Submitters,
  scans, administrators and filters' deletions owe nothing.  `NothingStaysLocked` excepts
  the messages of a process that was killed, since nothing in the code renames an orphan `.busy` file.
* `ServerProtocol!FairSpec`: lines that have arrived are applied and timers fire, and
  verifiers, filters and forwarding clients report, as each has a timeout of its own.
* `ServerInput!InputFairSpec`: the same at the level of bytes; what was sent arrives.
* `ClientProtocol!FairSpec`: replies that have arrived are read and timers fire.  The server owes
  nothing: `EveryMessageEnds` holds although it may fall silent, because of the timer.
* `Forwarding!FairSpec`: the request timer fires, and the unit's `Forward` goes on, because its
  timers fire and its filter, its connection and each reply have a time limit.
* `Filters!FairSpec`: the timers fire, those of the program and of the network client included.
  spamd is expected to finish its answer or close the connection once it has begun, because
  no timer runs then (section 6).
* `EventLoop!FairSpec`: the loop goes on, a handler returns, and time passes.
* `Connection!FairSpec`: a running handler goes on and timers fire.  `RawWriteEvent`, `SslWriteEvent`,
  `SslReadFails` and `FlowOn` are strongly fair: between two events the user may begin something of its own
  again and again, but the loop asks the kernel for all events on every turn, so that one that keeps coming
  back is served.  The peer is expected to read what it is sent and to end a handshake that it began
  in the middle of a session; in the first handshake the client's timer expects nothing.
* `PopServer` has no liveness property: a POP session owes nothing to anybody.

## 4. What the properties say

Each is stated in a comment beside its definition.  In short:

* *Store*: `Exclusive`, `EnvelopeInv` (`OneEnvelope` and `VisibleIsComplete`), `NoAcceptedLoss`,
  `SentIsNotRequeued`, `ImplementsSpool`, `NothingStaysLocked`.
* *Server*: `RepliesInOrder`, `ReplyIsTrue` (`AcceptedIsStored` and `RefusedIsNotDelivered`), `DueIsAnswered`, and
  `SessionInv`, which joins `NoStrayEvent`, `ClearTerminates`, `WaitingIsAnswered`, `MessageIsOpen` and
  `NothingIsStranded`: what the state says, what is at work and what has a timer agree.
* *Input*: `SameMeaning`, `AllIsRead`.
* *Client*: `InStep`, `SessionIsReady`, `DestroyedWasTaken`, `RightRecipients` (`LeftIsOwed` and `AllOrNone`),
  `EveryMessageEnds`, `NobodyIsLost`.
* *Forwarding*: `OwnershipInv` (`LockedIsHeld` and `OneThingAtATime`), `UnreachableIsSkipped`,
  `RequestIsServed`, `OwnedWhileFiltering`.
* *Filters*: `OnlyOneWorks`, `AnswerIsEarned`, `EveryStartEnds`.
* *POP*: `LoginIsEarned`, `ContentInv` (`MailboxReadable` and `NoOrphanContent`), `DeletedWasAsked`.
* *Loop*: `ListsInv` (`SoonestIsRight` and `NoneDangling`), `EventIsOurs`, `TimersFire`.
* *Connection*: `InOrder`, `ConnectionInv` (`ResidueIsArmed` and `HandshakeIsClean`), `EveryWaitEnds`.

`NoAcceptedLoss` excuses a message that a filter deleted or delivered, for that is
what such a filter is for.

## 5. What is proved

For all values of the constants, under the assumptions that the modules name and that
TLC evaluates in every run.  The last column is what the proof supposes beyond those.

| Module | Theorems (property) | Supposed |
|---|---|---|
| `FileStoreProofs` | `TypeCorrect`, `MutualExclusion` (`Exclusive`), `EnvelopesAreSound` (`EnvelopeInv`), `AcceptedIsNotLost` (`NoAcceptedLoss`), `SentOnce` (`SentIsNotRequeued`), `Refinement` (`ImplementsSpool`) | nothing; crashes included |
| `ServerProofs` | `Invariance`, `TypeCorrect`, `NothingForgotten` (three parts of `SessionInv`) | nothing |
| `ServerProofs` | `InOrder` (`RepliesInOrder`) | `Ordered`: a peer that pipelines does not use BDAT |
| `ServerProofs` | `RepliesAreTrue` (`ReplyIsTrue`) | `Calm`: a peer that pipelines does not use BDAT, or the session has no forwarding client |
| `ServerProofs` | `Consistent` (`SessionInv`) | `Calm`, and `Sheltered`: a peer that pipelines does not use STARTTLS |
| `ClientProofs` | `Invariance` (`ClientInv`), `TypeCorrect`, `StaysInStep` (`InStep`), `NothingLost` (`DestroyedWasTaken`), `RecipientsAreRight` (`RightRecipients`), `SessionReady` (`SessionIsReady`) | nothing; what the properties except is said in section 6 |
| `ForwardingProofs` | `TypeCorrect`, `Ownership` (`OwnershipInv`), `UnreachableSkipped` (`UnreachableIsSkipped`) | nothing |
| `PopServerProofs` | `TypeCorrect`, `MailboxIsEarned` (`LoginIsEarned`), `NothingLeavesUnasked` (`DeletedWasAsked`) | nothing |
| `PopServerProofs` | `ContentIsKept` (`ContentInv`) | `SharedByCopies`: copies without content are for mailboxes by name and nothing is kept in the main directory |
| `FiltersProofs` | `TypeCorrect`, `OneWorks` (`OnlyOneWorks`), `AnswersAreEarned` (`AnswerIsEarned`) | `StaysOpen`: spamd does not close the connection after its answer |
| `NetProofs` | `TypeCorrect`, `ListsAreRight` (`ListsInv`), `EventsAreOurs` (`EventIsOurs`) | nothing |
| `NetProofs` | `InputTypeCorrect` (`InputTypeOK`), `MeaningIsKept` (`SameMeaning`) | nothing |
| `ConnectionProofs` | `Sound` (`ConnectionInv`), `Ordered` (`InOrder`) | `PatientPeer`: the peer asks for TLS when it has had all its replies |

Without `Ordered`, `Calm`, `Sheltered`, `SharedByCopies`, `StaysOpen` and `PatientPeer` the properties are false;
section 6 says how.

Next to none of the invariants is inductive.  What was added to each:

* *Store.*  That a visible message is whole follows from what its holder may still do
  to it.  `ActorInv` says per actor what the files look like at each `pc`: a writer's message has at
  most a `.new` envelope and is not published; a holder's has no `.new` or plain envelope, and
  whether `.busy` or the content may be missing depends on whether a filter has run or the removal
  has begun.  `MessageInv` says per message what goes with what: a plain or `.bad` envelope with whole
  content and no other envelope; a message that was sent with a `.busy` envelope or none.  For the
  refinement each step moves one message of the abstract store from one status to another, or
  changes nothing there; `statusBar` gives the status from the suffixes.
* *Server.*  `InputInv`: who owns the buffer, when it is being drained and what keeps it waiting.
  `WorkInv`: for each state which of verifier, filter and forwarding client is at work and how the
  one-shot signal stands.  `ForwardInv`: the message that a forwarding client has is one that was committed.
  `FateInv`: only the session's own message is undecided.  `EndInv`: a closed session has none of it.
  These hold whatever the peer does.  A line that comes while the session is at work but not busy (in
  `BdatProcessing` or `StartingTls`) leaves it as it is or clears it, and what a clear leaves behind is in three
  parts that depend on the peer: nothing is owed once the work has ended (`OrderInv`), no forwarding client goes on
  and what submitters were told is true (`CalmInv`), and nothing disturbs the TLS handshake (`StrayInv`).
* *Client.*  The invariant says for each state of the protocol what may be on its way: commands
  that the server has not answered, replies that the client has not read (`StateInv`, `ExchangeInv`);
  how the reject list, the recipients and what the server has taken agree (`TransactionInv`); and what
  became of messages before and after the current one (`QueueInv`).  With pipelining a whole batch may be
  on its way, `MAIL` and its recipients: what is left of it is in its order, and the server has dealt with
  the commands whose replies have come, read or not (`BatchInv`).  That is a client in step (`Inv`).  A
  pipelining client whose `MAIL` is refused is in step no longer, because it gives the message up with replies
  still to come, and `Behind` says what remains: on the wire recipients follow their `MAIL` (`BehindWire`), so
  that the server never mixes those of two messages; and without BDAT there are always more replies to come
  than the current message asks for (`BehindCount`), so that the client never reads a 354, sends no content
  and takes no message for sent.  `ClientInv`, one or the other, is inductive.
  `SessionReady` needs only `SecureInv`, which holds whatever is on its way.
* *Forwarding.*  `Steady`: for each `Forward` which of its timers runs, with what message and what client.
  A message is locked exactly while an owner holds it (`LockedIsHeld`).  That `Min` of a finite set of
  message numbers is in it needs that `<` is well-founded.
* *POP.*  `SessionInv`: what each state has proven, holds and is removing.  `KeptInv`: where contents are
  shared, only the sub-directories refer to them, each list names the main directory's content, and a content
  that nobody refers to any more is the one at which a session is working; otherwise each
  envelope has a content beside it.  Handlers that only read a list or give one up are dealt with in
  one lemma (`CalmInv`).
* *Filters.*  `Sound`: a filter has one thing going on at a time (a program, an unanswered request or
  a timer), and what its timer is going to say is what it found out about the current message.  `Passed`:
  the filters before the one that is at work have passed the message, and those behind it have not
  seen it.  A handler starts the next filter in the same call, so that the invariant is stated of
  filters and timers that are not yet those of the state (`Working`).
* *Event loop.*  `OwnedInv`: no soonest timer is cached during a pass, and each live object's
  descriptor has its handler.  `HarvestInv`: the events of the batch that are still to come and the
  sequence number of who waited for them.
* *Input.*  `InputInv`: where the line buffer stands, a reader of the whole stream would stand as well,
  with the same events behind it and the same kind of thing before it (`ReaderInv`).  Inside a line of
  text of which a part has been given out, that needs more (`LineInv`): at least two bytes of it have been
  given out, they are not the beginning of the line that is a single dot, and the cut is not in the
  middle of a line ending.  This is what `Trivial` and `Residue` are for.  What the reader makes of several bytes
  (`Skips`, `Copies`) is induction over the stream, done as an argument about the least byte at which
  the claim fails (`Least`, from the well-foundedness of `<`); that `Reading` is defined at all is proved in the
  same way.
* *Connection.*  `SendingInv`: when something is left over, what will send it.  `LibraryInv`: what the TLS
  library knows and owes in each state.  `HandshakeInv`: from the moment at which the peer may ask for
  TLS until the handshake is over, nothing is left over, kept or in the kernel.  `ClosedInv` and
  `OpeningInv`: what there is before the connection and after it.  `Ordered` adds that no step changes the
  concatenation of what has arrived and what waits, except a line that is added at its end (`OrderInv`).

Each action has a lemma that it preserves the invariant.

Only model-checked: that the reader of `ServerInput` agrees with the RECURSIVE `Meaning`, and everything
about liveness, because fairness and ENABLED are beyond the prover: `NothingStaysLocked`, `DueIsAnswered`,
`AllIsRead`, `EveryMessageEnds`, `RequestIsServed`, `EveryStartEnds`, `TimersFire` and `EveryWaitEnds`.

## 6. Disagreements met on the way

Each of these is a run that TLC finds violated, and an entry under `findings`.

1. `client_lost`: `Client::protocolDone()` takes a list of rejected recipients to mean that the
   others have been served.  With `--forward-to-all`, the default, nothing was sent, and
   those others are lost.  With `--forward-to-some` the same happens if the server
   then refuses the content.
2. `forward_ignored`: a message that its routing filter says to ignore, or whose address
   cannot be reached, stays with `Forward` after the filter is done.  If the scan ends there
   the message is failed.
3. `filter_unscanned`: when spamd closes its connection after an answer and the next
   message is started in the same turn of the event loop, the timer of the lost
   connection passes that message before spamd has seen it.

Seen in the models, without a run of their own:

* `inBusyState()` does not list `BdatProcessing` (`gsmtpserverprotocol.cpp:135`), so commands
  pipelined behind `BDAT LAST` are answered before the message is.  In proxy mode an `EHLO` there
  clears the session while its message is still being forwarded, and the late result is taken for
  the next message's.  Chunking is off by default.  `server_session` has the peers
  that do not pipeline BDAT.  Without a forwarding client only the order suffers: what submitters are
  told is true all the same (`RepliesAreTrue`).
* Commands pipelined behind `STARTTLS` are applied in the state `StartingTls`, which is not busy.  A command that
  leaves that state makes the end of the handshake a protocol error, which closes the connection
  (`NoStrayEvent`); nothing else comes to harm.
* A rejected BDAT chunk ends the message but not the state (`gsmtpclientprotocol.cpp:484`); the next
  message of the queue is failed unsent.
* With client pipelining, which is off by default, a rejected `MAIL` ends the message while
  the replies to its `RCPT` commands are still to come (`gsmtpclientprotocol.cpp:394`), and a
  server that falls silent between two `RCPT` replies is waited for without a timer, since
  `sendRcptTo()` sends nothing and so starts none.  `InStep` and `EveryMessageEnds` are for sessions
  without pipelining.  From then on the client reads late replies.  A recipient is reported as
  rejected who was not, or the reverse (`LeftIsOwed` is for sessions without pipelining).  With `DATA`
  no harm comes to the messages themselves, since the client never reads the 354 that it would need
  (`NothingLost`).  With BDAT, also off by default, it can, if the server takes a
  `MAIL` in the middle of a transaction for a new one.  Of three messages with one recipient each the
  first has its `MAIL` refused.  The refusal of its recipient fails the second.  The third goes on with the
  replies to the second's `MAIL` and `RCPT`, sends its only chunk, takes the reply to its own `MAIL` for
  that to `BDAT LAST` and is destroyed, whatever the server then makes of its recipient and its
  content.  `DestroyedWasTaken` and `AllOrNone` except this combination.
* If the last content line has no end and blocks the socket, the "." is sent to a socket that is
  still busy, which is an exception (`LastLineBlocked`); the message is failed.
* The epoll loop keeps the events of a descriptor from an object that is given the same
  number by a handler before it in the same batch, by a sequence number.  The number moves on
  after `doTimeouts()` (`geventloop_epoll.cpp:164-172`), so that what a timer's handler does is
  not covered.  In `event_loop` the objects that a timer's handler creates are there, and
  `EventIsOurs` speaks of the events from when their turn comes.
* `PopStore`'s `shared()` does not count an envelope of the main directory that is locked or has
  failed (`gpopstore.cpp:363`), although `doc/reference.md:1769-1774` says that the content stays
  while there are "other envelope files with the same name", and a forwarding client that destroys
  its message removes the content whatever copies refer to it.  `pop_mailboxes` has the
  configurations in which neither loses anything.
* `SpamClient`'s response timer is cancelled by the first line of the answer and not started again, so that a
  spamd that stalls keeps the filter waiting despite `--filter-timeout`
  (`doc/reference.md:187-190`).
* A message with a `forward-to-address` that cannot be parsed and without a routing filter ends
  every scan that comes to it, so that the messages behind it are not forwarded.
* STARTTLS behind replies that have not left: `rawReset()` (`gsocketprotocol.cpp:762`) discards the rest of them
  but the session still takes its output for blocked, so that nothing is ever sent
  again.  With `Patient = FALSE` TLC finds it at once.
* `SocketProtocol::writeEvent()` is said to throw `SendError` on error (`gsocketprotocol.h:98`).  With TLS it sets
  `m_failed` and returns (`gsocketprotocol.cpp:528-534`); the connection ends when the next read fails.
* `Protocol::read()` must not be called while a `write()` is incomplete (`gssl.h:63-66`).  The `more` loop of
  `sslReadImp()` calls `onData()` in between, which may send; the read that follows drops the write handler
  and sets the state to idle, and the write is forgotten.  Only a read buffer
  smaller than a TLS record (`G_LIB_SMALL`) has `more`; for these builds `ConnectionInv` and `EveryWaitEnds`
  do not claim it.
* A SOCKS request that is sent in two pieces puts the client into the connected state without the SOCKS
  server's answer (`gclient.cpp:323-332`), which the protocol then reads; and while that answer is waited
  for in the other case no connection timer runs.
* `gpopserverprotocol.cpp:161` says that flow control is not an issue for POP responses.  One that is sent while the
  socket is blocked is an exception that ends the session.
* `doc/reference.md:652-654` says of filters in general that a failure gives the envelope a
  `.bad` suffix.  A server-side filter's failure deletes both files (`FilterReject`), as the test
  suite expects.
* `MAIL SIZE=` accepts a size that is equal to the limit (`gsmtpserverprotocol.cpp:851`),
  and the content of that size is then refused (`gnewfile.cpp:149`).  Sizes are not modelled.

## 7. What is left

In the order in which it would be worth doing:

1. Verifiers as modules of their own: a program and a network request, as filters are now.
2. The command interface of the administration server: what it does when a second command comes
   while the first is at work, and its notifications.
3. Faults of single file operations (a full disk, a permission) beyond those that another actor's
   step brings about.
4. Accepting connections (`gnet`: `Server`, the connection limit) and the ordered shutdown of one.

### Not modelled

* *Text*: the arguments of commands, the wording of replies, envelopes and headers, codecs,
  options, logging.  A model sees that an argument is valid or not, that a reply says
  yes or no, that an envelope can be read.
* *The order in which replies leave* (`sendFlush`): the models have the order in which they are made.
* *The network*: DNS and DNSBL queries and the TLS libraries' adapters succeed or fail.  Accepting
  connections, limits on them and the ordered shutdown of one are left out.
* *Secrets*: a password is right or wrong.
* *The select loop and Windows*: the epoll loop is what a Linux build has.
* *The submission tool, the graphical configuration tool, the installer, start-up*: they configure the
  system or write one message with the same class as the server.
* *The queries of the POP and administration protocols*, which change nothing.

The vendored and generated parts, the tests, and the documents of the repository are references, not
parts of the system.

## 8. Running

| Run | Command |
|---|---|
| `store_spool` | `tlc -config FileStoreSpool.cfg MCFileStore` |
| `server_session` | `tlc -config ServerSession.cfg MCServerProtocol` |
| `server_input` | `tlc -config ServerInput.cfg MCServerInput` |
| `client_session` | `tlc -config ClientSession.cfg MCClientProtocol` |
| `client_lost` | `tlc -config ClientLost.cfg MCClientProtocol` |
| `forward_scan` | `tlc -config ForwardingScan.cfg MCForwarding` |
| `forward_ignored` | `tlc -config ForwardingIgnored.cfg MCForwarding` |
| `filter_chains` | `tlc -config FilterChains.cfg MCFilters` |
| `filter_unscanned` | `tlc -config FilterUnscanned.cfg MCFilters` |
| `pop_mailboxes` | `tlc -config PopMailboxes.cfg MCPopServer` |
| `event_loop` | `tlc -config EventLoopTurns.cfg MCEventLoop` |
| `connection` | `tlc -config Connection.cfg Connection` |

`tlapm M.tla` checks the proofs of `FileStoreProofs`, `ServerProofs`,
`ClientProofs`, `ForwardingProofs`, `PopServerProofs`, `FiltersProofs`, `NetProofs` and `ConnectionProofs`.  The community modules
`SequencesExt`, `FiniteSetsExt`, `Functions` and those that they extend must be on the path of both tools.
