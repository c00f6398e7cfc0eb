# PDNS-RouteManager in TLA+

PDNS-RouteManager is a daemon that listens to the remote logger of a PowerDNS
recursor and, for every address a DNS answer contains, installs a host route
through one network interface, together with a blackhole route of higher metric
(the "kill switch": while the real route is missing, traffic to the address goes
nowhere).  Routes are removed when the ttl of the answer, plus an extra time,
has passed.  This directory models the daemon (`src/Src/`), checks the models
with TLC and proves what matters most about them with TLAPS.

## 1. Inventory

The program is a handful of components, most of them with a thread of their own.
There are no message queues between threads: a component that sends a message
calls the handlers of its receivers, in its own thread, through the
`MessageBroker`.

    PowerDNS --TCP--> DNSReceiver --RouteRequest--------------------+
                                                                    v
    kernel --netlink--> NetDevTracker --NetDevUpdate, RouteAdded, RouteRemoved--> RoutingManager
       ^                                                            |
       +------------------------ netlink requests ------------------+
    DNSReceiver, NetDevTracker --ShutdownMessage--> ShutdownHandler --SIGUSR2--> Main

| Component (`src/Src/`) | State | Operations | What is hard | What makes it correct |
|---|---|---|---|---|
| `RoutingManager` | socket, clock, interface configuration; `pendingInserts`, `pendingRetries`, `activeRoutes`, `pendingExpires` (a multimap of "expire marks") | `InsertRoute` (DNS thread); `ConfirmRouteAdd`, `ConfirmRouteDel`, `ProcessNetDevUpdate` (tracker thread); `ManageRoutes` (own thread); `Startup`, `Shutdown` | three threads under one lock; requests whose answers are never read; confirmations that come late or never; retries, expiration, a work budget per run computed in floating point | an address is in one container; nothing is dropped early; everything is dropped eventually; requests agree with the containers; the loop over the marks never runs dry |
| `InterfaceConfig`, `ImmutableStorage` | an immutable value, replaced as a whole | add/remove address, set state, set type, `isIPV4Avail`, `isIPV6Avail` | - | the tests are those the callers need |
| `NetDevTracker` | its `InterfaceConfig`, the netlink socket | snapshot (`getifaddrs`), then one handler per notification type | the snapshot is not atomic; notifications name an interface by index, looked up later; the buffer overruns; the thread waits for the manager's lock | with everything read, what it published is true |
| `DNSReceiver` | sockets, parser state (`headerPending`, `dataLeft`, `dataSize`, buffer) | three nested loops: open, accept, read | TCP cuts the stream anywhere; connections break in a frame; every wait has to see the shutdown flag | what is decoded is what was sent; the thread stops |
| `MessageBroker` | subscribers, `callers` (senders by thread) | `SendMessage` | re-entrant calls, a pointer to a set on the stack of the outermost call | recursion ends; nobody else is refused |
| `Main`, `WorkerBase`, `ShutdownHandler` | arguments and parameters, signal mask, worker threads, loggers, `shutdownRequested`, `ec` | parse, build, start, `sigtimedwait` loop, ask, join, destroy; `OnMessage` | options come in any order, repeated or left out, with defaults computed from others; signals merge; workers fail at once; order of joins | what is accepted is safe; every failure and every signal ends the program; the manager is closed last; loggers outlive threads |
| `IPAddress` | sixteen bytes and two flags | from raw bytes, a socket address or a string; `Equals`, `Less`, `Greater`, `GetHashCode` | all sixteen bytes are compared and hashed, also those an IPv4 address does not use | the same bytes give the same key, from anywhere; the order is total and agrees with equality |
| `StateSaver` | a stub with a thread | sleeps; started with `-fr` only | joined last, or not at all | as for the other workers |
| logging | one lock for all loggers, two streams | a `LogWriter` holds the lock while it lives, and ends its line | the end of a line goes to a buffered stream, whatever the stream of the line; the lock is taken inside handlers | a line is the work of one statement; nobody waits for ever |
| `dnsmessage.proto` | - | generated code | - | external |

`PROJECT.json` lists the components, the hazards at their lines, the runs, the
map from definitions to source lines, and the findings.

## 2. The modules

| Module | Models | State and actions |
|---|---|---|
| `InterfaceConfig` | the value class | one operator per method |
| `RouteLease` | abstract: what the manager promises | a clock and a lease per destination; `Request` extends, `Adopt`, `Expire` not before the deadline |
| `RoutingManager` | `RoutingManager.cpp` | the four containers are the record `routes`, `netlink` holds the requests a handler has sent and the kernel has not yet taken |
| `NetDevTracker` | `NetDevTracker.cpp` | the thread's control state, `cfg` (cfgStorage), `published`; external: the interface, the socket's queue and its overrun |
| `RouteSystem` | manager + tracker + kernel | INSTANCEs of the two above (`published <- ifCfg`), the kernel's routing table `fib`; history variables `origin`, `confirmed`, `inherited`, `missed`, `lost` (requests that failed, their effect still missing) |
| `DNSReceiver` | `DNSReceiver.cpp` | the loops as control states, the parser's locals, `outbox` (the requests of a payload still to be handled, by record), the client's side of the connection; history: `sent`, `handled` |
| `IPAddress` | `IPAddress.cpp`, `IPAddress.h` | one operator per constructor and comparison; the receiver makes its addresses with them |
| `CommandLine` | the arguments of `main` | one operator per check; what a check makes of an argument is a record |
| `Lifecycle` | `Main.cpp`, `WorkerBase.cpp`, `ShutdownHandler.cpp`, `StateSaver.cpp` | Main's control state and what is left of the list it is going through; the handler's three steps; extends `CommandLine` |
| `MessageBroker` | `MessageBroker.cpp` | `callers` and a call stack per thread |
| `LogWriter` | `LogWriter.cpp`, `StdioLogger.cpp`, `StdioLoggerFactory.cpp` | the lock, the writer that lives, the buffer of `std::cout` and what is shown after the last newline |
| `Delivery` | `MessageBroker` + `LogWriter` + the locks of the receivers | extends the one, INSTANCE of the other, `opLock` by subscriber |
| `RoutingManagerProofs`, `NetDevTrackerProofs`, `LifecycleProofs`, `MessageBrokerProofs`, `DeliveryProofs`, `DNSReceiverProofs` | theorems about these modules, `DNSReceiverProofs` also about `IPAddress` | |
| `RouteSystemProofs`, `ActiveRouteProofs` | theorems about `RouteSystem` | INSTANCEs of the proofs of the manager and the tracker |
| `MC*` | values for TLC | `Delivery` is checked as it is |

### How code becomes actions

*RoutingManager.*  Every handler and `ManageRoutes` take `opLock` in their first
line and hold it to the last.  What a handler does to the containers is one
action (`InsertRoute`, `ConfirmRouteAdd`, ...), guarded by `LockFree`, with every
call the handler makes folded into it: `ProcessNetDevUpdate` stores the
configuration, invalidates routes and pushes the pending ones.  The requests it
sends go to `netlink`, the kernel takes them one at a time (`NetlinkSend`), and
the handler returns when all are taken (`Return`): the other threads may do
anything that does not need the lock in between.  The loop of
`_ProcessStaleRoutes` is unrolled, one `EvaluateMark` per iteration.
`ReadyForMessage` is asked by the broker without the lock, so that the answer
may be stale when the handler is entered (`Enter`).
The multimap is a bag of marks; `Front` allows any of the marks of the least
time to come first, which includes the order of insertion that the library
keeps.  `StaleBudget(n)` computes `n / 100 * MgPercent` as the code does, in single
precision: the conversion, the quotient and the product are each rounded to the nearest float
(`Nearest`), in fixed point (`Scale` stands for 1), with `FloatBits` significant bits, 24 in the
code; the result is then truncated.  It may exceed `n`: section 3 says when.

*NetDevTracker.*  `OpenSocket` subscribes; `DumpLinks` and `DumpAddrs` are the two
dumps of `getifaddrs`, between which the kernel may do anything; `Deliver` is
`SendMessage`: the handler does its work (`Handle`) and returns (`HandlerReturns`), or the broker
drops the message (`Drop`).  A notification is looked up by name (`NameMatches`) in
`Receive`, against the interface as it is at that time.  The kernel removes an
interface in the order the kernel uses: down (a link notification), unlisted,
then the notifications of the addresses and of the link.  One datagram carries
one notification.  IPv6 addresses have no peer.  The peer of a point-to-point
interface is read from the snapshot only, as in the code.  There is no interface
while its index is 0, and the addresses it may have are finitely many (`TrackerAssumption`).

*RouteSystem.*  The variable `out` of the tracker is offered to the manager
(`Offer`, or `Drop` when the manager is shutting down), handled (`Handle`) and
returned from (`HandlerReturns`) in the tracker's thread; the actions of the same names in
`NetDevTracker` are the tracker's half of them, so that each step of the system is a step
of the tracker, or leaves it alone, and of the manager likewise.  The kernel's table is
external: a unicast route through an interface that goes down disappears without
an announcement, and so does an IPv4 route when the last IPv4 address goes;
re-adding a route that is there may or may not
be announced; blackhole routes are announced too, but the tracker's filter
drops them, so this is left out.  IPv6 is another matter (`GoneWithLink`, `LinkDown`): when a link goes
down the kernel sends RTM_NEWLINK, then RTM_DELROUTE for each IPv6 route, then
RTM_DELADDR for the IPv6 addresses, unless it is told to keep them.
Any request may come to nothing (`LoseRequest`; `MayFail` says of which types): `send` fails, which
the code only logs, or the kernel refuses it, in an answer that nobody reads.  The manager goes on
as if it had taken effect, also when it forgets a route whose removal failed.  `lost` keeps the
requests that failed until the table is as they wanted it, by whatever means.

*DNSReceiver.*  `Base` stands for 256.  `ReadPart`, `ReadHeader` and `ReadPayload`
are the outcomes of one `read`: it asks for `dataLeft` bytes and gets any number
of those that have arrived.  `handled` has every payload read, an empty one as soon as its header
is there, also one that does not parse.  The requests of a payload are handled one by one, in the
order of its records (`Deliver`).  A wait that a signal interrupts leaves its loop with what has
arrived unread (`Interrupted`), which is a state of its own until the sockets are closed: a client
that closes its side is read to the end first (`Disconnected`).  Protobuf is external: `Decode` gives the records of a
payload, and a payload outside its domain does not parse.  A second client in the
backlog is not modelled: it is reset when the listening socket is closed.  The
addresses of the requests are values of `IPAddress`, built where the buffer is the memory
that happens to be there; an IPv4 address has one byte and an IPv6 address three.

*Lifecycle.*  `ParseArgs` reads and checks all arguments in one action, since nothing else
runs yet: a pair of an option and its value is two records, which say how the value looks
to each check (its length, what `atoi` reads, which `inet_pton` takes it).  `MaxInt` stands
for INT_MAX and `Succ` wraps around there.  `Startup`, `RequestShutdown`, `Shutdown` and
`DestroyLogger` deal with one worker per step.  `TERM` stands for HUP, USR1 and TERM, which Main treats alike.
Pending signals are a set: two SIGUSR2 merge.  The exchange of the flag, the store
of the code and the `kill` are three steps, and Main, which also wakes up every
two seconds, may look in between.

*MessageBroker.*  What handlers do is external: any handler may send in turn, as any
sender.  No handler of this program does; the model shows that the guard would hold.

*LogWriter.*  A statement that logs is `Construct`, any number of `Write` and `WriteEndl`,
and `Destroy`.  A line is shown in a file for each stream or on a terminal that shows both;
`shown` keeps whose text follows the last newline there, and the text itself is left out.
The newline of the destructor goes to `std::cout`, also for a line of `std::cerr`: that is
harmless only because every `Error()` of the program ends with `std::endl`.  `Destroy` itself takes
any line; `StatementComplete` states this fact about the statements (checked by reading them)
where the steps of a thread are composed.

*Delivery.*  A handler of a subscriber in `Locked` takes its lock first, sends nothing
while it holds it, and logs; so do threads outside of handlers.  A line is written without
a break by its thread: no other step of that thread, but any step of the others.

## 3. What the runs check

Deadlock is checked in every run; a program that has ended stutters (`Ended`,
`Finished`).

| Run | Properties | What it shows |
|---|---|---|
| `manager` | `TypeOK`, `PendingXorActive`, `ActiveRouteHasItsMark`, `RetryBudget`, `LoopNeverRunsDry`, `SocketOpenWhileSending`, `RequestsMatchState`, `LeaseSpec` | the containers stay consistent under every interleaving of answers, notifications, the worker, failed startup and shutdown; no lease is lost or shortened (`RouteLease` is implemented) |
| `manager_live` | `ExpiredRouteIsDropped`, `PendingRouteIsSettled`, `ShutdownEnds` | expired routes go once losses stop, pending ones are settled once answers that extend them stop, and the worker ends on request, although only half of the marks are evaluated per run and it competes for the lock |
| `tracker` | `TypeOK`, `AddressesKnown`, `UpIsReal`, `TypeKnownWhenUp`, `NotificationsAreRead`, `ShutdownEnds` | the snapshot race is harmless; the tracker catches up with a kernel that rests and ends on request under one that does not |
| `system` | `KillSwitchInPlace`, `NoLeftovers`, `ActiveIsInstalled` | with everything settled, the manager's view and the table agree; an address a DNS answer asked for is covered by its blackhole during the whole lease; each with the exception of a request that failed, and any request may fail; also after a restart that finds the routes of the previous run, and for an interface that loses and gains two addresses at any time |
| `system_ipv6` | `ActiveIsInstalled`, `RoutesAreCleared` | for an IPv6 destination even a late confirmation does no harm, since the removal of its route is announced; and the routes to an address nobody asks for any more leave the table in the end, unless a request to remove them fails, though the kernel refuses routes and the tracker's thread may be stuck, or gone after a signal |
| `receiver` | `TypeOK`, `PayloadsAreThoseSent`, `NothingIsKeptBack`, `OrderIsTotal`, `SameBytesSameKey`, `FramesAreDecoded`, `ShutdownEnds` | the parser decodes what was sent, wherever TCP cuts the stream and whenever connections break, in full also if the client closes the connection behind it; the addresses it hands on compare, sort and hash as those from any other source |
| `lifecycle` | `TypeOK`, `ParametersAreSafe`, `ManagerIsStoppedLast`, `LoggersOutliveThreads`, `OnlyFailuresEndIt`, `FirstErrorStays`, `ProgramEnds` | the components get parameters they can work with; failures and signals end the program, in the right order, and nothing else does |
| `delivery` | `CallersAreOnTheStack`, `OutermostIsServed`, `LinesAreWhole`, `CallsReturn` | recursion ends, no dead set is left in the map, and a sender is refused only inside its own call; lines stay whole; all that while threads wait for the receiver's lock and the log's |

Four more runs state what the code's comments say and are violated by it:

| Run | Violated | What happens |
|---|---|---|
| `tracker_link_loss` | `LinkLossIsSeen` | `if_indextoname` fails for an interface that is gone, so `RTM_DELLINK` is skipped; an interface that is removed before its link-down notification is read stays "up" |
| `tracker_up_unseen` | `UpInterfaceIsPublished` | the snapshot takes an interface without addresses to be down, and the notification of its first address does not correct that; no route is pushed until the link changes |
| `late_confirmation` | `LateConfirmationIsInstalled` | a confirmation read after the loss of the family makes the route active, and the later loss of the link invalidates nothing |
| `answer_no_blackhole` | `AnswerPushesBlackhole` | a route that became active by a late announcement has no blackhole, and the next DNS answer returns early |

Four more observations have no run.  Main may look between the exchange of
`shutdownRequested` and the store of the error code, and then calls the shutdown after a
failure graceful (`Main.cpp:259`), which only concerns a log line.  And the notification of
the manager's own removal may be read when a late announcement has made the route active
again; it is then taken for a loss and the route is re-added (`RoutingManager.cpp:257`).
What matters of that is checked: nothing is left behind (`NoLeftovers`) and the table is
cleared in the end (`RoutesAreCleared`).

The third came out of the attempt to prove `ActiveIsInstalled`.  While the tracker takes its
snapshot, somebody adds the IPv4 route to an address, the only IPv4 address of the interface is
deleted, which takes the route away without an announcement, and another address is added.
The snapshot shows the new address.  The notifications are read after it: the
route is confirmed, the address that goes is not the last one the tracker knows of, so IPv4
stays available, and the manager believes the route to be there until its lease ends.  The
history variable `missed` marks such destinations and `ActiveIsInstalled` excepts them;
all else that happens around a snapshot is covered.  This is why the run has two addresses: if
the same address comes back, the tracker, on reading that it went, takes IPv4 to be unavailable
for a moment, and the route is invalidated.

The fourth is about the budget of `_ProcessStaleRoutes`.  With 13 107 201 expire marks and `-mp 100`
the three roundings of line 316 give 13 107 202, one more than there are: if all marks have
passed, `begin()` of an empty multimap is dereferenced.  It is the least number for which any
percentage does that (all of them were computed, by a C program, up to 14 million marks).  Such numbers are
out of reach of a run; `LoopFindsMarks` proves that up to 2^22 marks nothing of the kind happens.

### Bounds

- `MaxTime`: the clock and the expiration times stop there; at the bound the worker
  takes its interval as passed, so it goes on managing.  4 (`manager`) is enough for
  a lease to be asked for, extended, lost, re-added and to expire with ttl 0 or 1.
- `MaxMarks`: marks and pending routes.  Messages that would exceed it are not
  delivered (`AnswerBeyondBounds`, `BeyondBounds`); the worker is never blocked by
  it.  3 is enough for two marks of one address, one of them stale, beside
  the other address.
- `AddRetryCount` 3 in `manager` (the first retry is counted as try 2, so the budget
  is used up after two retries).  With `-mr 1` the code still makes two tries: that
  is why `RetryBudget` allows `max(2, AddRetryCount)`.
- `QueueMax`: 2 notifications fit the tracker's buffer: enough for one to be read late, for
  two to be reordered against the manager's own steps, and for an overrun.
- `MaxIdx`: the interface is created up to twice in `tracker`.
- `FloatBits` 7, the least for which 100 is exact; 24 in the code.  The theorem holds for any.
- `MayFail`: every type of request in `system`; additions and removals of the unicast route in `system_ipv6`, where
  the failures of the others change nothing the two properties do not except.
- `MaxTime` 1 in `system`: a lease begins, is extended, lost or given up, and ends.  What is proved of the
  composed system has no such bound.  Its two addresses are symmetric: no definition names one.
- `MaxChanges`, `MaxAdmin`: changes of the interface and by somebody else in `RouteSystem`.
  Two changes are a loss and a return.  After a restart nobody else changes routes.
- `system_ipv6` has `QueueMax` 3, since one change of the link is up to three notifications, and
  `MaxChanges` 1: the link may be up or down at first, so both a loss and a gain are seen.
- `MaxLines` 2 in `delivery`: the least for one line to run into another; `LogIsWhole` proves it for any.
- `MaxInt` 65535 in `lifecycle`, the least that holds a port; the proof has no bound.  The command
  lines of `MCLifecycle` leave out, repeat and mix up each kind of option.
- `HashLen` 2 with addresses of three bytes: the hash wraps around, as sixteen bytes in a `size_t`.
- `MaxFrames` 3 per connection, any number of connections; payloads of 0, 1, 2 and 3
  bytes with `Base` 2, so that both bytes of a header count and the longest payload
  has the largest size a header can hold.

### Fairness

Threads that can run do run (`WF` on the steps of a thread).  More is asked only
where the code waits for something that comes and goes:

- `SF_vars(ManageRoutes)`: a worker that waits for `opLock` gets it in the end although
  the handlers take it again and again.  A mutex does not promise that; on
  Linux it is what happens, since the handlers block in `recvmsg` or `select` between calls.
- `SF_vars(TakeSignal("TERM"))`: `sigtimedwait` may return SIGUSR2 before a SIGTERM that is pending
  as well (lower numbers come first).  The handler sends SIGUSR2 once; this assumes of everybody
  else that they do not send it so fast that SIGTERM never gets its turn.
- `SF` in `Delivery`: on the end of a handler at each depth (it makes finitely many calls of its
  own), on taking a receiver's lock (as above), and on the end of a line, which is a finite
  expression.
- `RouteSystem` takes over the fairness of the manager (`Mgr!Fairness`) and none of the tracker: what
  clears the table must not depend on a thread that may be stuck or gone.

No message, signal, confirmation or kernel event is ever promised, and neither are
startup and shutdown.  `ExpiredRouteIsDropped` is stated under `LossesStop`: if
routes are lost and confirmed again for ever after their expiration, each loss adds a
mark before the others and a worker with a small percentage may never reach the
rest.  `PendingRouteIsSettled` is stated under `AnswersStop`: each answer that extends a pending
lease erases its count of tries (`RoutingManager.cpp:385-388`), so an address that is asked for
more often than every `-mr` times `-mi` seconds, and whose route the kernel never confirms, stays pending for ever.
`RoutesAreCleared` is stated under `RestComes`: nobody else changes the table, and from some moment on nobody asks for
an address and the interface stays as it is.  It excepts what the code does not clear: a route whose removal
failed, which is not repeated; a shutdown leaves the table as it is (a TODO of
`Main.cpp`), and while the family of an address is not available its blackhole stays.
In the bounded models answers run out anyway, with `MaxTime`; the hypotheses say what the
properties owe to that.

## 4. What is proved

`RoutingManagerProofs` proves, for every set of destinations (finite), every set of
configurations, every ttl, interval, percentage in 1..100, retry count and bound
(`ParametersAssumption`: what Main validates; `FloatAssumption`; `InputsAssumption`):

| Theorem | States |
|---|---|
| `TypeCorrect` | `Spec => []TypeOK` |
| `ContainersAgree` | `PendingXorActive` and `ActiveRouteHasItsMark` always |
| `TriesStayBounded` | `RetryBudget` always |
| `RequestsAreCurrent` | `SocketOpenWhileSending` and `RequestsMatchState` always |
| `LoopFindsMarks` | `LoopNeverRunsDry` always, if `4 * MaxMarks <= Digits`: up to 2^22 marks, for a float of 24 bits |
| `ImplementsLease` | `Spec => LeaseSpec`: the manager implements `RouteLease` |

The inductive invariant `IInv` joins the properties with `Control`: only a thread
that holds the lock may have requests under way, and only one thread holds it.  That is
what is missing from the properties alone: `RequestsMatchState` survives a handler because
the handler starts with an empty `netlink` (`FreeSocket`), which follows from the
lock; and `SocketOpenWhileSending` survives `Shutdown` because senders and worker
are joined.  `Good(r)` is the part about the containers, as a predicate of any value of
them; there is one lemma per internal operation (`FinalizeRouteInsertGood`,
`FinalizeRouteDeleteGood`, `CountTryGood`, `ProcessPendingInsertsGood`) that says it is
preserved and what becomes of the expiration times, and one lemma per handler that composes
them.  The refinement reuses the second half of these lemmas: each handler either leaves
every lease alone or makes one `RouteLease` step.  `LoopNeverRunsDry` is proved on top of
the invariant: marks and pending routes stay within `MaxMarks` (`LoadStep`), up to which the budget is at
most the number of marks (`StaleBudgetBound`), each
iteration takes exactly one copy of a mark (`SizeOfRemoval`), and nobody else changes the
marks while the worker holds the lock.  For the budget, one rounding errs by half a spacing at most,
which is at most one part in `Digits` (`NearestBound`).  Three of them make the product at most
`n` and a few parts in `Digits` (`ThreeRoundings`), less than `n + 1` for the
`n` of the theorem, so truncation takes the excess away.

`NetDevTrackerProofs` proves, for every finite set of addresses, every buffer size and any number
of times the interface is created (`TrackerAssumption`):

- `TrackerTypes` (`TypeOK`) and `TypeIsKnown` (`TypeKnownWhenUp`);
- `UpIsTrue` (`UpIsReal`) and `AddressesAreTrue` (`AddressesKnown`).

These two speak of a tracker with an empty queue, so they say nothing of the steps before.  The
invariant `Agrees` does: the last notification queued about the link agrees with the link, and
where there is none the tracker's configuration does (or, between the two dumps, what the first
has seen); and the same for each address.  Notifications about the interface are those with its
present index, which is how the name lookup behaves: those of an interface that is gone are not
counted, and not acted on.  That is why only half of it holds once an interface was removed.
Each step of the kernel queues at the end (`NotifyOne`, `LinkChangePosts` and the lemmas after
it), each read takes from the front, and the snapshot is a step like any other: that it is two
dumps with changes in between needs no argument of its own.

`LifecycleProofs` proves, for all command lines and error codes:

- `ManagerLast` (`ManagerIsStoppedLast`) and `ThreadsAreJoined` (`LoggersOutliveThreads`).  The
  invariant `Progress` says what Main has left of the list it is going through, in each of its
  loops, and which workers are started or joined by then.
- `FirstError` (`FirstErrorStays`).  The invariant `Claims`: the code is stored by one worker at
  most, the one that won the exchange, and only while it is still 0.
- `NothingElseEndsIt` (`OnlyFailuresEndIt`).  The invariant `Requested`: without a failure there is
  no request, nor one under way.
- `LifecycleTypes` (`TypeOK`).  What is not in `TypeOK` itself: Main starts nothing before the
  parameters are those of some command line, and only workers that can fail ever store a code.
- `AcceptedIsSafe` (`ParametersAreSafe`), for every length of command line and every size of `int`:
  a metric at its maximum makes the default blackhole metric negative, which the kernel reads as
  larger than any other.

`DeliveryProofs` proves that `DeliverySpec` implements the specification of the broker
(`BrokerIsUnchanged`), whose theorems hold under the locks as well (`GuardHoldsUnderLocks`), and
`LogIsWhole` (`LinesAreWhole`) for any number of lines.  Its invariant `LogInv` says that only the
last `LogWriter`, if it lives, has text that no newline follows.

`MessageBrokerProofs` proves, for all sets of threads, senders and subscribers (finite or not):

- `GuardKnowsCalls` (`CallersAreOnTheStack`) and `OnlyRecursionIsRefused` (`OutermostIsServed`).
  The invariant `Guarded` says that the calls on the stack of a thread have different senders, those
  of its entry in `callers`; there is one lemma for a call that is entered, goes on and returns.
  That there are as many calls as senders then follows from a bijection (`AsManyAsCalls`).

`RouteSystemProofs` and `ActiveRouteProofs` prove, of the composed system, for every finite set of
destinations and addresses, every buffer size and any number of changes of the interface or by
somebody else (`ComponentsAssumption`: the assumptions of the two components), and whichever requests fail:

- `ManagerInSystem` and `TrackerInSystem`: the system implements both specifications, so all that is
  proved of the components holds in it.  Each step is a step of the manager or leaves its
  variables alone (`ManagerRefines`), and the same for the tracker (`TrackerRefines`).
- `KillSwitchHolds` (`KillSwitchInPlace`).  `KillSwitchInv`: a destination has an `origin` exactly while it
  is managed, and one asked for by DNS answers alone has its blackhole route in the table, a request for
  it on the way, or a request for it that failed and none since that did not.  A request that removes it belongs to a destination that is no
  longer managed (`RequestsMatchState` of the manager), and as long as one is under way no
  answer is handled: that is what the lock is for.
- `NothingIsLeft` (`NoLeftovers`).  `NoLeftoversInv`: a blackhole route of a destination that is not managed is
  about to be removed by a request, or the request has failed; a unicast route is, or it is announced, or the
  announcement is being handed to the manager.  It holds from the subscription on, which
  comes before the dumps, and while nothing was lost to an overrun.
- `ActiveRoutesAreInstalled` (`ActiveIsInstalled`, with the exceptions that it states: an interface that was removed, IPv4
  routes that were confirmed late, and those in `missed`).

All three rest on `Joint` (`JointInvariant`): the invariants of both components and `Wiring`, which says
how they fit: the tracker starts after the manager, a message is offered only while the
tracker delivers it, a route through an interface that is down is not in the table.

`ActiveIsInstalled` is the hardest.  It says nothing until everything is settled, and until then the
manager believes in routes that are gone.  `LossInv` says that the loss is always ahead: if a
route is not in the table, but believed to be (trusted, announced, or offered to the manager),
there is a notification in the queue that ends the belief (`LossAhead`), or the tracker is
handing it over (`LossOffered`).  For an IPv6 route that is its removal; for an IPv4 route
it may be the link going down, or the removal of an address that leaves the tracker without an IPv4
address, although addresses may have come and gone since.  That is why `Ends` has to
say of a position in the queue which addresses the tracker will know of when it gets there (`NoIPv4Left`),
which in turn needs `Agrees` of the tracker, about the present state.
And no announcement of the route may follow the loss in the queue, or the manager would believe it
again: the kernel announces a route only when it is in the table.  The invariant is `Full`:
`Joint`, the tracker's `IInv`, `LossInv` and `ConfirmedInv` (a route confirmed in time is active only while its
family is available, since the manager invalidates the others).  The snapshot is the
delicate step: what it shows may be newer than the notifications behind it.  Where that breaks
the argument the property is false, which is how `missed` was found (section 3).

`DNSReceiverProofs` proves, for every size of a byte and of an address, every set of payloads that a
header can announce, every decoding and any number of frames (`ReceiverAssumption`, `AddressAssumption`):

- `ReceiverTypes` (`TypeOK`): above all that what is left to be read fits the buffer.
- `PayloadsAreSent` (`PayloadsAreThoseSent`) and `NothingKeptBack` (`NothingIsKeptBack`).  The prover has no
  induction over data, so the stream can not be described as the concatenation of the frames
  by a recursive definition.  `FramesInv` says instead that there are places, one for each frame, at
  which the frames lie one after the other (`Places`), from the first not yet read (`Cut`): the stream is
  what lies between the parser's place and the end, which may be in the middle of a last
  frame that the client began and never finishes.  The buffer has the part of the frame the parser is in (`Buffered`).
  There is a lemma for a piece that is read (`PieceRead`), one for a frame that is complete (`FrameRead`,
  `FrameComplete`), one for the bytes ahead of the parser being those of its frame (`BytesAhead`)
  and one for each way the stream grows (`FrameSent`, `PartSent`).
- `RequestsAreKeys` (`SameBytesSameKey`) and `RequestsAreOrdered` (`OrderIsTotal`), from the fact that every
  address in `outbox` was made from bytes.  That the order is total needs the
  first byte at which two addresses differ (`FirstDifference`).

Only model-checked: liveness (and anything with ENABLED), which the prover does not handle:
`ExpiredRouteIsDropped`, `PendingRouteIsSettled`, the three `ShutdownEnds`, `NotificationsAreRead`,
`RoutesAreCleared`, `FramesAreDecoded`, `ProgramEnds` and `CallsReturn`.  All other properties of the passing
runs are theorems.

## 5. Not modelled

- `dnsmessage.proto` and protobuf: generated code; `Decode` stands for it.
- Wording: log texts, the usage text, `operator<<` of the value classes and the conversions between
  text and addresses (`inet_pton`, `inet_ntop`).
- What `StateSaver` is to save: the code is a stub.
- In `RoutingManager`, `NetDevTracker` and `RouteSystem` an address is a member of a set with a family;
  `IPAddress` shows that values may be used so.
- The bytes of netlink messages and of protobuf messages.  `NLMSG_ERROR` cannot reach the
  tracker, which sends no requests.
- Data races inside the C++ library; `opLock`, `clientsLock` and the atomics are taken to work.

## 6. Plan

Done: the modules of section 2, the runs of section 3, the theorems of section 4.  Every safety
property of a passing run is proved.

What is left:

1. The safety half of liveness: bounds that a progress argument would use (a pending route is
   asked for at most so many times, an expired one is next in the order of the marks unless
   others were inserted before it), as action properties with proofs.
2. That each frame is decoded into its requests in the order of the records, and those
   reach the manager in that order: the receiver composed with `RouteSystem`.
3. `Lifecycle` as a refinement of an abstract program that starts, runs and ends, with the
   shutdown of the manager and the tracker taken from it by `RouteSystem`.
