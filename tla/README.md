# A verification development for stan-dfs

The repository is the first stage of a file system course project: an RPC
library (`src/rpc/`) that promises at-most-once execution of remote calls, and a
lock server and client on top of it. This directory holds TLA+ modules
translated from that code, TLC configurations that check them on small
instances, and TLAPS proofs.

Contents: [the system](#the-system), [modules](#modules),
[runs](#runs-what-each-shows-and-its-bounds), [fairness](#fairness),
[proofs](#proofs), [what the models found](#what-the-models-found),
[not modelled](#not-modelled), [plan](#plan).

## The system

A process that uses the library has these threads: application threads blocked
in `rpcc::call1`; one poll thread (`PollMgr::wait_loop`) for all sockets; and in
a server one listener thread (`tcpsconn::accept_conn`) and ten dispatch threads
(`ThrPool`). A call goes

    lock_client::acquire -> rpcc::call1 -> connection::send ~~ socket ~~>
    poll thread: connection::read_cb -> rpcs::got_pdu -> fifo::enq
    worker: fifo::deq -> rpcs::dispatch -> checkduplicate_and_update
            -> lock_server::acquire -> add_reply -> connection::send ~~ socket ~~>
    poll thread: connection::read_cb -> rpcc::got_pdu -> the caller wakes

| component | source | state | operations | what makes it correct |
|---|---|---|---|---|
| `rpcc` | `rpc/rpc.cc`, `rpc.h` | `xid_`, `calls_`, `srv_nonce_`, `chan_`, `xid_rep_window_`, `destroy_wait_` | `bind`, `call1`, `get_refconn`, `got_pdu`, `update_xid_rep`, `cancel` | a result belongs to its call and is given once; `xid_rep` never covers a call that waits |
| `rpcs` | `rpc/rpc.cc` | `nonce_`, `reply_window_`, `rereply_window_`, `conns_` | `got_pdu`, `dispatch`, `checkduplicate_and_update`, `add_reply` | at most once; a waiting caller's answer is kept and reaches it |
| `connection` | `rpc/connection.cc` | `dead_`, `wpdu_`, `rpdu_`, `waiters_`, `refno_` | `send`, `closeconn`, `read_cb`, `write_cb`, `incref`, `decref` | PDUs are not mixed, result of `send` is true, no callback on a closed connection |
| `PollMgr`, `SelectAIO` | `rpc/pollmgr.cc` | `callbacks_`, `pending_change_`, `rfds_`, `wfds_`, the pipe | `add_callback`, `del_callback`, `block_remove_fd`, `wait_loop` | after `block_remove_fd` there is no callback; it returns |
| `tcpsconn` | `rpc/connection.cc` | `conns_` by descriptor | `process_accept`, destructor | every holder of a connection is counted: none is deleted early, none is kept without a holder |
| `ThrPool`, `fifo` | `rpc/thr_pool.cc`, `rpc/fifo.h` | `q_`, two condition variables, `th_` | `addJob`, `takeJob`, `~ThrPool` | each job once, no lost wakeup, clean shutdown |
| `lock_server`, `lock_client` | `lock_server.cc`, `lock_client.cc` | `server_map`: state, owner, condition variable | `acquire`, `release`, `stat` | mutual exclusion, no lost lock, no stuck release |
| `marshall`, `unmarshall` | `rpc/marshall.h`, `rpc.cc` | a growing buffer, a position, `ok` | `<<`, `>>`, `okdone`, `take_in`, headers | what is written is read back, a disagreement on the types is noticed, no write past the buffer |
| call templates | `rpc/rpc.h` | none | `rpcc::call`, `call_m`, `rpcs::reg` and its handler classes | the handler sees what the caller passed, the caller what the handler returned, or an error |
| deadlines | `rpc/rpc.cc` | none | `add_timespec`, `cmp_timespec`, the waits of `call1` | a call waits its time, no longer, and no deadline is invalid |

What is hard here: the same request in two workers at once; a server that
restarts between two transmissions; replies that come after a timeout; three
kinds of stale state (connection, reply window entry, readiness reported by
`select`); condition variables with barging and spurious wakeups; handlers that
block and keep their thread of the pool; partial writes; a destructor that has
to meet every thread; connections counted by hand across four kinds of holder;
reply buffers freed under a mutex and sent without it; types that no compiler
compares. `PROJECT.json` lists these hazards by line, with the
properties that speak of each.

`GNUmakefile` does not define `NDEBUG`: asserts are compiled in, and an assert
that fails ends the process in the models as well.

## Modules

Each module starts with its grain. In all of them a step is one critical
section of the code together with the thread-local work around it, a wait on a
condition variable ends a step, and whoever is woken has to take the mutex
again. Names are those of the code where TLA+ allows it. Some definitions are
marked *mutant*: a wrong variant of the one that follows, used by no
specification; substituted for it, each makes a property fail.

**`Rpc`** is the core: all of `rpcc` and `rpcs` that decides what a call
returns and what is executed.

| code | model |
|---|---|
| `calls_` and the `caller` on the stack of `call1` | `st`, `ret`, `val` per client and xid |
| the header packed into `req` | `hdr`, fixed when the call is issued |
| `xid_rep_window_` | `acked`, the set of the reported xids; `IsFront` gives the front, which `XidWindow` justifies |
| `chan_`, and `ch` of `call1` | `chan`, `ch` |
| a TCP connection | its number, `cliDead` and `srvDead` for `dead_` at either end; `reqs`, `replies` in flight |
| `dispatchpool_` | `jobs`, at most `MaxJobs` of them, and `wk` with the point a worker has reached in `dispatch` |
| `rpdu_` of the server's connections | `kept`, the requests that the full queue has refused |
| `procs_` | `known`, whether the handler of the operation is registered; that of `bind` always is |
| `rereply_window_`, `reply_window_`, `conns_` | `mark`, `win`, `last` |
| the process and its `nonce_` | `srv`, `inc` |

Actions: `Issue`, `Transmit`, `GotReply`, `Return`, `Cancel` for the client;
`GotRequest`, `RequestRefused`, `Register`, `Refuse`, `DispatchUnknown`,
`Dispatch`, `Forgotten`, `Duplicate`, `NewRequest`, `RunHandler`, `AddReply`,
`SendReply` for the server, with `AddReplyAsserts` and
`SendReplyDereferencesNull` where the code stops the process;
`ClientEndDies`, `ServerEndDies`, `Crash`, `Restart` for the environment. A
deadline may pass at any moment (`Return`, and the repetition of `Transmit`).
A request that the full queue refuses stays in `rpdu_`: `Offered` says that it is
offered again when more bytes come on its connection or its end is seen, and
that nothing behind it is read before that. A request for a procedure that is
not registered (`Register` may come late, as in `lock_smain.cc`) is dropped
without a reply. `execs` and `unknown` are history variables. Nonces are not random numbers but distinct ones,
so collisions of `random()` are left out.

**`RemoteCall`** is the abstract specification of a call: issued once, executed
at most once, successful only after execution; a failed call may have been, and
may still be, executed. `Rpc` states its refinement as `ImplementsRemoteCall`.

**`RpcInvariant`** holds the two inductive invariants, `AtMostOnceInv` and
`AnswerInv`; **`RpcProofs`** has the proofs about execution, **`RpcAnswerProofs`**
those about what callers are told, and the refinement of `RemoteCall`.

**`XidWindow`** is `update_xid_rep` as the list algorithm it is, compress loop
included, and the set of the reported xids beside it. It is the data refinement
of `acked` in `Rpc`. It has no steps of its own: the client of `Dispatch` calls
`UpdateXidRep` where `got_pdu` and `call1` do. The loop is a recursive function,
`compress`, on where the loop is: the list and an index of it.

**`Dispatch`** is the server between its sockets and its handlers, at the grain
of its mutexes: what `Rpc` has as one step and as sets is here the list, the
buffers and the counts of the code.

| code | model |
|---|---|
| `refno_` of a connection, and its deletion | `refno`, `deleted` |
| `tcpsconn::conns_`, and where `process_accept` is in its loop over it | `listed`; `apc`, `ahead`, `victim` |
| `create_time_` | `stamp`; two connections may have the same |
| `rpcs::conns_` for the one client | `latest` |
| queue and workers, each with its reference | `jobs`, `wk` |
| the header of a request: the instance it names | `stale`, the calls bound to an earlier one |
| the `return` without `decref` at `rpc.cc:509` | `leaked`, how often it was taken on a connection; the code has no such count |
| `reply_window_`, `rereply_window_` | `list`, `mark`; the pass of `checkduplicate_and_update` stops at the entry of the request, as the code's loop does |
| the `malloc`ed replies | `buf`, freed or held; `b1` says that a worker will send one |
| `~rpcs` | `Stop`, `CloseOne`, `FreeReplyWindow`; workers go on meanwhile |

The client is the bound one, with at-most-once: `Issue`, `Connect`, `Transmit`,
`GotReply`, `EndCall`, and the header of each call is the front of the list of
`XidWindow` at that time. `SendReply` sends and gives up the reference in one
step; nothing comes between that another step could see. `TakeJob` likewise
unpacks and updates `conns_`. A job ends otherwise in `NoHandler` (no header, or a
procedure that is not registered), which gives the reference back, or in
`OldInstance`, which answers and does not: such a connection stays for good. The iterator of `process_accept` stands on an
element that is erased before it is advanced (`connection.cc:378`): the loop goes
on anywhere in the list, ends, or the process crashes. Left out here: the
refusal by a full queue, where `incref` and `decref` cancel and the request stays on
its way, `reachable_` and `updatestat`.
**`DispatchProofs`** has the proofs about it and about `XidWindow`.

**`Marshall`** has `marshall` and `unmarshall` as operators: the two primitive
writes with the growth of the buffer, and what each `operator<<` and
`operator>>` does with them, also for bytes that were written as something else.
The 24 bytes of the header are counted and not stored. `Values` are the values
it has, by type: numbers in the width of their type, ints with their sign,
strings of bytes, and vectors, both of any length that is an int. Sums are
those of the code: `Int32` is the int arithmetic of the growing buffer, and the
unsigned sum of `unmarshall::rawbytes` (`rpc.cc:954`) wraps around at 2^32, so that a
size that was never written as one can pass its test. `Overreads` says when; the
copy of gigabytes that follows ends the process, by an exception or a memory
fault. Calls are taken to fit into `MAX_PDU`, above which the receiving end closes
the connection: what `marshall` does with more, and memory that runs out for a
vector with a wrong size, are left out. **`Timespec`** has `add_timespec` and `cmp_timespec`.

**`OneCall`** composes the two into one typed call: `MarshalArgs` (one primitive
write per step), the transmissions of `call1` (`GetConn` and `Send`, either of which
may block for ever) and its waits with `curr_to`, `nextdeadline`, `finaldeadline` and
a clock, the handler class that `reg` makes
(`GotRequest`, `UnmarshalArg`, `RunHandler`, `MarshalResult`, `SendReply`,
`Duplicate`), `GotReply` and `Return`. The connection may fail at any moment and be opened again, and the
clock moves as it likes but not back. A *scenario* fixes what is passed, for how
long, what the handler takes and returns, and what the caller reads the result
into. The result code of a handler is not negative, which the assert at
`rpc.cc:570` demands. A wait with a deadline that is not valid is a state of its
own, `"spin"`; a process that reads past its buffer ends in `"crashed"`, the
caller's (`CallerCrashes`) or the server's (`ServerCrashes`).
**`OneCallProofs`** has the proofs.

**`LockServer`** has the client threads, the pool and the lock table. What the
library does between a call and its handler is taken from `RemoteCall`:
one execution at most, a reply only afterwards. The pool is kept because blocked
handlers use it up. `ClientDies` is the assert in `lock_client` after a call
that failed; requests already sent are still served. Several threads may share
a `lock_client` and so one owner id. A thread may also release what it does not
hold when it is alone on its client. Two threads of one client where one
releases the other's lock are an error of the application, excluded by
`CallRelease` and `CallStrayRelease`. **`LockServerProofs`** has the proofs.

**`ThrPool`** is the fifo with its mutex and two condition variables, the
workers, the adders and the destructor. Each job has a thread of its own that
adds it; in `rpcs` that thread is the poll thread, which is the case of few
concurrent adders. `blockadd`, chosen in `Init` and kept, is the flag of the
constructor: `rpcs` passes false, the default is true. **`ThrPoolProofs`** has the
proofs.

**`Connection`** is one connection with its share of `PollMgr` and `SelectAIO`:
`send`, `closeconn`, `read_cb`, `write_cb`, `readpdu`, `writepdu`,
`add_callback`, `del_callback`, `block_remove_fd`, `wait_loop`. The poll
thread looks at `callbacks_[fd]` in one step and calls in the next, because the
code does so without the mutex. `errno` is modelled because `readpdu` reads it
after a call that does not set it. `SpuriousAt` names the waits that may return
without a signal: the two of `send` have a loop around them, the one of
`block_remove_fd` has none. Callbacks of other descriptors leave any `errno`
behind, and a part of a body may make the descriptor readable. A PDU that is sent has `Parts` pieces; one
that is received is a header and a body. The socket and the peer are external:
the peer sends, reads, closes, and the connection breaks at any moment.
The action for `Lossy` is the loss test of `send` (`RPC_LOSSY`).
**`ConnectionProofs`** has the proofs.

**`Recursion`** has no code behind it: lemmas about the natural numbers (a least
one, induction over a set of them) and that functions defined by recursion exist,
along a number (`PrimitiveRecursion`, `FiniteRecursion`) or along a loop with a
measure that falls (`LoopRecursion`).

`MCRpc`, `MCLockServer`, `MCConnection`, `MCDispatch`, `MCOneCall` give TLC its
symmetry sets, initial states and scenarios. Composition: `Rpc` and
`LockServer` meet in `RemoteCall`; `Dispatch` runs the client's list of
`XidWindow` against the server's list, two things `Rpc` has as sets; `OneCall`
is `Marshall` and `Timespec` at work in one call of `Rpc`;
`ThrPool` and `Connection` justify what `Rpc` assumes of `jobs` and of its
channels (PDUs whole, in any order here, delivered once or lost with the
connection, kept when they are refused). `Rpc` supposes, and
`Connection` shows not to hold always, that `send` returns: it blocks as long as the
peer does not read, and for ever when `closeconn` comes, see the findings.

## Runs, what each shows, and its bounds

All runs finish within four minutes with two workers. `CHECK_DEADLOCK
FALSE` is set throughout because each system may stop: all calls have returned
and the bounds are used up, no thread asks for a lock, the pool is deleted, the
connection is closed.

| run (cfg) | states | what it shows |
|---|---|---|
| `rpc_restart` (`RpcRestart`) | 1,148,974 | From `Init`: bind, one operation, a second connection, cancel, registration at any moment, and a crash and restart anywhere. `AtMostOnce` and its inductive form `AtMostOnceInv`, which contains the type invariant; a call reported as OK was executed (`OkMeansExecuted`); a client that is told its server has gone was bound to another instance (`OldSrvTruth`); every step is one of `RemoteCall` (`ImplementsRemoteCall`) |
| `rpc_window` (`RpcWindow`) | 515,044 | Three operations that overlap and end in any order, from `BoundInit`. What a waiting caller needs is not purged (`WaitedEntryKept`), and none is told `atmostonce_failure` (`NoForgottenAnswer`) |
| `rpc_answered` (`RpcAnswered`) | 228,101 | One worker, a queue of one job, a client with a nonce or one without, with fairness, from `BoundInit`. A call on a connection that lives is answered (`Answered`), with two exceptions: its request met a full queue and nothing came behind it, or it came before its handler was registered |
| `lock_server` (`LockServer`) | 18,856 | Three threads, two behind one client, three workers, deaths, stray releases, spurious wakeups, with fairness. `MutualExclusion`, `LockInv` (with the type invariant), `NoLeak`, `ReleaseServed`, `SomeoneGetsIt` |
| `dispatch` (`Dispatch`) | 3,019,444 | One client, two workers, up to three calls and three connections, requests for an earlier instance or an unknown procedure, collection of dead connections, `~rpcs` at any moment. Every holder of a connection is counted, and every reference leaked (`RefsExact`), a reply has one owner (`BuffersOwned`) and is there when it is sent to a caller who waits (`SentIfWaited`), the front of `xid_rep_window_` is exact (`WindowIsExact`), and what is left at the end (`CleanExit`); `TypeOK` |
| `one_call` (`OneCall`) | 263,427 | Twenty-one scenarios, with fairness of the caller and the clock. No write past the buffer (`BuffersFit`); the handler runs on exactly the bytes sent or not at all (`ExactArguments`), the caller gets what the handler returned or an error (`TypedResult`), both for types that agree and for types that do not; a call does not give up early (`NotEarly`), makes no invalid deadline (`WholeSecondsWait`) and returns (`CallReturns`) when its time is whole seconds, if `connect` and `send` return; `TypeOK` |
| `pool` (`ThrPool`) | 47,638 | Two workers, four jobs, two places, blocking and refusing `addJob`, with fairness. `TypeOK`, `Accounted`, `NoLostWakeup`, `ShutdownComplete`, `JobsRun`, `DestructorReturns` |
| `conn` (`ConnSafety`) | 5,643,312 | Three senders, one of them perhaps half way, `closeconn`, two PDUs in parts, one refusal, the loss test, spurious wakeups in `send`. `TypeOK`, `WholePdus`, `SendTruth`, `TakenInOrder`, `HeaderIsThere`, `NoLateCallback` |
| `conn_live` (`ConnLive`) | 522,166 | Two senders, one PDU received, with fairness. A send returns if the peer reads and nobody calls `closeconn` (`SendEndsIfOpen`); `closeconn` returns whatever the peer does (`CloseEnds`) |

Three more runs end in a violation, `rpc_no_entry` (`RpcNoEntry`),
`conn_write_dead` (`ConnWriteDead`) and `conn_send_hangs` (`ConnSendHangs`): see
[below](#what-the-models-found).

Why the bounds are enough.

- `Rpc`. A call that goes wrong needs at most one other copy of its request
  (`MaxConns = 2`, two workers) and one restart (`MaxInc = 2`). A purge by a
  later call's `xid_rep` needs two calls after bind, and a front of
  `xid_rep_window_` that skips needs three, so `RpcWindow` has `MaxXid = 4` and
  saves on connections. A full queue needs one place, a job at the worker, one in
  that place and a third request (`MaxJobs = 1` in `RpcAnswered`, with three calls of
  the client without a nonce on one connection; two elsewhere, against 1000
  in the code). `RpcRestart` registers the handler only when a request for it is
  in the queue (`LateRegistration`): nobody reads `known` before, and a crash forgets
  it, so nothing else differs. The runs other than `RpcRestart` start
  in `BoundInit`, the state after an undisturbed bind per client on a connection
  that is alive with nothing in flight: a reachable state, chosen so that the
  bounds are spent on what comes after. `AtMostOnce` is proved without bounds.
- `LockServer`. A third thread is needed to barge between a release and the
  waiter it woke; two of the three share a client because the owner is a client.
  Locks share nothing but the workers, so one is enough. The workers are as many
  as the threads, as `lock_tester.cc:15` demands; with fewer `ReleaseServed` is
  false by design. Mutual exclusion and `LockInv` are proved without bounds.
- `Dispatch`. A purge needs a call that is over and a later one; a list with
  something behind the entry of the request, or a front that skips, needs three
  (`MaxXid = 3`). The collection of dead connections needs one that is dead and
  one that comes; a third lets the reference of `conns_` pass on while a worker
  moves its reply to the latest (`MaxConns = 3`). Calls and connections are
  together at most four (`MaxWork = 4`): either three calls on one connection or
  two on two, or one on three.
- `OneCall`. Six scenarios are calls with agreeing types, every type among
  them, negative numbers too, one with a string longer than the buffer. In eleven
  arguments are missing, too many, or of other types, on both sides; among
  these are sizes that wrap around to a position in the buffer, at the server and
  at the caller, and one that is only too large. The buffer begins with
  room for two bytes behind the header, so that it grows by either rule. Four
  have a time: 0 (nothing to wait for), 999 ms (the one that can be carried to
  exactly a second), 2500 and 3000 ms (two or three waits). The clock reads 1 to
  5 seconds with 0, half a second and the last nanosecond.
- `ThrPool`. Two places and four jobs let the queue be full with two adders
  asleep; of two workers one is woken and the other barges, or both sleep while
  two jobs come.
- `Connection`. One sender is half written, one waits behind it, and a third comes
  when the first ends and the second has been woken. Two pieces and a buffer of
  two, or of one in `ConnLive`, give writes that are whole, partial or empty. Two
  PDUs received let a kept one be followed by a whole one or a header alone.

## Fairness

- `Rpc`: weak fairness of delivery by the poll threads and of every worker.
  Handlers return, no mutex is held while a thread waits, and a worker's `send`
  returns because its peer, the poll thread of a client, reads all it is sent
  (`rpcc::got_pdu` refuses nothing). Nothing is assumed
  of failures, of deadlines, of the registration of handlers or of the
  application threads, so `Answered` speaks of the reply's arrival, not of the
  caller's return.
- `LockServer`: the workers run, and a thread that holds a lock calls `release`
  in the end. Which waiter `pthread_cond_signal` wakes is not fair: a particular
  waiter may starve, and only `SomeoneGetsIt` is claimed.
- `ThrPool`: the workers run, and a thread inside `addJob` or `~ThrPool` goes on.
- `Connection`: the poll thread and the threads inside `send` and
  `block_remove_fd` go on, and data sent to a peer that has closed is answered by
  a reset, as TCP does. Nothing makes a peer send, or read: a peer of this
  library stops reading while it holds a refused PDU. So `SendEndsIfOpen` has the
  condition `PeerReads` (again and again the peer has read everything, or the
  connection ends), which is a property of the peer and not a fairness of this
  code; `CloseEnds` has none.

- `OneCall`: the caller's thread goes on and time passes; network and server may
  do nothing at all. `connect` and `send` are not among the steps that are fair:
  they wait for the other end without a deadline. `CallReturns` is claimed if no
  such wait is for ever, and for times of whole seconds only.
- `Dispatch` claims nothing temporal.

All are weak fairness: a thread that can run does, in the end.

## Proofs

For every value of the constants:

| theorem | says |
|---|---|
| `RpcProofs!TypeCorrect` | `Spec => []TypeOK` |
| `RpcProofs!AtMostOnceInvariant` | `Spec => []AtMostOnceInv` |
| `RpcProofs!AtMostOnceHolds` | `Spec => []AtMostOnce` |
| `RpcAnswerProofs!OkMeansExecutedHolds` | `Spec => []OkMeansExecuted` |
| `RpcAnswerProofs!OldSrvTruthHolds` | `Spec => []OldSrvTruth` |
| `RpcAnswerProofs!NoForgottenAnswerHolds` | `Spec => []NoForgottenAnswer` |
| `RpcAnswerProofs!WaitedEntryKeptHolds` | `Spec => []WaitedEntryKept` |
| `RpcAnswerProofs!LibraryImplementsRemoteCall` | `Spec => ImplementsRemoteCall` |
| `LockServerProofs!LockTypeCorrect` | `Spec => []TypeOK` |
| `LockServerProofs!LockInvariant` | `Spec => []LockInv` |
| `LockServerProofs!MutualExclusionHolds` | `Spec => []MutualExclusion` |
| `LockServerProofs!NoLeakHolds` | `Spec => []NoLeak` |
| `ThrPoolProofs!PoolTypeCorrect` | `Spec => []TypeOK` |
| `ThrPoolProofs!AccountedHolds` | `Spec => []Accounted` |
| `ThrPoolProofs!NoLostWakeupHolds` | `Spec => []NoLostWakeup` |
| `ThrPoolProofs!ShutdownCompleteHolds` | `Spec => []ShutdownComplete` |
| `ConnectionProofs!ConnTypeCorrect` | `Spec => []TypeOK` |
| `ConnectionProofs!WholePdusHolds` | `Spec => []WholePdus` |
| `ConnectionProofs!SendTruthHolds` | `Spec => []SendTruth` |
| `ConnectionProofs!TakenInOrderHolds` | `Spec => []TakenInOrder` |
| `ConnectionProofs!HeaderIsThereHolds` | `Spec => []HeaderIsThere` |
| `ConnectionProofs!NoLateCallbackHolds` | `Spec => []NoLateCallback`, if `"changing" \notin SpuriousAt` |
| `OneCallProofs!BuffersFitHolds` | `Spec => []BuffersFit` |
| `OneCallProofs!NotEarlyHolds` | `Spec => []NotEarly` |
| `OneCallProofs!WithinLimitHolds` | `Spec => []WithinLimit`: no wait is set past the final deadline |
| `OneCallProofs!WholeSecondsWaitHolds` | `Spec => []WholeSecondsWait` |
| `OneCallProofs!OneCallTypeCorrect` | `Spec => []TypeOK` |
| `OneCallProofs!ExactArgumentsHolds` | `Spec => []ExactArguments` |
| `OneCallProofs!TypedResultHolds` | `Spec => []TypedResult` |
| `DispatchProofs!DispatchInvariant` | `Spec => []IInv`, the conjunction described below |
| `DispatchProofs!DispatchTypeCorrect` | `Spec => []TypeOK` |
| `DispatchProofs!WindowIsExactHolds` | `Spec => []WindowIsExact` |
| `DispatchProofs!RefsExactHolds` | `Spec => []RefsExact` |
| `DispatchProofs!BuffersOwnedHolds` | `Spec => []BuffersOwned` |
| `DispatchProofs!SentIfWaitedHolds` | `Spec => []SentIfWaited` |
| `DispatchProofs!CleanExitHolds` | `Spec => []CleanExit` |
| `DispatchProofs!HandlerStartsOnce` | `Spec => [][OnceStep]_vars`: no step starts a handler for an xid that has had one, or forgets that it has |

These are all the invariants and the refinement that the passing runs check, and
`OnceStep`, which `DispatchProofs` states: at most once in `Dispatch`.

Assumptions, each named in the module that declares the constants:
`RpcAssumption` (the bounds are numbers, `PlainClients` are clients),
`LockAssumption` (`ClientOf` is a function; the two null values are no client and
no thread), `PoolAssumption` (there are finitely many workers and at least one,
the queue has a place; there may be infinitely many jobs), `ConnectionAssumption`
(a PDU has a piece, the socket has room for one, senders and closers are
different threads), `WindowAssumption` and `DispatchAssumption` (the bounds are
numbers, the workers are finitely many), `MarshallAssumption` (the first
allocation holds the header and is no larger than `MAX_PDU`) and
`OneCallAssumption` (what is passed and returned are values of their types, which
fit into `MAX_PDU` with the header; times
and results are not negative; the clock shows valid times). The bounds are arbitrary, so they bound nothing in the theorems.

*At most once.* `AtMostOnce` is not inductive: a state in which a copy of an
executed request sits at a worker and the window has lost its entry satisfies
it, and the next step does not. `AtMostOnceInv` adds the reason. For a client
with a nonce, what the present instance has let through to a handler is
*stopped*: it has an entry in `win` or its xid is below `mark`
(`ExecutedStopped`, `WorkersGuarded`). A purge removes an entry only when its
xid falls below the new mark, so stopped calls stay stopped. Another instance
cannot run the call because the header names the instance the client was bound
to, which has been started before (`NoncesStarted`), and a process that ends
takes its workers with it (`GoneIsIdle`). Between the check and the handler one
worker at most is on its way to run a call (`RunnerAlone`). For a client with
nonce 0 there is only one copy of a request (`OneCopy`), because it transmits
once (`Unsent` speaks of calls before that).

*Answers.* `AnswerInv` follows each reply back: a success names a call whose
handler has run (`OkIsExecuted`), `oldsrv_failure` a call that is bound to an
earlier instance (`OldSrvIsOld`), `atmostonce_failure` a call that is over
(`ForgottenIsOver`). The last rests on `ReportedIsOver`: what `update_xid_rep`
was told is over, and headers and the mark cover only what it was told, so a
purge takes nothing from a caller that waits, however old the header it comes
with. `WaitingServed`: one worker at most serves a waiting caller, so nobody
else marks its entry as done. With these the refinement goes step by step:
only `Issue`, `Return` and `RunHandler` change what `RemoteCall` sees, every other
step leaves it alone.

*Mutual exclusion.* A release at the server compares clients, not threads, so
`MutualExclusion` alone does not survive it. `LockInv` adds: a call is in the
queue once or at one worker (`CallsServedOnce`), so that a release is executed
for a caller that waits for it; a thread that is releasing a lock does not hold
it (`ReleasedIsNotHeld`); and while a thread that shares its client is
releasing, the lock is still locked for that client, nobody has it and no other
thread of the client releases it (`ReleaseIsMine`). The release is then of a
lock nobody has, so freeing it harms nobody; and a grant needs a lock that is
not locked. Lemma `NothingTaken` covers the steps that give nobody anything;
each other action has a lemma of its own.

*No lock is lost.* `LockKept` is `NoLeak` made inductive: who gives a lock back
counts until the server has executed the release, not until it was called.

*Pool.* `Accounted` is kept by facts on sequences: what goes in at one end comes
after what was taken at the other. `NoLostWakeup` compares numbers of threads,
so the invariant carries that the threads inside `enq` are finitely many
(`EnteredFinite`), and each step moves one thread between the counted sets. Shutdown:
the destructor is alone in adding by then (`DestructorAlone`), the pills are the
last to be accepted (`PillsLast`), and each pill taken ended one worker
(`GoneTookPills`); when all are gone as many pills were taken as accepted, and
everything before them.

*Sending.* `WriteInv`: `wpdu_` belongs to the one sender between its first write
and its return (`BufferInv`), and while the connection lives `solong` is the
number of the last piece on the wire, or the wire ends with a whole PDU
(`TailInv`). A write then goes on where the last one stopped (`WriteWhole`),
whoever makes it. Once the connection is dead nothing is written, and only
then may the two disagree.

*Receiving.* `ReadInv`: the queue of the socket is the end of what the peer sent
(`QueueInv`), and on a living connection what is before it has been taken,
apart from one or two pieces in `rpdu_` (`TakenInv`). `ReadableKept`: between
`select` and the callback nobody but the poll thread takes from the queue.

*Closing.* `CloseInv`: who has asked for the removal has stopped the watch for
good, since nobody starts it on a dead connection; and who was told that the
change is done was told at the top of the loop, after which `select` cannot
return the descriptor. Where a wait that returns by itself breaks this is the one
hypothesis of the theorem.

*One call.* `BufferInv`: the position never passes the allocation, because each
write makes room first. No int sum overflows on the way: the allocation is the
first one or at most twice the position, and the position with what is still to be
written stays within `MAX_PDU`. `DeadlineInv`: the final deadline is fixed
(`FinalKept`), no wait is set past it (`WaitsWithinLimit`), who leaves by timeout
has waited until then (`LeavesLate`), and for times of whole seconds every
deadline is valid (`WholeIsValid`). The arithmetic of `add_timespec` is
proved for all times, in lemmas of their own.

*Arguments and results.* Both rest on the encoding, not on the scenario.
`Encoding(v)` is the bytes of a value; `WritesEncoding` says that the calls of
`rawbyte` and `rawbytes` for `v` come to these bytes, `AllWritesEncode` that those of
a sequence of values come to theirs in order. `GetReads` is about reading
whatever the bytes are: it yields a value of the type asked for, and if `ok` is
still up the position has moved by that value's size. `GetReadsBack` is about
reading where `Encoding(v)` stands: it yields `v`, and the position is behind it.
The invariants then follow a call. `RequestInv`: what is written and what is
still to be written are together the encoding of the arguments. `ServerInv`:
the position is the size of what was read, so `okdone` compares that size with
the length of the request (`ExactArguments`); where a size wraps around no value
is read, the process ends and no handler starts. With types that agree no size
does, since what is read is what was written. `ArgsAgree`: for types that agree,
what was read is a beginning of what was passed, and the position is where it
ends. `ReplyInv` says of the result what `RequestInv` says of the arguments, and
that a reply is seen only once all of it is written; `ReturnInv` and `ResultAgrees`
bring it to the caller (`TypedResult`).

*The window of xids.* `WindowInv` is `WindowIsExact` for a list that may be any
length, with its types. The loop is proved by induction on what is left of the
list: `LoopRecursion` gives the function, and then each turn keeps the list
sorted and pops an xid only when its successor is there too.

*Dispatch.* None of its properties is inductive alone. `ClientInv` links the two
lists: what the headers and the mark cover was reported, so the purge takes
nothing from a caller that waits. `ConnInv` says where the accept thread is and
that a connection that is alive is in `conns_` of the listener or in its hands: a
reference is given up only for a dead one. `WorkInv` gives each worker a
connection to reply on. `SentInv` says that a request is on its way or in
the queue but not both, so that adding a job adds one reference. On these rest
`RefInv`, which compares cardinalities: each step moves one holder from one of
the counted sets to another, or from the queue to the leaked ones, and the
counts follow. `BufInv` is about lists:
the purge cuts the list at the entry of the request, the insertion keeps the xids
distinct, and exactly the entries dropped lose their buffers.

`OnceStep` follows step by step. An xid is `Stopped` once it is below the mark or
has an entry (or the server has ended). A handler starts only by `NewRequest`,
which finds neither and leaves an entry; the mark only grows, `add_reply` keeps
the xids, and a pass erases an entry only below the new mark. So a copy of a
request that comes late, on another connection or to another worker, is
forgotten, a duplicate or in progress, never new.

*Induction.* The library's induction theorems take an operator, which the
installed provers cannot instantiate. `SetInduction` and, for sequences,
`SeqInduction` of `OneCallProofs` take a set instead: those elements of which the
claim is true. With the functions of `Recursion`, what a fold or a recursive
function computes is then provable for every input: `FlattenSeq`, the numbers
read from bytes, the sizes of sequences of values, the compress loop.

tlapm 1.4.5 tells its SMT solver that the domain of `S` is `1..N` if `Len(S) = N`,
without asking whether `S` is a sequence. No proof depends on it: all were also
checked with the other direction alone.

Only model-checked: everything temporal (`Answered`, `ReleaseServed`,
`SomeoneGetsIt`, `JobsRun`, `DestructorReturns`, `SendEndsIfOpen`, `CloseEnds`,
`CallReturns`), since liveness under fairness is out of the prover's reach.

## What the models found

The models refute thirteen things that the code, its comments or its asserts say.
Three have a run whose counterexample shows it, with the lines in
`PROJECT.json`:

1. `rpc_no_entry`, `EntryFound`: the `assert(0)` of `add_reply` can be reached. A
   caller gives up while its handler runs, later calls report its xid, and the
   purge takes the entry in progress. `WaitedEntryKept` shows that a caller who
   still waits is never concerned.
2. `conn_write_dead`, `WriteCbAlive`: `assert(!dead_)` in `write_cb` can fail,
   since the poll thread may be on its way to the callback when a send sets
   `dead_`.
3. `conn_send_hangs`, `SendEnds`: `closeconn` does not wake a send whose PDU is
   half written. `SendEndsIfOpen` shows that without `closeconn` a send hangs only
   if the peer stays and does not read (10 below).

The other ten are stated as properties, under *What it does not promise* at
the end of `Rpc`, *What does not hold* at the end of `Connection` and *What the
code does not keep* at the end of `Dispatch` and of `OneCall`, without a
run of their own. To see a counterexample, put the property into the cfg named:

4. `ConnectionFound`, INVARIANT in `RpcAnswered`: a client without a nonce
   (`retrans` false in the constructor of `rpcc`, which no program of the
   repository passes) whose connection dies before the reply makes `dispatch`
   use the NULL in `conns_[0]` (`rpc.cc:588`).
5. `NoStrandedCall`, INVARIANT in `RpcRestart`: a retransmission that meets its
   own handler is dropped, and the reply goes out on the old connection if the
   server has not noticed its death (`rpc.cc:588`, though `rpc.cc:585` says "get
   the latest connection to the client"). The caller waits on a live connection
   until its deadline.
6. `EofNoticed`, PROPERTY in `ConnLive`: the end of the stream in the middle of a
   PDU goes unnoticed when `errno` is still `EAGAIN` (`connection.cc:285`).
7. `PduTaken`, PROPERTY in `ConnLive`: a request refused by a full queue waits for
   more bytes from its client, which may have no reason to send any
   (`connection.cc:213`).
8. `NoLateCallback` in `ConnSafety` with `"changing"` added to `SpuriousAt`:
   `block_remove_fd` waits once, without testing a condition
   (`pollmgr.cc:66`), and its promise that no callback follows fails if that wait
   returns without a signal.
9. `ResponseThere`, INVARIANT in `Dispatch`: "duplicate and we still have the
   response" (`rpc.cc:603`). The reply is sent after `reply_window_m_` is
   unlocked, and another worker's purge may free its buffer before that.
   `SentIfWaited` shows that no caller waits for such a reply.
10. `SendEndsUnread`, PROPERTY in `ConnLive`: a send whose peer stays connected and
   does not read never returns (`connection.cc:155`), though `rpc.cc:14-15` mentions
   only data that is sent and a connection that has failed. `rpcs` is such a peer
   while it holds a refused PDU (`connection.cc:202`).
11. `DeadlineHolds`, PROPERTY in `OneCall`: for the same reason a call may not
   return at its deadline, since `call1` connects and sends inside the loop that
   watches it (`rpc.cc:226-229`).
12. `NoLeak`, INVARIANT in `Dispatch`: the references to a connection are not those
   of who points to it once a request for an earlier instance was answered on it
   (`rpc.cc:509` returns without `decref`). `RefsExact` shows that this is the only
   leak.
13. `DisagreementSurvived`, INVARIANT in `OneCall`: bytes that were not written as a
   string may be read as one whose size wraps around in the sum of `rpc.cc:954`,
   and end the process that reads them instead of being noticed.

And what the models have to follow to be faithful, without a property against
it:

- `add_timespec` (`rpc.cc:1036`) leaves `tv_nsec` at exactly 1000000000, an invalid
  deadline: `pthread_cond_timedwait` returns `EINVAL` without giving the mutex up, and
  `call1`, which leaves its loop only for `ETIMEDOUT`, calls it again for ever
  (`"spin"`); a reply that comes meanwhile leaves the poll thread waiting for that
  mutex. It takes milliseconds that add up so; times of whole seconds never
  do (`WholeSecondsWait`), and the library uses no others.
- A `to` that is negative and not of whole seconds can fail the assert before it
  (`rpc.cc:1035`).
- `operator>>` for a vector appends to what the caller's variable holds, the one
  for a map clears it first. `OneCall` has a scenario whose variable is not empty.
- The last retransmission of `call1` may come right before it gives up: it
  transmits when the last wait ended, and then tests the final deadline.
- `process_accept` goes on from an element it has erased (`connection.cc:378`).
- `rpcs::conns_` never gives up the latest connection of a client (`CleanExit`).
- `lock_smain` accepts calls before it registers its handlers; one that comes then
  is dropped without a reply and not sent again while its connection lives
  (`DispatchUnknown` of `Rpc`).

## Not modelled

- `marshall`: maps, vectors of anything but ints, PDUs above `MAX_PDU`, and
  memory that runs out.
- `set_reachable` and `reachable_`, a hook for tests of a later stage of the course;
  `updatestat` and `stat`, which count.
- `EPollAIO`, which is compiled but never created, and `has_callback`, which has
  no caller.
- The references that `rpcc` holds through `chan_`: `Dispatch` counts those at the
  server.
- `method_thread`, `jsl_log` and `gettime`, which wrap library calls, and the
  programs that use the library: `rpctest`, `lock_tester`, `lock_demo`.

## Plan

Done, in this order: `RemoteCall`, `Rpc` with its invariant and proof,
`XidWindow`, `LockServer` with its proof, `ThrPool`, `Connection`; then
`Marshall`, `Timespec` and `OneCall`, `Dispatch`, and the proofs about answers, lost
locks, the pool, connections and deadlines; then those about the dispatch pool,
the window of xids, and arguments and results. What is left:

1. `CallTable`: `calls_`, `cancel` and the end of `call1` lock by lock, with several
   cancelling threads, and the references of `chan_`. It refines the client part
   of `Rpc`.
2. `LockService`: an abstract lock, which `LockServer` implements.
3. Maps in `Marshall`.
4. Proofs of more than the runs check: `ThrPool` and `Connection` as
   implementations of what `Rpc` takes for granted of its jobs and channels.
