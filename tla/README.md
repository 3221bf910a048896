# shadowsocks-iOS in TLA+

Models of the program's own code in `src/ShadowWeb` (the proxy itself, shared by
the iOS and the Mac application, and the iOS interface), `src/ShadowsocksX` (the
Mac application) and `src/shadowsocks_sysconf` (its helper), with the TLC
configurations that check them and the theorems TLAPS proves about them.
Everything else in the repository is third-party code; of it only the part of libev
that the proxy's callbacks run on is modelled.

## The system

A browser on the device is told, through the system's or the application's proxy
settings and a PAC file, to use a SOCKS5 proxy on the same device. The proxy
encrypts what it relays and sends it to a shadowsocks server.

| Component | State | Operations | Interacts with |
|---|---|---|---|
| Connection (`local.m`) | two structs, four libev watchers, two buffers, a SOCKS stage, two cipher contexts | `server_recv_cb`, `server_send_cb`, `remote_recv_cb`, `remote_send_cb`, `close_and_free_*` | kernel sockets; encryption; the event loop |
| Listener (`local.m`, `runProxy`) | the listening socket, the backlog, the descriptors | `create_and_bind`, `local_main`, `accept_cb`, the retry loop | makes connections; reads the configuration globals |
| Event loop (`libev/ev.c`, `ev_select.c`) | watcher lists, changed descriptors, pending queue, select's sets | `ev_run`, `ev_io_start`, `ev_io_stop`, `fd_reify`, `select_poll`, `ev_invoke_pending` | calls the callbacks, which start and stop watchers |
| Encryption (`encrypt.c`) | a context per direction (status, IV, block counter, bytes used of the block); globals for method and key | `init_encryption`, `encrypt_buf`, `decrypt_buf`, `config_encryption`, `cleanup_encryption` | called on the proxy thread for connections and on the main thread by `set_config` |
| Table cipher (`table.m`) | two permutations of the bytes | `get_table`, `table_encrypt`, `table_decrypt` | called by `encrypt.c` |
| Settings and runner (`ShadowsocksRunner.m`, `ProxySettingsTableViewController.m`) | user defaults: five keys | `runProxy`, `reloadConfig`, `openSSURL`, the settings page | writes the globals of the listener and the encryption |
| Profiles (`ProfileManager.m`, `Configuration.m`, `SWBConfigWindowController.m`) | the stored configuration, the window's copy of it, the selected row, the form, the menu | add, remove, select, type, OK, cancel; choose a server in the menu | saves to the runner's keys and reloads |
| System proxy (`ShadowsocksX/SWBAppDelegate.m`, `shadowsocks_sysconf/main.m`) | `isRunning`, `runningMode`, two preferences, the system's proxy settings | start, toggle, mode change, PAC change, terminate | runs the helper |
| Tabs (`SWBViewController.m`, `SWBTabBarView.m`, `SWBWebViewContainer.m`, `SWBPageManager.m`) | tabs, pages, a cache of at most ten web views | open, close, select, save, load | activity indicator |
| Background (`RunInBackground.m`) | a serial queue, its run loop, two timers | start, stop | application life cycle |

What is hard in it. The relay is a state machine written as callbacks: partial
sends leave the rest of a buffer behind, and which watcher is started is the only
record of who may touch it; the two ends of a connection go at different times,
each freeing its own struct; a buffer length of zero is also the order to close.
A descriptor's number is reused while watchers, queue entries and select's sets may
still speak of its last owner, and descriptors run out.
The configuration is written on one thread and read on another, key by key. The
Mac application keeps three copies of what the system's proxy settings should be,
and a crash can come between any two of them. The list `hazards` in
`PROJECT.json` names each of these at its line.

What makes each component correct:

- Connection: no use of a freed struct; no struct forgotten; each direction delivers
  the sender's bytes in order, once, without gaps, and completely if that
  direction ends gracefully; everything is freed in the end.
- Listener: every descriptor has one owner; a connection begins whole or not at all;
  whoever waits is taken; only a failed set-up costs a descriptor.
- Event loop: a callback runs for a started watcher of an open descriptor only, and
  runs if its descriptor stays ready.
- Encryption: both ends of a stream combine a byte with the same keystream byte
  however the stream is cut; no keystream byte serves twice.
- Settings: what is installed belongs to one server, and a connection uses one
  server's name, port, method and key together.
- Profiles: no edit lands in another profile; nothing incomplete is stored or used
  unless an `ss://` URL brought it; the server in use is the one the menu marks, until
  such a URL is opened.
- System proxy: settings, flag and mode agree whenever the application rests, after a
  restart and all crashes but one too; quitting switches the proxy off if the application
  switched it on, and otherwise leaves the settings alone. (Switching off does not bring
  back settings the user had before.)
- Tabs: every tab has one page and every page one tab; the current tab's web view
  shows its own page.
- Background: the song goes on in the background and stops in the foreground.

## Modules

| Module | What it is |
|---|---|
| `Pipe` | abstract specification: one direction of a connection |
| `Relay` | `local.m`, one connection, and its refinement of two `Pipe`s |
| `Lifetimes` | abstract specification: connections begin whole and end by ends |
| `Acceptor` | `local_main`, `accept_cb` and the descriptors of many connections, and its refinement of `Lifetimes` |
| `EventLoop` | libev's `ev_run` under the callbacks of `local.m` |
| `Keystream` | the positions kept by `encrypt.c`'s salsa20 and chacha20 contexts |
| `TableCipher` | `table.m`: the sort that makes the table of a password, and its inverse |
| `Settings` | user defaults, `set_config`, `config_encryption` and a connection that reads their globals, on two threads |
| `Profiles` | the Mac's profiles: window, menu, stored configuration, runner's keys |
| `SystemProxy` | the Mac's proxy settings: switch, mode, preferences, helper |
| `Browser` | abstract specification: pages, the one on the screen, what was saved |
| `Tabs` | the iOS tabs and pages, and their refinement of `Browser` |
| `Background` | `RunInBackground`: main thread, queue and run loop |
| `RelayProof`, `AcceptorProof`, `EventLoopProof`, `SettingsProof`, `ProfilesProof`, `SystemProxyProof`, `TabsProof` | theorems about the module they are named after |
| `EncryptionProof` | theorems about `Keystream` and `TableCipher` |
| `MCRelay`, `MCAcceptor`, ... | the same for TLC, with their configurations |

`Relay`, `Acceptor` and `EventLoop` are three views of one thread, each of which
justifies what another takes for granted. `Relay` takes a connection's beginning for
one step: `Acceptor` implements `Lifetimes`, which says so. `Relay` lets a callback run
only for a watcher that is started, and assumes that one that stays enabled runs:
`EventLoop` shows both (`CallbackOfStarted`, `Served`). `Acceptor` lets ends go in any
order and number: which orders there are is `Relay`'s business.

### Relay

One action is one invocation of a callback by `ev_run`, from its start to its
return, or one thing the kernel or a peer does. Callbacks do not overlap (one
thread, one loop), so they are atomic; what interleaves is the order in which
they run and the network between them. A callback that reads `EAGAIN` and returns
is a stuttering step.

| Variable | Code |
|---|---|
| `live`, `ptr` | which of `struct server`, `struct remote` are allocated; which of `server->remote`, `remote->server` are not NULL |
| `active` | the watchers between `ev_io_start` and `ev_io_stop` |
| `connected`, `stage` | `remote->send_ctx->connected`, `server->stage` |
| `remoteBuf`, `remoteLen`, `serverBuf`, `serverLen` | the position in the stream of the first byte in `remote->buf` and `server->buf`, and the two `buf_len` |
| `decoder` | `recv_encryption_ctx`: no IV yet, set up, or set up with a wrong IV |
| `cRead`, `fRead` | how much `recv` has returned from each socket |
| `cSent`, `fSent`, `clientEnd`, `farEnd`, `link` | the peers and the outgoing connect |
| `toFar`, `toClient`, `intact` | what the two receivers have got, and whether it was what they should get next |
| `whole`, `reply`, `ended` | history the properties speak about |

Bytes are positions in the sender's stream, so loss, repetition and reordering
show, and contents do not matter. Every send takes an arbitrary prefix, every
`recv` returns an arbitrary number of the bytes there are. A request the code
refuses is one action for all its reasons, since what the client asked for is not
modelled. Encryption on the way up adds the IV to the request header only, which
is sent whole or not at all, so positions on the way up are those of the
plaintext.

What is assumed, as the code does: the properties about the way up speak of
connections whose greeting and request came in one `recv` each (`Framed`), those
about the way down of connections whose first `recv` brought the whole IV
(`decoder # "garbled"`); the model has the other behaviours too.

### Pipe

A pipe is shut, open, done, aborted or spoiled. Open, it delivers what was sent,
in order and once; it can only be done when everything sent was delivered;
aborted it delivers nothing more. `Relay` implements it twice (`Up`, `Down`),
with `mode` read off the stage, the framing and the event that ended the
connection. A pipe can be aborted at any time: the code has no half-closed
connections, and a client that shuts down its sending side loses the answer.

### Keystream

`cipher_update` runs the cipher from a block boundary over as many bytes of
padding as the current block has used up. The model keeps `ic` and
`bytes_remaining` of the encrypting and the decrypting context and, for every
byte of ciphertext, the index of the keystream byte it was combined with.

### TableCipher

`get_table` is a loop of sorting passes and a loop that inverts. `merge_sort` works in
place and calls itself; a step is one entry to it, one return or one byte that `merge`
puts back. Keys are computed as in C: an unsigned difference of remainders, cut to an
int. The hash of a password is any number, and `get_table` is called again over the
tables of another one, as it is at every reload. The order within a pass is compared
with the definition of a stable sort, not with another program's table: the server makes
its own, with its own sort, and the two agree if both are stable.

| Variable | Code |
|---|---|
| `at`, `inverted` | which loop of `get_table` is running; the second one's `i` |
| `_a`, `_i`, `encrypt_table`, `decrypt_table` | the globals of these names |
| `stack` | the calls of `merge_sort` under way: segment, and how far each has come |
| `ltmp`, `rtmp` | `merge`'s copies, without what it has put back; `result` follows from their lengths |
| `before` | history: the table when the pass began |

### EventLoop

The phases of an iteration of `ev_run` are `fd_reify`, `select`, feeding the events it
returned and invoking the queue from its end. In the middle of a callback the program
may start and stop watchers, close a descriptor with both of its watchers and open one
again, of any connection: an action each, which together are every callback of
`local.m` and more. A watcher is named by its descriptor and event, so a struct made
for a reused number has the watchers of the one before; that an old entry cannot be
taken for a new watcher's is the point of `PendingSound`.

| Variable | Code |
|---|---|
| `open`, `ready` | descriptors and what the kernel has for them |
| `active`, `fresh` | `anfds[fd].head`; `EV__IOFDSET` in `w->events` |
| `pending`, `pendings` | `w->pending`, `pendings[0]` |
| `events`, `reify`, `fdchanges` | `anfds[fd].events`, `anfds[fd].reify`, `fdchanges[]` |
| `pollset` | `vec_ri`, `vec_wi` |
| `phase`, `found`, `running` | how far `ev_run` has got |

select is modelled because it is what libev recommends on Apple's systems, kqueue and
poll being broken there (`ev_recommended_backends`). It may fail or be interrupted
(`PollInVain`).

### Acceptor

`accept_cb` is split at each call that can fail, though nothing else of the thread runs
in between, since the descriptors and the client are in different states there. A
connection's life after that is reduced to its end: one of its ends, or both.
`failures` counts what the code gives up without closing. `open \ Held` are the
descriptors nobody knows any more.

| Variable | Code |
|---|---|
| `at` | the place in `runProxy`, `local_main` or `accept_cb` |
| `port`, `backlog` | the kernel: who has the port, who waits |
| `listenfd`, `live`, `fd`, `open` | the listener's number, the structs and their `fd`s, the process's descriptors |
| `serving` | the client between `accept` and the start of its watchers |

### Settings

The unit of interleaving is one assignment to a global or one `setObject:forKey:`;
strings, keys and tables that take several are `Torn` in between. Memory is taken to be
sequentially consistent, which is more than the code may count on: what the model shows
to go wrong does, and what it shows to hold is about configurations and connections
that do not overlap. The value of every global is the server it was written for.

On the proxy thread `settingsAreNotComplete`, `isUsingPublicServer` and each of the four
reads of `reloadConfig` are steps of their own; the keys that one call of
`settingsAreNotComplete` looks at are read together. That `EVP_get_cipherbyname` gives
NULL for a method of the list is not modelled: with the OpenSSL in the repository it
does not.

A method that was never stored is read as `Default` (aes-256-cfb), a configuration's
method like any other. `config_encryption` reads `_method` back after writing it, so a second `set_config` that
overlaps can make one thread configure for the other's method (`Mixed`). The connection
is one direction of one connection, with what it copied and when; `touched` says that a
global was written since it was accepted.

### Profiles

One action per event of the main thread. A profile's contents are one value of `Says`,
or `Blank`, which stands for all that `validateCurrentProfile` refuses; contents are
told apart as a profile keeps them, its port as an integer. Its `id` is not in the code
and lets the properties follow a profile. `openSSURL` only looks where the colons and
the at sign are, so `Blank` can come from a URL, and, opened before anything was
stored, into the profile that `configuration` makes of the runner's keys
(`HalfProfile`), which a choice in the menu stores unchecked. `BlankOnlyByURL` says that
this is the only way, and that no other profile comes to stand beside such a one.

Rows count from 1, so that `PublicServer`, -1 in the code, is 0. The table does not
allow an empty selection (`ConfigWindow.xib`), so `remove` leaves the last row selected,
and `add` selects the new one. A window that shows no row keeps its fields as they are,
and OK validates them all the same.

### SystemProxy

An event of the main thread makes a list of runs of the helper and says what follows
them; the runs are steps of their own because the application can be killed between
them. `Helper` either sets what it was asked for in all services or nothing
(authorisation refused); its output is only logged. It is taken to be installed: without
it `launch` throws. A preference that was set is taken to be stored. `sound` is the
history that says when the properties can be expected to hold: the last run was
authorised and nobody else changed the settings since. A crash does not end it.

One crash the application does not get over: killed after `toggleRunning` has switched
on and before it has saved so over a preference of NO, it starts again off and does not
look at the settings, which stay on. `stranded` marks this, until the next authorised
run; the properties name it as their one exception, and say that the settings are on
while the menu says off in this case and no other. The same crash while switching off
is repaired: the next start switches on again, as the preference says.

### Background

The block on the queue makes the audio timer and the log timer (`PrintLog` is always
defined), notes its loop, adds the timer and runs; the main thread stops the loop, then
invalidates and forgets both timers. `clean` is the history the properties need: every
stop came when the last block was in its loop. If one comes a moment earlier the stop is
lost and the timers are taken away, the loop may hang without any, and the song is never
played again; that is the hazard at `RunInBackground.m:102`. `Notice`, a loop without
timers that happens to wake, has no fairness, since nothing promises it.

### Tabs and Browser

Everything here runs on the main thread, so one action is one user event, one
callback of a web view or one life-cycle event, with the delegate calls it makes
among the four objects. Those calls are nested (closing a tab selects another,
which switches the web view, which may create one and evict another, before the
page is removed); the operators on the cache (`Room`, `Created`, `MoveToEnd`,
`SwitchTo`, `CloseView`) are applied in the order of the calls.

| Variable | Code |
|---|---|
| `tabs`, `currentTab`, `currentMaxTag` | `SWBTabBarView`, tabs by their tags |
| `pages`, `tagToPage`, `url`, `selected` | `SWBPageManager` and the fields of its `SWBPage`s |
| `cached`, `currentWebView` | `SWBWebViewContainer` |
| `file` | `pages.json` |
| `shownLast` | history: the order in which the open tabs were last shown |

An object is removed from a list at its place (`Without`, `Drop`), since a list holds
it once. What the loop of `addNewTab` leaves after a relaunch is written in one go: the
last web views that fit, then the one that is shown (`Restored`, `RestoredAndShown`).

A page has an identity the code does not give it, kept through the file, to say
which page came back after a relaunch. The process can be killed at any time
(`Relaunch` has no save in it), and the system may have emptied the caches
directory the file is in (`StartAnew`). `[NSURL URLWithString:nil]`, reached when
an evicted tab is closed, is taken to return nil, as the code that follows it
expects.

`Browser` knows none of tags, caches and objects: closing a background page leaves
the screen alone, a page changes its address and no other's, and a relaunch brings
back what was saved last, with the page that was on the screen.

## Runs

| Run | Shows | Bounds |
|---|---|---|
| `relay_safety` | memory safety, exclusive buffers, no struct stranded, no byte lost, both refinements | greeting 1, request 2, IV 2, buffer 3, 6 bytes up, 5 down |
| `relay_liveness` | `Freed`, `Delivered` under fairness, with the libsodium crash | greeting 1, request 2, IV 2, buffer 2, 5 bytes up, 4 down |
| `relay_reply` | `ReplyBeforeRelay` does not hold (see Findings) | small |
| `keystream` | round trip, scratch buffer | block 4, chunks to 6, 14 bytes |
| `table_cipher` | the tables are inverse permutations, also over those of another password; every pass is a stable sort | 8 bytes, 23 passes, 21 hashes, 2 calls |
| `tabs` | tabs and pages match, the screen agrees, the cache keeps the tabs shown last, each view has its own page, addresses reach only their own page, `Browser` is implemented | 3 tabs, 3 tags a process, cache 2, 1 after a memory warning, two addresses, one page at a time away from the first (`OnePageAway`) |
| `event_loop` | the queue and select's sets are sound, only started watchers are called, ready ones are served | the listener and one number that is closed and reused |
| `acceptor` | one owner per descriptor, losses accounted for, `Lifetimes` implemented, nobody waits for ever, the retries end | 3 clients, 5 descriptors |
| `settings` | configurations are installed whole, undisturbed connections use one, OpenSSL ones keep it, the proxy starts | a table and a libsodium server, the public (OpenSSL) one, 2 saves |
| `profiles` | edits land, only URLs bring incomplete contents, the current profile is followed, the menu is honest | 3 profiles, 2 contents |
| `system_proxy` | the system does what the menu says and quitting leaves nothing, with one crash excepted; off means hands off | none: the state is finite |
| `background` | plays on in the background, quiet in the foreground | 4 visits to the background |

The bounds let every interesting case happen: a buffer of 3 allows a partial send
that is itself sent in parts, a first `recv` shorter than the IV, exactly it and
longer; six bytes up are a handshake and a full buffer after it; chunks of up to
one block and a half stop short of, at and beyond a block boundary, and 14 bytes
span three blocks. Eight bytes make a merge sort three levels deep, and with remainders
of up to 31 there are ties and differences below zero in every pass. Three tabs over two web views evict in every way (opening,
switching, closing an evicted tab, restoring, a memory warning); the code's ten and two
are only larger. The file can hold pages closed since, so twice as many identities as
tabs are enough. One page away from the first address is enough for another to be given
its address wrongly; the theorems of `TabsProof` hold without any of these bounds. Three clients and five
descriptors are two whole connections, the listener and one client who finds nothing
left, and a descriptor lost to a failure leaves room for one connection. One number
beside the listener's is enough for reuse, since descriptors touch each other only
through the queue, where the listener's entries mix with it. Two saves are a
configuration on each thread and one over it; three kinds of cipher make every change
from one set of globals to another. Three profiles (two new ones and the one made from
the runner's keys) have a first, a middle and a last row. Each run has the mutants `PROJECT.json` lists: definitions
with a plausible bug, in the modules beside the right ones, each of which breaks
the property it is listed for.

The system stops only after both structs are freed; `Over` is that state's
self-loop, so the deadlock check of the relay runs is meaningful. `keystream`,
`table_cipher`, `settings` and `background` stop at their bounds, and `acceptor` when failures have
cost every descriptor and the remaining clients wait; they switch the check off.

Fairness of `Relay`. `ev_run` is level triggered and serves every pending watcher in each
iteration, so a callback that stays enabled runs: weak fairness of each of the
four callbacks and of `Accept`. That a pending send makes progress assumes the
peer reads or resets; that a connect resolves (`ConnectDone`) is the kernel's
timeout. Peers need not do anything. That `ev_run` does serve every watcher whose
descriptor stays ready is `Served` of `EventLoop`, under weak fairness of its own steps
and strong fairness of `Poll`: a `select` that could return something is not interrupted
every time. `Acceptor` assumes that the thread runs (with it that `getaddrinfo` returns)
and that connections end some time, strongly, because they can end only between other
callbacks; `Settings` and `Background` that both threads run.

## Findings

- `local.m:244` compares the result of `send` (signed) with `reply_size`
  (unsigned). A failed send, -1, is not smaller, so the connection goes on to its
  relaying stage although the reply was not sent; the branch that should have run
  logs "header not complete sent" and closes both ends. The run `relay_reply`
  shows it in nine states: the client resets while its request is in the socket.
  The next callback on that socket sees the error and tears the connection down,
  so what is wrong does not last.

Four things the code does are not findings, since nothing in the repository states
the opposite: an incomplete `ss://` URL is accepted, and as long as nothing is stored the
profile made of it can be stored (`ShadowsocksRunner.m:63`, `ProfileManager.m:24`); a
crash between switching on and saving it leaves the proxy set for good if the preference
was NO (`SWBAppDelegate.m:428`); a load that ends in a background tab writes
its address into the address field (`SWBViewController.m:237`), and the second of
two loads switches the activity indicator off
(`SWBNetworkActivityIndicatorManager.m:25`).

## Proofs

| Module | Theorem | Property |
|---|---|---|
| `RelayProof` | `TypeCorrect` | `TypeOK` |
| | `PointersAndBuffers`, `OneUserPerBuffer`, `NobodyStranded` | `MemorySafe`, `BufferExclusive`, `NotStranded` |
| | `StreamIntegrity`, `GaplessStreams` | `NoByteLost`, `StreamsIntact` |
| | `NothingOverwritten` | `NoOverwrite` |
| | `UpImplementsPipe`, `DownImplementsPipe` | `UpIsPipe`, `DownIsPipe` |
| `AcceptorProof` | `AcceptorTypes` | `TypeOK` |
| | `DescriptorsOwned`, `OnlyFailuresCost` | `OwnDescriptors`, `Accounted` |
| | `ImplementsLifetimes` | `AllOrNothing` |
| `EventLoopProof` | `LoopTypes` | `TypeOK` |
| | `QueueIsSound`, `KernelInStep` | `PendingSound`, `PollSetRight` |
| | `OnlyStartedAreCalled` | `CallbackOfStarted` |
| `EncryptionProof` | `KeystreamCorrect`, `ScratchSuffices` | `TypeOK`, `Aligned`, `RoundTrip`, `ScratchFits` |
| | `TableTypes`, `MergeStaysInside` | `TCTypeOK`, `StaysInside` |
| | `TablesAreInverse`, `PassesSortStably` | `TablesInverse`, `SortsStably` |
| `SettingsProof` | `SettingsTypes`, `ConfigurationInstalled` | `TypeOK`, `Installed` |
| | `OneConfigurationUsed`, `OpenSSLKeepsItsKey` | `OneConfiguration`, `OpenSSLSurvives` |
| `ProfilesProof` | `ProfilesTypes` | `TypeOK` |
| | `FieldsOfTheirRow`, `BlankOnlyFromURL` | `EditsLand`, `BlankOnlyByURL` |
| | `CurrentIsFollowed`, `MenuIsHonest` | `CurrentFollows`, `MenuHonest` |
| `SystemProxyProof` | `ProxyTypes` | `TypeOK` |
| | `MenuAlwaysAgrees`, `QuitCleansUp`, `OffMeansHandsOff` | `MenuAgrees`, `NothingLeftBehind`, `HandsOff` |
| `TabsProof` | `TabsTypes` | `TypeOK` |
| | `TabsAndPagesMatch`, `ScreenIsOne` | `OnePagePerTab`, `ScreenAgrees` |
| | `CacheKeepsMostRecent`, `ViewsKeepTheirPage` | `CacheIsMostRecent`, `OwnPage` |
| | `AddressesStayHome`, `ImplementsBrowser` | `AddressIsOwn`, `IsBrowser` |

They hold for all values of the constants that satisfy the modules' assumptions:
message lengths and buffer size positive, any IV length (`RelayAssumption`); a scratch
buffer of at least a block and a chunk (`KeystreamAssumption`); any hashes and any
number of bytes and passes, as long as bytes fit a `uint8_t` and a difference of
remainders an int (`TableAssumption`, which 256 bytes and 1024 passes satisfy); any
clients and descriptors; any profiles and contents; any servers, names chosen apart; any pages,
addresses, sizes of the cache from two web views, or one after a memory warning, up, and
room for one tab (`TabsAssumption`).

`StreamsIntact` and `NoOverwrite` are proved and not among the runs' properties: the
first is what `Up` and `Down` promise at any moment, the second is what
`BufferExclusive` is for.

None of the properties is inductive. `Relay`'s invariant is `RelayInv`, whose parts are
proved one on top of the other:

- `ConnInv` says which sets of watchers can be started in which phase (connecting,
  handshake, relaying, one end left), and that pointers are mutual while both ends
  live;
- `FlowInv` ties buffers to phases: before stage 5 nothing has been relayed, an
  orphan's `buf_len` is zero, and `remote_send` is started after the connect only
  with a length that is really a backlog, which is what keeps the stale
  `remote->buf_len` harmless;
- `UpInv` and `DownInv` say where the receiver's position, the backlog and the
  sender's stream meet, in each phase.

The refinements follow: every action of `Relay` is a step of the pipe or leaves
its three variables alone.

`EventLoopProof` strengthens `PollSetRight`, which speaks of one phase, to all of them:
what the backend was asked for may differ from what the watchers want only for
descriptors that are noted in `fdchanges`, and a descriptor is noted exactly when its
`reify` is set. With it go the facts that started watchers are of open descriptors and
that the queue and the watchers name each other.

`AcceptorProof` adds to `OwnDescriptors` where the client being served is and what it
holds at each place of `accept_cb`, and that structs not allocated have no number. The
count of lost descriptors goes up by one in the two steps that fail and stays in all
others: in those, the descriptors that leave the set of those known are the ones that
are closed.

In `EncryptionProof`, lemma `Carry` is the arithmetic of quotient and remainder;
everything else about `Keystream` treats `ic * Block + rem` as one number.

The sort's invariant is `TCInv`. `TablesPermuted`: between passes the table is a
permutation of the bytes (while `merge` is at work it is not). `CallsNested`: the segment of a call is
the half of its caller's that the caller is waiting for. `SegmentsSorted`: at each place
of each call, either half of its segment is as it was when the pass began (`Untouched`),
or sorted (`Done`: the same bytes, in the order of the pass, which is by remainder and
then by their place in `before`), or being merged (`Merging`: what has been put back, what
is left of the left copy and what is left of the right one are together the bytes of the
segment, each is sorted, what has been put back precedes the rest). What is outside the
segment of the innermost call is its callers' business and does not change, so a return
hands its caller a sorted half. The order of the pass is total, and this is where the
comparison counts: a tie goes to the left copy, whose bytes came before those of the
right. No induction over the recursion is needed, since the calls are in the state.
`TablesInverted` follows the second loop: entries inverted so far are right, whatever the
table held before. `MergeStaysInside` is what the C code takes for granted: `result` does
not leave the segment and there is room in it for all that is left in the copies.

`ProfilesProof`'s invariant lets only the selected row of the window be unfinished,
which is why a step to another row, adding and OK have to validate and removing need
not, ties the fields to that row, and follows the current profile by its number. What
is stored or about to be made of the runner's keys is either complete or `HalfProfile`
(`Kept`), which has one row, the one the window then selects.

`SettingsProof` rests on what a global will be once a thread has made its assignments
(`WillBe`): as long as no two configurations overlap, that is what the thread's arguments
say, at every point of `set_config` and `config_encryption` (`Pending`), and with nothing
left to assign it is what is there (`InForce`). For a connection, `Taken` says at each
place of `accept_cb` and of its first chunk what it has copied; the globals still fit the
configuration it began with unless one was written since, and an OpenSSL context that
was made before that is its own. Its type invariant needs to know of each key of the
user defaults that only values of its kind are stored under it (`KindsInv`).

`TabsProof`'s invariant has four parts. `Lists`: tabs and pages are as many, the mapping
is one to one between them, and every tag is below the counter, so that a new one is
new. `Cache`: the web views are those at the end of the order in which the tabs were
shown. `Screen`: the end of that order is the current tab, the container's web view and
the page marked. `FileInv`: what was saved has no page twice and exactly one marked, from
which a relaunch re-establishes the other three. The types need the bounds of the model
as well (`BoundsInv`): no more tabs than `MaxTabs`, in the file neither. Each operator on
the cache keeps `Cache`, which makes the nested calls of the handlers one lemma each.

`SystemProxyProof` keeps, for every list of runs still to come, what a crash at that
moment must find: the preference does not say NO while Shadowsocks is on or about to be
on again (`Wish`), except while "on" is waiting to be saved; and between events, and before
the run that switches on, the settings are on with the menu off exactly when `stranded`
(`Agree`, `Left`).

Only model-checked: the liveness properties (`Freed`, `Delivered`, `Served`,
`EveryoneTaken`, `ListensAtLast`, `ListensOnceComplete`, `KeepsPlaying`, `QuietAgain`),
since liveness under fairness is beyond the prover, and the finding. `Background` has
only liveness properties, so no theorem is about it.

## Plan

1. The two ends of a tunnel: `Relay` composed with `Keystream`, so that chunks cut by
   the network are those the context sees.
2. The enabling conditions on which the liveness properties rest, as lemmas without
   `ENABLED`: what the state must be for nothing to be left to do.

## Not modelled

Contents of messages (addresses, names, ports), the ciphers' arithmetic, key
derivation, logging, drawing and dialogs; idle timeouts, which the code does not have.
`cleanup_encryption`, which frees a context with its connection; the PAC file and the
web server that serves it; the network activity indicator; `SWBackgroundTask`, which
nothing starts any more.

Almost all lines of the repository are other people's code kept in it: headers of
OpenSSL and libsodium, the Pods, polipo, zxing, and libev beyond `ev_run`, io watchers
and select. The program itself is some seven thousand lines, most of them views.
