# TLA+ models of l3tc's io layer

This directory holds TLA+ models of `src/src/io.c`, the event loop of the
l3tc L3 tunnel daemon. The models are checked with TLC. Each module models
one component from its source. An `MC_*` module gives the constants for TLC,
and each `*.cfg` file is one run. `PROJECT.json` lists:

- the components and whether each is modelled;
- the runs and what each one shows;
- the seeded mutants that each passing property must detect;
- the source lines that each definition models (`map`);
- the findings and the hazards of the code.

## The system

`io.c` is a single-threaded epoll loop, `io()` at lines 1187-1214. The
parts of the system and how they interact:

| Part | Code | State |
|---|---|---|
| Ring buffer | `ring_buff_s`, `drain_ring`, `fill_ring`, `ring_empty`, `init_backlog_ring` | `start`, `end`, `wraped` over `sz` bytes |
| Connection I/O | `conn_io`, `send_bl_batch`, `recv_batch` | a tx and an rx ring per connection |
| Tun framer | `push_to_tun*`, `parse_l3_packet_len`, `push_pkt_to_tun_or_ring`, `push_pkt_to_tun_backlog_ring`, `playback_tun_write_buf` | the shared tun backlog ring |
| Tun writer | `write_to_tun`, `expand_tun_wbuff_if_necessary` | the `w_buff` reassembly buffer |
| Tun to connection | `read_tun_and_xmit`, `write_to_conn`, `read_from_tun_buff`, `write_passthru_to_conn`, `tun_io` | `r_buff`, drop counters |
| Peer table and reconciler | `reset_peers`, `capture_passive_peer`, `connect_and_add_passive_peer`, `disconnect_and_discard_passive_peer` | `passive_peers`, `disconnected_passive_peers`, `live_sockets` |
| Socket lifecycle and routes | `add_sock`, `destroy_sock`, `destroy_conn_sock_data`, `setup_conn_route`, `drop_conn_route` | `all_sockets`, the ipset |
| Listener | `do_accept` | none |
| Controls | `trigger_peer_reset`, `trigger_io_loop_stop` | `do_peer_reset`, `do_stop` |

Data flows two ways:

- A connection's rx ring is filled by `recv` and pushed to the tun device by
  the framer. The bytes go directly, or through the tun backlog when the
  backlog is non-empty.
- A packet read from tun is looked up in the live-sockets map and copied,
  whole or not at all, into that connection's tx ring. `drain_ring` sends
  the tx ring when the socket is writable.

A reload is requested by a signal. It runs `reset_peers` after the events of
an epoll iteration. `reset_peers` diffs the peer file against the
passive-peer table, then connects the new peers and discards the old ones.

## Modules

- **`Ring`** holds the ring arithmetic, with one operator for each branch of
  `drain_ring` and `fill_ring`. A ring is the record
  `[start, end, wraped]` over `Sz` slots. `Ring` has no variables.
- **`RingFifo`** is the abstract specification of a ring: a bounded FIFO of
  numbered bytes, in which one step puts `k` fresh bytes and takes `m`.
- **`RingIO`** is one ring driven by `drain_ring` and `fill_ring`, one loop
  iteration per step, with `op` as the loop being run.
  - The handlers and pushers are arbitrary within the `io_handler_fn_t`
    contract (lines 742-745):
    - a handler advances its tracker by `k` bytes of the span it is shown;
    - it says OK only when `k >= 1`;
    - a pusher takes `moved` bytes from the head.
  - `buff` records which byte number is in each slot, and `written` counts
    the bytes produced.
  - `FifoRefinement` checks `RingFifo!Spec` under the refinement mapping
    `q <- Content(r, buff)`.
- **`Peers`** covers the peer table, the reconciler, connection-socket setup
  and destroy, the routes, and inbound accepts.
  - Addresses are integers. `memcmp` on network-order IPv4 addresses orders
    them like integers.
  - A peer file is a set of addresses, or `NoFile`. DNS resolution and line
    parsing are left out.
  - `reset_peers` is split into these steps:
    - `ReloadScan` builds `updated_passive_peers`, allowing failed captures;
    - one `Discard(a)` per old peer;
    - `DiscardDone`;
    - one `Connect(a)` per new peer;
    - `ReloadDone`.
  - While a reload runs (`pc # "idle"`), no event is handled, because the
    loop is single-threaded.
  - `Accept(a)` is `do_accept`. `SetupSock` gives the four ways a socket
    setup ends:
    - "refused": the fd is closed before the socket is linked;
    - "epoll": `epoll_ctl` failed;
    - "route": `ipset add` failed;
    - "ok".
  - The assert build is a constant. With `AssertsOn = FALSE`, as with
    `NDEBUG`, an expression inside `assert()` is not evaluated. This matters
    at lines 133 and 681, where the asserted calls have side effects.
  - A failed assert ends the model in `halt = "abort"`. Undefined behaviour
    ends it in `halt = "ub"`. Examples of undefined behaviour are
    `LIST_REMOVE` of an element that was never linked and `fgets(NULL)`.
- **`TunFramer`** is the receive path of one connection: conn_io's EPOLLIN
  half runs `fill_ring` on the rx ring with `recv_batch` and `push_to_tun`.
  - Bytes are stream positions of the peer's TCP stream, which is the
    packets it sent, one after another. A packet is a 4-byte header
    `[version, TOS, length high, length low]` in base `Radix` and a zero
    payload, so `parse_l3_packet_len` reads real bytes, with the x86
    little-endian load and `ntohs`.
  - A step is one pass of `fill_ring` (`FillWrapRx`, or `FillPassRx`:
    `recv_batch`, then `push_to_tun` up to the ipv4 loop) or one iteration
    of `push_to_tun_ipv4` (`PushIpv4`). `PassEnd` is the tail of a pass: the
    head advance, the `full` flag, the loop condition and the destroy on
    `CONN_KILL`.
  - `TunPush` is `push_pkt_to_tun_or_ring`: writev succeeds, blocks (to the
    backlog) or fails (returns 0, at most `MaxTunErrors` times).
    `BacklogFill` is the whole `fill_ring` call on the tun backlog with
    `playback_tun_write_buf`, RECURSIVE over its passes, and finds its spin.
  - `RecvAdvancesEnd` chooses `recv_batch` as written (`end += rcvd`, which
    moves a local pointer) or as intended (`*end += rcvd`).
  - `halt` records an abort, a NULL dereference ("crash"), the backlog spin
    ("hang") and a destroyed connection ("closed"). Each is terminal.
  - The ghost `misread` is set when a header read by a branch of
    `parse_l3_packet_len` other than the first is acted upon.
- **`TunToConn`** is the path from tun to a connection, with the
  connection's EPOLLOUT drain.
  - `TunEvent` and `TunRead` are `tun_io`'s EPOLLIN half and one read of
    `read_tun_and_xmit`'s loop. A read of a packet of length `L` gives
    `min(L, ReadCap)` bytes (`r_buff.capacity`). It then either finds a
    connection in `live_sockets` or it does not. Not finding one gives a
    drop, which is `write_to_conn`'s NULL branch. `TunDone` is the read
    that fails with EAGAIN.
  - `FillWrapTx` and `FillPassTx` are the passes of `fill_ring` on the
    connection's tx ring, with `read_from_tun_buff` as the handler and
    `write_passthru_to_conn` as the pusher. `FillPassTx` includes the
    NOT_ENOUGH_SPACE drop and the head advance.
  - `ConnEvent`, `DrainWrapTx`, `DrainEnd` and `DrainSend` are `conn_io`'s
    EPOLLOUT half: `drain_ring` with `send_bl_batch`.
  - The socket is a buffer of `Window` bytes. `PeerRead` is the peer
    reading it. A send accepts `min(len, room)` bytes, and EAGAIN when
    the room is 0.
  - The constant `SendAdvances` chooses `send_bl_batch` as written
    (`start += sent` on the local pointer, so the tracker stays) or as
    intended (`*start += sent`).
  - `wire` is the sequence of byte numbers that reached the socket. `fwd`
    and `drop` are the packets forwarded and the drop counters
    (`c_world_tx.drop_p` and `drop_b`). `evOut` records an EPOLLOUT edge
    that has not been delivered yet.
- **`EventLoop`** is `io()`'s loop with `handle_io_evt`.
  - `pc` is where the loop thread is:
    - `"test"` is the `do_stop` test;
    - `"call"` is between that test and the thread blocking in
      `epoll_wait`;
    - `"wait"` is blocked;
    - `"dispatch"` handles the batch, one event per step;
    - `"tundrain"` is inside `tun_io`'s `drain_ring`;
    - `"check"`, `"reset"` and `"clear"` are the reload test,
      `reset_peers` and `do_peer_reset = 0`.
  - `SignalReload` and `SignalStop` are `trigger_peer_reset` and
    `trigger_io_loop_stop`, called from signal handlers between any two
    steps. One that arrives in `"wait"` makes `epoll_wait` fail with
    EINTR (`Interrupted`).
  - Handlers are one step, with the outcomes the loop sees:
    - `DispatchConn` runs both halves of `conn_io`, since the `|` tests
      are always true. Either half may end in `CONN_KILL` and
      `destroy_sock`. That aborts an assert build, because of the assert
      on the never-filled live map. With NDEBUG it frees the socket, and
      the EPOLLIN half then uses it (`halt = "uaf"`).
    - `DispatchLstn` accepts every pending connection.
    - `TunIo` leaves `drain_ring` only if the ring it is handed is
      empty.
  - `ConnTxOfTun` is the ring `tun_io` actually hands over. It is the
    LP64 layout of `d.conn.tx` over the tun socket's `d.tun.w_buff`, with
    start `w_buff.capacity`, end `w_buff.len` and `wraped` taken from
    `current_pkt_len`.
  - `owed` and `stopBlocked` are history variables for the properties.
  - The constants choose the code as written or as intended:
    - `TunDrainsConnTx`: the aliased ring, or the backlog `d.tun.tx`;
    - `AssertsOn`: an assert build, or NDEBUG.
- **`MC_RingIO`**, **`MC_Peers`**, **`MC_TunFramer`**, **`MC_TunToConn`** and
  **`MC_EventLoop`** give the constants for TLC.

## Runs

| Run | Expect | What it shows |
|---|---|---|
| ring_fifo | pass | `drain_ring` and `fill_ring`, with contract-keeping handlers, implement a bounded FIFO across every wrap, and `drain_ring` returns (`DrainTerminates`). |
| ring_fillspin | violation | `fill_ring` with a NULL pusher, used for the tun backlog, spins forever once `full` is set. |
| peers_core | pass | In an assert build, with copy, route and epoll failures and a possibly missing file, each completed reload makes the passive table equal to the file's peers above self (`ReloadAppliesFile`), and the disconnected list is exactly the unconnected passive peers, each once (`DisconnectedListExact`). |
| peers_discard_ub | violation | Removing a connected peer from the file unlinks a never-linked element. |
| peers_dup_inbound | violation | A rejected duplicate inbound connection deletes the live connection's route. |
| framer_core | pass | With `recv_batch`'s tracker advanced as intended, every packet written to tun or queued in the backlog is the next packet sent, whole, as long as no header was read by a wrong branch (`FramesWholePacketsUntilMisread`). No byte is lost or duplicated between recv, the rx ring, tun and the backlog (`BytesConserved`). Both hold across wraps, straddles, tun errors, backlog rejections and the backlog spin. |
| framer_misframe | violation | A header starting one byte before the rx ring's wrap is parsed from bytes 1-2. A 1-byte fragment is written to tun as a packet. |
| tunconn_core | pass | With `send_bl_batch`'s tracker advanced as intended, the socket carries the bytes read from tun exactly once and in order (`WireInOrderOnce`). Every packet read is either forwarded whole or dropped and counted in `drop_p` and `drop_b` (`PacketsAccounted`). Under edge-triggered epoll, every byte put in the tx ring eventually reaches the socket (`ForwardedEventuallySent`). |
| framer_abort | violation | With `recv_batch` as written the rx ring stays empty, and `push_to_tun`'s `assert(len1 + len2 > 0)` aborts on the first bytes received. |
| eventloop_core | pass | The loop as written, with `tun_io` draining the tun backlog so that it returns. Signals can arrive at any point of the loop, along with connects and traffic. A stop that interrupts `epoll_wait` ends the loop (`StopHonouredWhenBlocked`). |
| eventloop_lostreload | violation | `io()` clears `do_peer_reset` after `reset_peers` returns (line 1206). A reload signalled after `reset_peers` has read the peer file, and before the clear, is forgotten (`ReloadRequestNotLost`). |
| eventloop_tunhang | violation | As written, `tun_io` drains `d.conn.tx` of the tun socket. That ring is aliased over `w_buff`, with start 4096 and end 0, so `drain_ring` never leaves its loop. The tun socket's first event, its EPOLLOUT edge at registration, keeps the thread there forever, before `reset_peers` has run (`BatchDispatched`). |

Other defects of these components are listed as hazards in `PROJECT.json`:

- no `batab_put` on `live_sockets` exists. No connection is ever found for a
  packet read from tun, and `destroy_conn_sock_data`'s assert on the
  removal fails. `TunToConn` models both outcomes of the lookup;
- the unchecked `fopen`;
- `send_bl_batch` advances its local `start` (line 737), so
  `write_passthru_to_conn` returns 0 after its send went out and the
  packet is sent again. `tunconn_core` checks the fix (`SendAdvances =
  TRUE`); with `SendAdvances = FALSE` `WireInOrderOnce` fails;
- `write_to_conn` busy-waits inside one tun event while the tx ring and
  the socket are both full (line 1120);
- `encountered_failure` is overwritten by every capture (line 574), so a
  failed capture followed by a successful one is forgotten;
- with NDEBUG, a route failure links the passive peer into the
  disconnected list twice (line 670);
- in the event loop: the use after free in `conn_io` with NDEBUG (line
  992), the stop that waits for the next event when it arrives just
  before `epoll_wait` (line 1195), and the `free` of field addresses in
  `destroy_tun_sock_data` (line 146);
- in the tun writer: `*start` is never advanced (line 1016), and an
  uninitialised `pkt_len` is tested (line 1068);
- the removal inside `assert()` at line 681;
- the abort on a failed `ipset add`;
- the two representations of an empty or full ring;
- in the framer: the exact-straddle assert at line 942, the endless retry on
  a tun write error, and the `CONN_KILL` from a 0-byte `recv` on a full rx
  ring.

### Bounds

- **Rings.** A 4-byte ring with 9 bytes written wraps at least twice. That
  gives every case:
  - both wrap branches of each loop;
  - pushes that cross the wrap;
  - a full ring seen by `fill_ring`.

  The byte numbers make loss, duplication and reordering visible.
- **Peers.** Addresses `{1,2,3,4}` with self 2:
  - 3 and 4 are peers this host connects to;
  - 1 is a peer that connects to this host.

  The files are `{}`, `{3}`, `{3,4}` and `{1,4}`. With them a reload can
  add, remove, keep and ignore peers. Three socket objects allow a
  connection, a failed setup and a duplicate. Each injected failure kind
  is allowed once, which is enough to reach each failure path.

- **Framer.** `Radix` 4 with version byte 1. Packets of 4, 5 or 6 bytes,
  at most three, through a 6-byte rx ring: their headers split across the
  wrap at every offset, so every branch of `parse_l3_packet_len` is taken.
  A header's bytes 0-1 read as a length give 4, which fits in the rx ring,
  as 0x4500 fits in `CONN_RING_SZ` (128 KB). The 8-byte backlog is larger
  than the rx ring, as `TUN_RING_SZ` is. Two 4-byte packets fill it exactly,
  which reaches its spin. One tun write error reaches the retry.

- **Tun to connection.** A 4-byte tx ring, packets of 2 or 3 bytes, at
  most three, and a 2-byte socket window. With these bounds:
  - a packet crosses the wrap;
  - a packet is refused for space, which drops it;
  - the tx ring fills while the socket is full, and bytes wait there for
    an EPOLLOUT edge.

  A read capacity of 3 keeps every packet whole. A 9-entry bound on
  `wire` lets the duplicates of the as-written run show.

- **Event loop.** Two connection sockets, the listener and the tun
  socket, so a batch can hold every kind of event. Four inputs
  (signals, connects, traffic) are enough to reach each of these:
  - a reload signalled between `reset_peers` and the clear;
  - a stop that arrives while blocked, and one that arrives in the
    window before `epoll_wait`;
  - a connect followed by traffic on the new socket.

  The `w_buff` fields have the values that `init_tun_tx_backlog_ring`
  gives them.

### Fairness

- The loops of `drain_ring` and `fill_ring` run on the one event-loop
  thread and are never preempted. Weak fairness of their iteration actions
  is therefore justified.
- `Peers` and `TunFramer` check only safety, so they assume no fairness.
- `TunToConn` has weak fairness on the loop iterations and on the end of
  the tun read loop. It also has weak fairness on `PeerRead`: the peer
  keeps reading its socket.
  - The EPOLLOUT edge (`ConnEvent(TRUE)`) is strongly fair. Sockets are
    registered edge-triggered (line 250). `epoll_wait` returns every
    ready descriptor in one batch, so a pending edge is not starved by
    the tun events that keep arriving.
  - An EPOLLIN-only event (`ConnEvent(FALSE)`) has no fairness. In the
    code it drains too, since `event | EPOLLOUT` is always true. The model
    does not lean on that.
- `EventLoop` has weak fairness on the loop thread's steps. The thread
  is never preempted for long, because a signal handler only sets a
  flag. `epoll_wait` returns once an event is ready or a signal
  interrupts it.
  - Signals, connects and traffic are inputs, with no fairness.
  - The loop may therefore block forever in `epoll_wait` once they stop,
    as the real loop does. `EventLoop_core.cfg` turns deadlock checking
    off for that reason.

## Plan

Done, in this order:

1. `Ring`, `RingFifo` and `RingIO`;
2. `Peers`;
3. `TunFramer`;
4. `TunToConn`;
5. `EventLoop`.

Next: the tun writer, checked against the tun backlog that `TunFramer`
fills.

Each new module gets one passing run that checks several properties. The
defects these parts already show are listed as hazards rather than given
runs of their own.

## Not modelled (yet)

The following are planned:

- the tun writer (`write_to_tun`, `expand_tun_wbuff_if_necessary`);
- the IP-version switch of `read_tun_and_xmit`: the IPv4 case falls through
  to the log of the default case, and the packet-length assert;

The tun writer is not modelled yet, for two reasons:

- Its drain runs only through `tun_io`, which as written never reaches
  the backlog.
- The project's runs are spent on the defects above.

Its defects are listed as hazards: the tracker that is never advanced,
and the uninitialised `pkt_len`.

The following are left out, and why:

- **Context setup and teardown** (`init_io_ctx`, `setup_listener`,
  `destroy_io_ctx`). They run once and are pure I/O. The `free` of field
  addresses at teardown (line 146) is listed as a hazard.
- **The hash-table container.** Spec §1 places it out of scope, so it is
  treated as a map.
- **Logging, address formatting and the route command text.**
