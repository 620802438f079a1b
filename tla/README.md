# tcp_vibe in TLA+

A verification project for the TCP stack in `tcp/`: TLA+ modules that model its
core, TLC configurations that check them on small instances, and TLAPS proofs of
what holds for every instance. Definitions keep the names of the Go functions
they translate; `PROJECT.json` maps each one to its lines.

## 1. The system

The repository is a TCP implementation in Go that does not use the kernel's.

| Part | State it keeps | Operations | Made correct by |
|---|---|---|---|
| Sequence numbers (`seq.go`) | none | `SeqLT`, `SeqLEQ`, `SeqGT`, `AcceptableAck` | windows shorter than half the space |
| Congestion control (`congestion.go`) | `cwnd`, `ssthresh`, phase, counters | new ACK, duplicate ACK, RTO | phase agrees with the windows, floors hold |
| TCB and output (`tcb.go`, `statemachine.go`) | the whole connection | `writeSeg`, `sendData`, `sendSyn`, `sendAck`, challenge ACK | all unacknowledged numbers can be resent |
| Data transfer (`data.go`) | `sndBuf`, `rcvBuf`, `oooSegs` | `Send`, `Recv`, `flushSend`, `acceptText` | the stream arrives intact, the buffer is not overrun |
| Flow control (`flowcontrol.go`) | persist, override, delayed-ACK timers | arm, disarm, fire, `advertiseWindow` | window never shrinks, nobody waits for ever |
| State machine (`statemachine.go`) | the 11 states | `ActiveOpen`, `PassiveOpen`, `Close`, `Tick`, `onSegment` | peers agree, end of file after the last byte, closes complete |
| Keepalive, PAWS (`keepalive.go`, `paws.go`) | probe counter, `TS.Recent` | probe, reject, update | live connections and live data survive |
| RTO (`rto.go`) | SRTT, RTTVAR | sample, backoff | the timer runs exactly while something is in flight, no ambiguous sample, no overflow |
| SACK, options, headers, framing | none | build, parse | parse inverts build; blocks describe the buffer |
| Stack (`listener.go`, `conntable.go`) | 4-tuple table, listeners, tick set, accept queue | `Dial`, `Listen`, `Accept`, `demux`, `reap` | live connections are found and driven, dead ones collected, each accepted once, `Close` returns |
| Receive loop (`recvloop.go`) | goroutine, stop flag | `Serve`, `dispatch` | bad packets never reach the state machine |
| Links, ARP (`tcp/link`) | sockets, queues, cache | read, write, close | no wrong address is kept, a packet sent again and again arrives, no packet of another socket enters |
| Rendezvous, hole punching | sessions, deadlines | register, pair, punch, close | a link is a hole from both sides, peers that know each other meet, every call returns |
| IPv4, checksums (`tcp/network`), `cmd/` | none | encode, decode, command line | |

**How they interact.** An application calls a `Conn`; `recvLoop` reads packets
and calls `onSegment`; `tickLoop` calls `Tick` every 100 ms. All three take
`Conn.mu` for the whole call, so a connection is a sequence of atomic steps of
three actors, and the hard part is the order of these steps on both ends and
what the network does in between: loss, duplication, reordering, timers that
race the answer, simultaneous open and close, windows that shut, numbers that
wrap. The Stack adds a second layer of concurrency (table lock, connection
locks, the accept channel, three goroutines), the links a third (a reader
blocked in a system call while another goroutine closes its descriptor), and
hole punching a protocol of its own over UDP. `PROJECT.json` lists the hazards
line by line.

## 2. Modules

| Module | Models |
|---|---|
| `SeqSpace` | `seq.go`; arithmetic modulo an arbitrary even size `2 * HalfSeqSpace`, written without `%` so that the provers can use it |
| `Congestion` | `congestion.go` as operators on a record |
| `CongestionControl` | the controller as a state machine: any event at any time |
| `Rto` | `rto.go`: the estimator and the backoff, with the width of `uint32` |
| `RtoTimer` | the retransmission timer, Karn's rule and the RTT samples of `statemachine.go`, composed with the congestion controller |
| `Tcb` | the TCB as a record, and the helpers that write segments |
| `DataTransfer` | `data.go` and `flowcontrol.go` as operators from TCB to TCB |
| `StateMachine` | user calls, `Tick` and `onSegment`, with `keepalive.go` and `paws.go` |
| `Duplex` | two connections, two applications and a network: the main specification |
| `ByteStream` | the abstract specification: a reliable byte stream each way |
| `SendLoops` | the loops of `flushSend` and `ackRetxQueue` as written, compared with the closed forms |
| `Options` | `options.go`: `Marshal` and `ParseTCPOptions`, byte by byte |
| `Reassembly` | the loops of `insertOoo`, `drainOoo`, `removeFullyConsumedOoo` over the sorted list, beside the set-based operators; `sackBlocks` and the options of an ACK built from that list |
| `ConnLife` | a connection as the Stack sees it: the states it can go through |
| `Stack` | `listener.go`, `conntable.go`: receive loop, tick loop, application and `Close`, one step per critical section |
| `HolePunch` | `rendezvous.go`, `holepunch.go` and the establishment in `udplink.go`: a server, peers, NATs, lossy UDP |
| `Arp` | `afpacket_linux.go`, `arp.go`: hosts on one Ethernet segment |
| `MCDuplex`, `MCRtoTimer`, `MCArp` | constants for TLC (`Stack`, `Reassembly` and `HolePunch` need none) |
| `CongestionTheorems`, `DataTransferTheorems`, `StateMachineTheorems` | what each operator does to a connection: lemmas about `Congestion`, about `SeqSpace`, `Tcb` and `DataTransfer`, and about `StateMachine` |
| `DuplexTheorems`, `RtoTimerTheorems`, `StackTheorems`, `HolePunchTheorems`, `ArpTheorems` | the theorems about the specifications (`RtoTimerTheorems` also about `CongestionControl` and `Rto`) |

**How the modules are composed.** `SeqSpace`, `Congestion`, `Tcb`,
`DataTransfer`, `StateMachine` are layers of operators; `Duplex` makes actions of
them. `RtoTimer` extends `CongestionControl`, and `DrivesCongestion` says that
each of its steps is one of the controller's or leaves it alone; `DrivesTheorem`
proves it for every instance, so that the theorems about the controller hold there
(`DrivenCongestion`). `Stack` has connections that move as `ConnLife` allows,
and `LifeCycle`, proved of `Duplex` (`LifeTheorem`), says that the detailed connection moves in
no other way: the two levels fit together without being multiplied. `Duplex` is shown to implement `ByteStream`.

**State.** A TCB is one record with the field names of the code. `oooSegs` is a
set (the code keeps a sorted list; `Reassembly` shows that the two agree). A
payload byte is its position in the sender's stream. `out` collects what a step
writes to the link and is empty between steps. The variables of `Duplex` are the
two TCBs, the segments in flight to each peer, and history: which peers have
opened, how many bytes were sent and read, how many faults were used. `Stack`
keeps the table, the tick set, `delivered`, the accept channels, and a program
counter with locals for each of the two loops and for `Dial`.

**Steps.** Each action of `Duplex` is one critical section of `Conn.mu`.
`Deliver(p)` is `onSegment`, `Timer(p)` is `Tick` with any non-empty subset of
the armed timers due, `AppSend`, `AppRecv`, `AppClose`, `Open` are the user
calls. Calls that return an error and change nothing (`Send` before
ESTABLISHED) are not steps. `Lose` and `Duplicate` are the network's. In `Stack`
an action is one critical section of `connTable.mu`, `Stack.mu` or `Conn.mu`, or
one channel operation: what `demux` reads under a lock and uses after it can be
stale. A read of a socket link is five steps: the look at `closed` (`FirstLook`),
`Recvfrom`, the second look (`SecondLook`), and in `demux` the packet that is
dropped or the lookup (`Dropped`, `Arrive`); `StackClose` is `close(done)`,
`closed = true`, shutdown and close of the descriptor, and the wait for both loops,
one step each, and any of them may fall between two steps of the read. Once the
descriptor is given back another socket may get its number, and `Recvfrom` then
reads from that one or waits on it (`GoesAstray`). It may fail at any time, which
ends `recvLoop` (`RecvEnd`); after EINTR it only looks again, which is left out. In
`Arp` and `HolePunch` an action is one datagram or frame treated, or
one turn of a polling loop.

**Abstractions.**
- *Time.* In `Duplex` a timer is armed or not. `Timer` needs an empty network
  (`Quiet`: the RTO is longer than the delay) except `MaxExtra` times, shared
  with duplicates, when it expires while the answer is on its way. `RtoTimer`
  has milliseconds and the constants of the code; an entry of the queue is known
  by its age.
- *The network* of `Duplex` is a set per direction: any order, and identical
  copies in flight are one; `Duplicate` delivers a segment that stays in flight.
  In `HolePunch` it is a bag, since three equal punches may be in flight.
- *Options.* In `Duplex` a SYN from `sendSyn` carries all options, a
  retransmitted one none, so one field with three values stands for them. SACK
  blocks and TSecr are left out there: this stack reads no SACK block, and TSecr
  feeds only the estimator (`RtoTimer`). Their bytes are in `Options`.
- *PSH, ports, checksums* are left out; a corrupted packet is dropped by
  `dispatch` and is a loss here.
- *Loops.* `flushSend`, `drainOoo` and `ackRetxQueue` are written in closed form
  (`LoopCount`: the first round that stops), since the prover loses its SMT
  backend to recursive operators. The modules `SendLoops` and `Reassembly` check
  these forms against the loops.
- `RcvBuff`, `NoDelay`, `KeepAlive` stand for `SetRcvBuffer`, `SetNoDelay`,
  `SetKeepAlive` called before the handshake.
- *Hosts.* In `Arp` a host's name is its IP address and determines its MAC; a
  process that starts anew keeps it.

## 3. Runs

Common small values of the `Duplex` runs: `DefaultMSS = 2` (1 in `data`), a
sequence space of 32 (64 in `data`) with ISS just below the wrap (`IssWrap`), so
that every run but `handshake` crosses it, `WScale = 2`, buffers of 4 bytes. No
run checks deadlock: finished connections, closed stacks and peers that have
given up rest.

| Run | Bounds | Shows |
|---|---|---|
| `timers` | 3 sends, 3 delays of 300 ms or 40 s, 3 segments that acknowledge nothing, R2 = 1; timeouts as in the code; with and without timestamps | `TimerRuns`, `KarnsRule`, `EstimatorBounded`, and `PhaseMatchesWindow`, `NeverStarved` of the controller it drives (`DrivesCongestion`) |
| `reassembly` | 7 bytes in pieces of 1 to 3, buffer 5, numbers wrap | `SameAsList`: loops and operators agree on pieces in any order, overlapping and repeated; `SackTruthful`; `OptionsSurvive` for every SYN, SYN-ACK and ACK, whole and cut anywhere |
| `handshake` | both may open actively, b also passively, keepalive on, one loss, one extra copy or early timer, one old SYN, a closes, R2 = 1 | `PeersAgree`: both are in the same incarnation and agree on what is acknowledged, through simultaneous open too; `ProbesAnswered`; `TypeOK` |
| `data` | 3 bytes in one call (three segments), one loss, one extra | `StreamIntegrity`, `AckOwed`, `RetxCovers`, `RecoveryHasLoss`; the extra copy makes the third duplicate ACK, so that fast recovery happens |
| `window` | 3 bytes one way, 1 the other, through buffers of 4 with a shift of 4 and windows sent up to 3, one loss, R2 = 1 | `RcvBufBounded`, `SenderCanWake`, `SenderWithinWindow`, `RightEdgeNeverShrinks`, and `LoopsAgree`; windows are rounded and saturate, and zero windows, probes and lost window updates occur |
| `close` | two bytes one way in one or two segments, both close in any order, one loss, R2 = 2, fair | `EofComplete`, `FinAckedMeansDelivered`, the refinement `ImplementsByteStream`, `CloseCompletes` |
| `delivery` | 3 bytes, one loss, clocks advance once, fair | `StillDeliverable`: what a receiver waits for is queued at its sender and would be taken, whatever the clocks and the fragments say; `SentIsRead`: no deadlock of Nagle, delayed ACK, SWS, windows or PAWS |
| `stack` | one 4-tuple, two connections made, accept queue of 1, one Listener | `LiveIsFound`, `Driven`, `DeliveredOnce`, `OwnPacketsOnly`; `DeadAreCollected`, `OfferedAgain`, `CloseReturns` under fairness |
| `holepunch` | three peers in one session, one behind a full-cone NAT, four turns until a deadline, one lost datagram or early timeout, the server closed at any moment | `HoleIsMutual`, `DialReturns`, `PairMeets`, `RegistrationPairs` |
| `arp` | three hosts, one flow each way between two of them, one lost frame, one restart, links closed at any moment | `CacheTruthful`, `PacketArrives` |
| `fin_before_data` | Close with unsent bytes | violated, see below |
| `zero_window` | a reader that stops, R2 = 2 | violated, see below |

**Why the bounds are enough.** The code's decisions are comparisons of numbers
(segment against MSS, window against zero, number against window edge, counter
against limit); each bound lets every outcome of these comparisons occur, and
the passing runs fire every action. One loss with R2 = 2 covers a lost segment,
a lost ACK, and the retransmission of each; more losses than R2 are the case in
which TCP gives up by design. In `stack` all races are about one 4-tuple: two
incarnations at it are the old one that is replaced or reaped and the new one,
and entries of different 4-tuples share only the accept queue, which one
connection already fills. In `timers` a delay of 40 s lets a sample exceed
`maxRTO`; `Uint32Size` is 2^30, so that TLC's integers hold the products, which
stay far below it. In `holepunch` the third peer is the stray one; a
stray datagram costs a turn as a timeout does (the code's deadline is a time, and
a stray datagram hardly any of it), and four turns are the fewest which two stray
datagrams and a loss do not use up; in `arp` the third host answers nothing and
sees every broadcast.

**Fairness.** `FairSpec` of `Duplex` assumes weak fairness of `Deliver`
(`recvLoop` reads until the link is closed), of `Timer` when the network is quiet
(`tickLoop` runs until the Stack is closed), and of the applications, which are
programs that open, send, read and close. Nothing is assumed of losses, which
the bound limits, nor of `ClockAdvances`, `Duplicate`, `ChallengeWindowPasses`.
It is written out as `[]<>~enabled \/ []<>taken` because TLC needs minutes for
`ENABLED` of these actions. `Stack`: weak fairness of the steps of both loops, of
`Dial` once it has begun, of a `Stack.Close` that has begun, and of `Accept`;
strong fairness of `TickEnd`, because `select` chooses at random between `done`
and the ticker and does not choose the ticker for ever; a `Recvfrom` on a descriptor
that was shut down and closed returns (`RecvEnd`). `OfferedAgain` states its
own assumption, `PeersKeepSending`, and `CloseReturns` that the reader does not wait
on a foreign socket for ever. Once `Close` has returned nothing moves any more, so
that the liveness properties have the form `<>[]`, or `[]<>` of a state that
remains. `HolePunch`: the server, the loops and the
network run, but nobody has to dial. `Arp`: the upper layer's retransmission
timer hands its packet down again, and a reader reads every kind of frame that
waits for it (a socket's queue is in order).

**Preconditions.** `EagerClose = FALSE` in the passing runs: an application
closes after `flushSend` has emitted everything. Without it finding 1 breaks
`EofComplete`. `PairMeets` and `RegistrationPairs` except a deadline that passes
while a datagram is on its way (`hurried`), the second also a lost PEER reply and
a closed server: there the code has nothing that could help.

### Findings

1. `Close` sends the FIN at `SND.NXT` although `sndBuf` has unsent bytes
   (`statemachine.go:197`); they follow it with later numbers and are lost.
   The comment at 901 and `finAcked` rely on the FIN being last.
2. `probePersist` queues its byte for retransmission (`flowcontrol.go:130`). A
   receiver with a zero window does not accept it, and R2 closes a connection
   whose peer is alive, against the comments at 121-128.

Met while modelling and not the subject of a run; the models do what the code
does:
- A retransmitted SYN or SYN-ACK has no options (`statemachine.go:260`), so that
  the two ends may disagree on window scaling and timestamps, against
  `tcb.go:154`.
- `resetConnection` (732) returns to LISTEN with the SYN-ACK still queued, against
  R-074 in `tasks/loopeng/requirements.md:77` ("SYN-RCVD+rcv RST: passive由来→LISTEN
  ... 再送キューflush", flush the retransmission queue). At R2 the remnant closes the
  listener, or a handshake that has begun meanwhile. An RST in SYN-SENT (611) leaves
  the SYN queued. `ConnLife` names the remnant `Relisten`; the properties of
  `handshake` hold with it.
- The ACK of a full segment that fills the last gap is delayed (`data.go:196-198`),
  although R-FC-053 (`tasks/loopeng/req-flowcontrol.md:25`) asks for one at once;
  `AckOwed` accepts both.
- A link's reader may be between its look at `closed` and `Recvfrom` when `Close`
  gives the descriptor back (`udplink.go:119`): if the number is taken by another
  socket meanwhile, it takes a datagram from that one (dropped by the second look,
  `OwnPacketsOnly`) or waits on it, and `Stack.Close` waits too.
- Simultaneous open (634) never calls `initSendWindow`; `emitSegment`
  (`data.go:114`) ignores the peer's MSS.
- The estimator's timeout is not capped (`rto.go:36-44`) while `backoff` caps at
  60 s: with timestamps, idle time is measured (697), and an expiry may shorten
  the timeout (74371 ms to 60000 ms), against
  "単調倍化" (monotonic doubling) in `tasks/loopeng/req-congestion.md:33`.
- Overlapping fragments give overlapping SACK blocks, although the comment at
  `sack.go:14` speaks of one block for each contiguous region. They are still
  truthful.
- A SYN can reach a CLOSED remnant (`conntable.go:52-53` says it cannot): a
  TIME-WAIT connection ends between `demux`'s look and `insertIfAbsent`. The SYN
  is answered by RST.
- A connection that found the accept queue full is offered again only when a
  segment comes (`listener.go:250-251` says it always comes); entries of
  `delivered` are never removed, and keep their connections alive (78-79).
- A third peer of a session is registered and paired with the next registration
  (`rendezvous.go:27-28` promises an error).
- `afPacketLink.Close` does not wake a reader blocked in `Recvfrom`
  (`afpacket_linux.go:179`), although `link.go` says that a closed link returns
  `ErrLinkClosed`: on a silent network `Stack.Close` waits for a frame. The
  `Arp` model ends such a reader with the next frame (`SkipFrame`).

## 4. Proofs

Proved by TLAPS for every value of the constants that satisfies the assumptions.
Every inductive invariant was first checked by TLC under the constants of the
runs.

**The connection** (`DuplexTheorems`). `DuplexInv` is `TypeOK /\ Conns /\ OneFin`.
`Conns` says of each connection (`ConnInv`) that its receive side is in order
(`RcvInv`), that before the handshake ends nothing was received, queued or lost
(`Young`), that past SYN-SENT whatever was taken is acknowledged or the delayed
ACK runs (`Settled`), and that SYN-RECEIVED has its SYN-ACK queued. There is one
lemma per action, on one lemma per operator.

- `TypeInvariance`: `Spec => []TypeOK`. The content is in the ranges: numbers stay
  below the size of the space after every addition, RCV.WND within the buffer,
  SND.WND within what 16 bits and the shift can say, retries within R2, challenge
  ACKs and probes within their limits, payloads within `DefaultMSS`.
- `BufferTheorem`: `Spec => []RcvBufBounded`. The receiver never has more bytes
  than its buffer holds. Not inductive as it stands: `drainOoo` takes any number of
  buffered bytes at once, so that every fragment must lie inside the window
  (`FragmentFits`); and a FIN takes a number of the window without a byte, so that
  after it no fragment may remain (`AfterFin`), before it none starts at RCV.NXT
  (`Ahead`). A second FIN with another number would break both: `handleFin` takes
  one in any state. `OneFin` excludes it: the FINs of one direction that are queued,
  in flight or taken have one number, and there is none before `Close`.
- `AckTheorem`: `Spec => []AckOwed`, from `Settled`, which every operator that
  moves RCV.NXT must restore (`sendAck` or `onDelayableSegment`).
- `CoverTheorem`, `WakeTheorem`, `RecoveryTheorem`: `RetxCovers`, `SenderCanWake` and
  `RecoveryHasLoss`, each as `Spec /\ []SmallBuffers => []P`. The invariant of one
  sender is `SndInv`: what is in flight is covered by the queue and is at most
  `sndBuf` and the SYN or the FIN, later both (`Control`); while bytes are unsent
  something is in flight or a timer runs (`Woken`, which also says that the override
  timer counts only with an open window: `fireOverride` sends nothing into a closed
  one); recovery means something in flight; in SYN-SENT nothing but the SYN was sent.
  `SndStep` says that an operation keeps it, and there is one lemma per
  operation. `SmallBuffers` says that a send buffer, a segment and 4 are at most half
  the space. The code bounds `sndBuf` nowhere; beyond 2 GB of unacknowledged bytes
  `SeqLEQ` takes a new entry of the queue for an old one.
- `BuffersStaySmall`: `ShortStreams => (Spec => []SmallBuffers)`: applications that
  send less than half the space in all meet that condition; all the runs do.
- `EdgeTheorem`: `Spec => RightEdgeNeverShrinks`. Each operator moves the edge
  `RCV.NXT + RCV.WND` right by some `k`: `acceptText` by `max(0, m - wnd)` for `m`
  bytes taken, a FIN by one, `Recv` by what it opens; over one step at most
  `RcvBuff + 1`, which is below `HalfSeqSpace`, so that `SeqLEQ` sees it as forward.
- `LifeTheorem`: `Spec => LifeCycle`. A connection of `Duplex` moves only as
  `ConnLife` allows, which is all that `Stack` assumes of it: the abstract
  connection of the Stack is implemented by the detailed one. It needs `Young` (a
  listener that a reset brought back has kept its SYN-ACK in the queue, one that
  never had a SYN has none, and only the first may time out).

**The streams** (`StreamTheorem`, `EofTheorem`, `RefinementTheorem`, end of
`DuplexTheorems`): `Modest => (Spec => []StreamIntegrity)`, the same for
`EofComplete`, and `Modest => (Spec => ImplementsByteStream)`. They relate what one
application writes to what the other one reads, through segments that are lost,
copied, reordered, merged, split and sent again.

- *The invariant* (`StreamInv`) numbers everything by its distance from the
  sender's ISS: the SYN is 0, byte `i` is `i`, the FIN is the last. A sender that
  `Talks` is `Numbered`: its buffer holds the bytes from SND.UNA on, each queued
  segment is a piece of the stream at its number (`OwnText`), and the state says
  where SND.UNA and SND.NXT are (`Phase`: the FIN, once sent, is the last number, so
  that nothing is written after it). Each segment in flight is such a piece, a
  reset or an old SYN (`Odd`). A receiver that is `Hearing` has `Heard` the first
  `RCV.NXT - IRS - 1` bytes: its buffer continues what was read, each fragment out
  of order is a piece at its number, and a FIN that was taken ends the whole stream.
- *Why the rest is needed.* A sender that has said nothing is `Mute`, a receiver
  that has heard nothing is `Deaf`: its buffers are empty and it is before its
  SYN, or it took an old one, whose numbers no piece of the new stream may pass
  for. A SYN-RECEIVED connection that a reset sends back to LISTEN is deaf again
  and may hear the stream from its beginning.
- *The steps.* One lemma per operator for what it says (`Says`, in
  `StateMachineTheorems`) and one for what it hears (`Hears`); `Moved` puts them
  together for a step of one peer, one lemma per action (`DeliverMoved`, ...),
  and `MovedStream` shows that every such step keeps `StreamInv`. `StreamMove` reads a
  step off as an action of `ByteStream`: a write finds the reader's end open
  because a sender in ESTABLISHED or CLOSE-WAIT has no FIN among its numbers.
- *The conditions* (`Modest`). `ShortStreams` as above: with more than half the space
  of bytes a number no longer names one byte. `NoEagerClose`: the application closes
  when its bytes are sent. Without it the code puts the FIN before them; that is
  the finding `VFinBeforeData` shows. `Apart`: no number of a new stream falls into
  the window of a receiver that took an old SYN; it says nothing when `OldSyns` is
  empty. The code makes it likely, not certain: an ISS is random
  (`cmd/tcpdemo/main.go`), or lies `issGap` (64000) past the last number of the
  connection that a SYN replaces in TIME-WAIT. The constants of the passing runs of
  `Duplex` satisfy all three.

**What is acknowledged** (`AgreeTheorem`, `FinAckTheorem`, end of `DuplexTheorems`):
`Modest /\ OldSynsHarmless => (Spec => []PeersAgree)`, and the same for
`FinAckedMeansDelivered`. They relate what one end takes for acknowledged to what the
other one has taken, through the ACKs in flight.

- *The invariant* (`AckInv`): each peer is `Unaware` of the other one or `Knows` it
  (its IRS is the other's ISS, and RCV.NXT counts the SYN, the bytes that arrived and
  the FIN); a connection that has connected knows its peer; and while p is `Alive`
  each ACK in flight to it, its SND.UNA, and the ACK that its peer would send next, are
  at most what the peer has taken (`TrueAcks`, `TrueUna`, `Ready`).
- *The steps* (`Answers`): either RCV.NXT stays, or the SYN that begins the
  connection is taken (`Meets`), or a connection that knows its peer takes more
  (`Continues`); and each ACK that is written quotes RCV.NXT. One lemma per action
  shows it, from lemmas of what each operator writes before it may acknowledge
  (`Hushes`) and of how it moves SND.UNA (`AckMoves`). What was acknowledged stays
  acknowledged because a peer that knows the other one never forgets it (`Forgets`).
- *Old SYNs* (`FluidInv`). A peer forgets the other one only when it takes a SYN again,
  and it expects one again only when a reset at its RCV.NXT sends it from SYN-RECEIVED
  back to LISTEN (`Renews`). Such a reset would have to answer an acknowledgement of the
  present SYN, and who writes one against it still waits itself (`Resets`): then neither
  end has heard the other one. So while a peer waits (`Fluid`: not open, in LISTEN, or in
  SYN-RECEIVED after a passive open) no reset with the number `ISS + 1` is on its way to
  it; two that wait know nothing of each other, and only old SYNs are in flight
  between them; and a peer that expects a SYN does not know the one there is. A peer
  that waits writes no SYN without an ACK, because its queue has none (`SynAcked`).
  `FluidInv` uses `AckInv` and makes it inductive; together they are `TrustInv`.
- *The further condition* (`OldSynsHarmless`): there is no old SYN (`NoOldSyns`), or no
  ISS is the last number of the space (`ResetsApart`). The reset with which a peer that
  is not open yet answers a SYN has the number 0 (`onSegmentClosed`); with
  `ISS + 1 = 0` one that answered an old SYN could send a listener that has taken the
  present one back to LISTEN. The constants of every passing run
  satisfy the condition; `handshake` has an old SYN.

**The retransmission timer** (`RtoTimerTheorems`).

- `CongInvariance`, `PhaseTheorem`, `NeverStarvedTheorem`: `CongInv` is inductive
  for the controller. Phase and floor need each other: leaving recovery sets
  `cwnd = ssthresh`, which is slow start or not only because of the floors.
- `RtoInvariance`: `RtoInv` is inductive for the timer, with any number of entries
  in flight: each entry that was resent is marked (`Sent`), the estimator is within
  the samples it took, the timer runs while the queue is not empty. A cumulative
  ACK samples every entry it covers (`sampleAll`, a recursive function); that a
  property of one sample passes to all is shown with a least counterexample.
- `KarnTheorem`: `RtoSpec => []KarnsRule`.
- `TimerTheorem`, `EstimatorTheorem`: `TimerRuns` and `EstimatorBounded` as long as
  `InRange(longest)`, that is `2 * (RtoMin + 5 * longest) < Uint32Size`: no sample was
  longer than about five days. Above, the products of `rto.go` wrap.
- `DrivenCongestion`: `RtoSpec => [](PhaseMatchesWindow /\ NeverStarved)`: the timer
  uses the controller in no other way than the controller's own specification.
- `DrivesTheorem`: `RtoSpec /\ []WithinBounds => Init /\ DrivesCongestion`, the step
  simulation behind it: an ACK is one `NewAck`, a timeout one `RtoTimeout`. The
  condition is only that `MaxFlight` and `MaxCwnd`, which bound the controller's
  specification and are not in the code, are not exceeded.
- `InitEstWithin`, `UpdateEstWithin`, `RtoWithin`: the estimator for one sample.

**The Stack** (`StackTheorems`), for any number of 4-tuples, connections, listeners
and any capacity of the accept channel. `StackInv` has the types of the locals of
the two loops, `UntracksDead` (what a loop is about to forget is CLOSED, and CLOSED
is final), `Marked` (what is or was in an accept channel is in `delivered`, and a
connection that is still being derived is not) and the properties themselves.

- `LiveTheorem`: `Spec => []LiveIsFound`; `DrivenTheorem`: `Spec => []Driven`;
  `DeliveryTheorem`: `Spec => []DeliveredOnce`.
- `OwnPacketsTheorem`: `Spec => []OwnPacketsOnly`. `Owned`, beside `StackInv`: what
  `Recvfrom` has returned is the link's own unless the link is closed, which the
  second look then sees, because `closed` is set before the descriptor is given back
  and never reset.

**Hole punching and ARP.**

- `MutualTheorem` (`HolePunchTheorems`): `Spec => []HoleIsMutual` for any number of
  peers. It needs to know what may be in flight (`NetHonest`): a punch comes from a
  peer that was told of its receiver and has opened its NAT to it.
- `CacheTheorem` (`ArpTheorems`): `Spec => []CacheTruthful`. `RepliesTruthful` is the
  strengthening: every reply in flight or queued has the true address of its sender.

**Assumptions.** `HalfSeqSpaceAssumption`: it is positive. `TcbAssumption`:
positive sizes, `DefaultSendMSS <= DefaultMSS`, and windows and segments shorter
than half the space (`RcvBuff + 2`, `DefaultMSS + 2 <= HalfSeqSpace`), as the
comment in `seq.go` says. `DuplexAssumption`: the types of the environment's
constants. `CongestionAssumption`: the initial window is below `MaxWindow`.
`RtoAssumption`: `rtoMinMS <= initialRTO <= maxRTO`, and doubling `maxRTO` does
not wrap. `RtoTimerAssumption`, `StackAssumption`, `HolePunchAssumption`,
`ArpAssumption`: the types of their constants. TLC evaluates all of them, and
`ReassemblyAssumption`, about whose module nothing is proved.

**Only model-checked.** Liveness (`SentIsRead`, `CloseCompletes`,
`DeadAreCollected`, `OfferedAgain`, `CloseReturns`, `DialReturns`, `PairMeets`,
`RegistrationPairs`, `PacketArrives`), and what recursive loops and the option codec
compute (`SameAsList`, `SackTruthful`, `OptionsSurvive`, `LoopsAgree`), are out of
the prover's reach. Not proved either are
`SenderWithinWindow`, which needs the windows in flight besides the ACKs (and speaks
of `SND.WL2 + SND.WND`: where both sides send, a retransmission, old by SEG.SEQ, moves
SND.UNA on and brings no window, so that `SND.UNA + SND.WND` may lie beyond the
receiver's edge), `StillDeliverable`, which needs the timestamps in flight, and
`ProbesAnswered`, which needs the count of what was lost and of the timers that
expired early.

## 5. Plan

Done: the connection (`SeqSpace` to `Duplex`), congestion control and
retransmission timer, the loop equivalences, SACK and options, the Stack, hole
punching, ARP; the theorems of section 4. What is left:
proofs of `SenderWithinWindow`, `StillDeliverable` and `ProbesAnswered`, which the runs check.

## 6. Not modelled

- *Framer* (`framing.go`): splits a byte stream that no link of the repository
  delivers; only tests call it.
- *The receiver of a single connection* (`Serve` in `recvloop.go`): stops as the
  Stack's loops do, with one connection; what it does with a packet is `Deliver`.
- *The in-memory pipe* is the tests' network, *TUN* is reads and writes of a
  device file: neither has a protocol of its own.
- *The data phase of a punched link*: `WritePacket` and `ReadPacket` are one
  system call each; late punches and replies that it must drop are modelled. A
  peer that calls `DialHolePunch` a second time is a new socket with another
  address, hence another peer.
- *Fixed-offset codecs* (IPv4 and TCP headers, the ARP packet, Ethernet frames)
  and *the Internet checksum*: no branch depends on the data but the checks
  whose failure is a loss.
- *A host whose MAC changes*: nothing in `arp.go` handles it (entries have no
  age), so that there is no behaviour to check.
- *The challenge-ACK limit over a sliding window*: the window has no length in
  the model, only a count and an end.
- *The demo commands* (`cmd/`): flag parsing and console I/O.
