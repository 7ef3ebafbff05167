# A TLA+ model of mtp2

This directory holds TLA+ specifications of the `mtp2` crate (MTP level 2, ITU-T
Q.703: signal-unit framing, error correction and the signalling-link state
machine), the TLC configurations that check them on small instances, and
theorems about the error correction, the link engine, its error-rate monitor, the two ends with their traffic,
the codec and the Python programs that TLAPS has checked for every instance.
All definitions are translated from `src/src/*.rs`. `PROJECT.json` gives, for every
definition, the lines it stands for.

Contents: [the system](#the-system), [modules](#modules),
[how the model corresponds to the code](#how-the-model-corresponds-to-the-code),
[runs](#runs), [bounds](#bounds), [fairness](#fairness),
[disagreements found](#disagreements-found), [proofs](#proofs),
[what is not modelled](#what-is-not-modelled), [what is left open](#what-is-left-open).

## The system

The crate is sequential and does no I/O. A *driver* owns an `Mtp2Link`; it calls
`poll_transmit` when layer 1 wants a signal unit, `handle_su` or
`handle_corrupted_su` when layer 1 has received one, `tick` when time has passed,
the control calls (`start`, `stop`, `submit_msu`, `local_processor_outage`, ...)
when MTP3 wants something, and `poll_event` to learn what happened. The hard
behaviour comes from the *order* of these calls, from the peer, which is another
such engine with a driver and a clock of its own, and from a line that loses and
corrupts signal units.

| Component | State | Operations | Hard behaviour | Correct when |
|---|---|---|---|---|
| `TxControl` (retransmission.rs) | last FSN, FIB, queue, retransmission buffer, cursors | `submit`, `poll`, `on_ack` | sequence numbers wrap; buffer shrinks under a cursor; forced retransmission | everything submitted is delivered once, in order, and freed only then |
| `RxControl` (retransmission.rs) | last FSN accepted, BIB, `nack_pending` | `on_msu`, `bsn`, `bib` | loss, repetition, negative acknowledgements crossing on the line | accepts exactly the next MSU; asks for a repetition only when one is missing, and gets it |
| `Aerm`, `Suerm` (monitor.rs) | counters, thresholds | `restart`/`reset`, `record` | leak and error on one unit; remembered failure | link proves and serves below the thresholds only |
| `Mtp2Link` (link.rs) | state, flags, two monitors, the two controls, six timers, event queue | the calls above | every interleaving of clock, user and peer; partial updates on failure | flags, timers, monitors, buffers and events agree with the state |
| Two links and a line | two `Mtp2Link`s | - | out-of-phase restarts, one-sided service, emergency; MSUs, outages and congestion across failures | both reach service and never disagree about it for good; MSUs arrive once, in order; neither end holds the other up |
| `SignalUnit`, `SuHeader` (signal_unit.rs) | none | `encode`, `decode` | saturating length indicator, limits | decode undoes encode; what is accepted can be sent |
| Python bindings (python.rs) | none of their own | forwarding, with conversion of signal units, events, configuration, octets | the engine moves on before its unit is converted; octets that do not decode | a pair of Python programs is a pair of links |
| Errors (error.rs) | none | - | - | - |

Interactions: `Mtp2Link` calls its `TxControl` and `RxControl` from `poll_transmit`
and `process_in_service_su`, its monitors from `handle_su` and
`handle_corrupted_su`, and makes fresh controls in `start`. Events are the only
thing that goes back to the user. Two links share nothing but the line.

What is hard to test, each at its line with the properties that watch it, is the
list `hazards` in `PROJECT.json`.

## Modules

| Module | What it is |
|---|---|
| `Retransmission` | `TxControl`, `RxControl` and their methods as operators on records |
| `ErrorCorrection` | one direction of a link in service: a sender, a receiver, and a lossy line each way. EXTENDS `Retransmission` |
| `ReliableTransfer` | what that direction promises: submit, deliver in order, release what is delivered |
| `Monitor` | `Aerm` and `Suerm` as operators |
| `LeakyBucket` | a `Suerm` by itself, with the history of the signal units it was given. EXTENDS `Monitor` |
| `Mtp2Link` | the link engine: one action per call of the driver. EXTENDS `Retransmission`, `Monitor` |
| `LinkService` | what MTP3 may rely on: into service only through alignment, one notice per change |
| `LinkAlone` | links whose peers may do anything. EXTENDS `Mtp2Link` |
| `LinkPair` | two engines, the line between them and their clocks. EXTENDS `Mtp2Link` |
| `LinkTraffic` | the pair at work: MSUs, outages and congestion of the users, and the history of what was submitted, dropped and delivered. EXTENDS `LinkPair` |
| `SignalUnits` | encoder and decoder as operators |
| `PythonLink` | two Python programs with a link each and octets between them; implements `LinkTraffic`. EXTENDS `Mtp2Link`, instantiates `SignalUnits` |
| `MCErrorCorrection`, `MCLinkAlone`, `MCLinkMonitored`, `MCLinkPair`, `MCLinkTraffic`, `MCPythonLink` | values of the constants for TLC |
| `RetransmissionProofs` | lemmas about the operators of `Retransmission` |
| `ErrorCorrectionProofs` | the theorems about `ErrorCorrection` |
| `Mtp2LinkProofs` | one lemma per call of the engine: what it keeps and what it says to the service above. At its head, `service_notices`: what an event more, or one less, adds to the notices |
| `LinkAloneProofs` | the theorems about `LinkAlone`, and that about `LeakyBucket` |
| `DirectionProofs` | one direction of a link whose ends fail and start again: what each call does to its numbers |
| `LinkTrafficProofs` | the theorems about `LinkTraffic` |
| `PythonLinkProofs` | the theorems about the codec, as the Python programs call it |
| `PythonTrafficProofs` | two Python programs are the two ends of a link: the theorems that join `PythonLink` to `LinkTraffic` |

Definitions whose names end in `_bug` are mistakes a programmer could make in the
definition that follows. No specification uses them: each property of a passing
run has been run against one of them and fails, so that it says something about
the code.

## How the model corresponds to the code

*Error correction.* `TxControl` and `RxControl` are records with the fields of the
structs. `basic_cursor: Option<usize>` is a natural number or `NoCursor`. An MSU is a
number in place of its octets, with a size that N2 counts. `poll_basic`, `poll_pcr`,
`on_ack` and `on_msu` return the record after the call and the frame or outcome. The
loop at the head of `on_ack` is the operator `acknowledged` (how many MSUs it pops)
and `free` (what that does to the cursors). `last_acked` is not modelled: it is
written and never read. Frames on the line of `ErrorCorrection` also carry `top`, acknowledgements `upto`:
history that no guard reads and no program variable holds; only properties do.

*The engine.* `link[l]` is the `Mtp2Link` of `l`. The helpers of link.rs are operators
from record to record; each action is one call of the driver in full, with all the
state it changes. `counted` is the SUERM at the head of `handle_su`; `upgraded` is the
SIE test at the head of `handle_lssu`; each arm of its `match` is a disjunct of
`LssuNotAligned` ... `LssuTraffic`, and `heeded` says for which pairs of state and
status the default arms do nothing. `tick` steps the timers in the order of the
source and stops at the first expiry that acts: `acts` is that test, and the timers
not yet reached are left as they are, which matters only for T4 because the other
expiries stop every timer. Timers are ticks left, or `Stopped` for `None`.
`proving_attempt` is counted up to one beyond `proving_attempts`, since the code
asks no more of it than whether it is below. `mtp3[l]` is the user's belief, from the
events it has read.

*The SUERM by itself.* `Record` and `Reset` of `LeakyBucket` are `Suerm::record` and `Suerm::reset`, in any order. `units` is
history, which the monitor does not have: the signal units since the last reset, TRUE for one in error. The engine resets its SUERM
in `start` and on entry into service, and records every unit in service and processor outage.

*The pair.* What one end's `poll_transmit` returns is appended to the line and given
to the other end's `handle_su`, or to `handle_corrupted_su`.

*Traffic.* `LinkTraffic` numbers the MSUs that a user submits; an MSU is its number, so
that order, loss and repetition can be read off. `submitted`, `dropped` and `delivered`
are history, which no link reads: `dropped` holds what a link still had when `start()`
threw its `TxControl` away, `delivered` the last MSU that a `handle_su` passed up. The
users' calls are `UserGone`/`UserBack` (processor outage) and `UserBusy`/`UserFree`
(congestion). `Rest` is the other calls, which leave the history alone.

*The Python programs.* `PythonLink` has the octets on the wires. `poll_and_send` is
`link.poll_transmit().encode()`: `poll_transmit` of the engine, then `su_to_py`, then the
object's `encode`; `handle_su` is `decode` and then the engine, or, for octets that do not
decode, an exception and nothing. `poll_event` converts the event (`event_to_py`).
`concrete` and `abstract` go between the engine's signal units, whose MSUs are numbers,
and those of the codec, whose MSUs have a SIO and a SIF. `PyLink_new` is the constructor with
its keyword arguments. `PyObject` is the objects that a program may build: a FISU, an LSSU or
an MSU whose header fields are octets; `encode` refuses those out of range.
`joined` puts the parts of a record together (the header and the kind of a unit).
`Exchange` is what a program does without a link: build an object,
encode it, decode it (python/tests/test_codec.py). The refinement mapping gives
`LinkTraffic` the wires as the decodable contents decoded, and `delivered` as the number of
the last MSU that the program has read or has among its unread events.

*The codec.* A signal unit is a record, its content a sequence of octets.
Bit operations are written as arithmetic on octets: `% 128` for the low seven bits,
`>= 128` for the top one, `% 64` for the six bits of the length indicator, `% 8` for
the three of the status.

## Runs

Passing (TLC finishes without an error):

| Run | Question | Properties |
|---|---|---|
| `Basic` | Does the basic method deliver in order over a line that loses? | `TypeOK`, `InOrder`, `ImplementsTransfer`, `NackOnlyOnGap`, `AckFreesDelivered`, `NackAnswered` |
| `Pcr` | Does PCR, forced retransmission included, deliver and free everything? | `InOrder`, `ImplementsTransfer`, `EventuallyReleased` |
| `LinkAlone` | Is one engine consistent whatever its peer, user and clock do? Does its SUERM fail for the units it should fail for, and only then? | `TypeOK`, `TimersMatchState`, `FreshBeforeService`, `OutageMatchesState`, `ErrorRateWatched`, `Mtp3Informed`, `FailsOnExcess`, `ImplementsService`, `WaitsEnd` |
| `LinkPair` | Do two engines reach service, and never disagree about it for good? | `AlignmentCompletes`, `OneSidedServiceEnds` |
| `LinkTraffic` | Is anything lost, repeated or out of order between two links, and is service lost without a cause? | `NothingLost`, `InOrderForTheUser`, `ServiceLostForCause` |
| `TrafficLive` | Do MSUs arrive, are dark peers noticed, and do the ends let each other go on? | `EveryMsuArrives`, `DarkPeerNoticed`, `HoldsEnd` |
| `PythonLink` | Are two Python programs two links? Do the octets arrive that were submitted? Does decode undo encode, at all boundaries? | `ImplementsTraffic`, `ReadsWhatWasSubmitted`, `RoundTrip`, `AcceptedIsSendable` |

Showing a disagreement (TLC finds the property violated): `PcrDefaultN1`,
`BasicCursor`, `EmergencyPair`, `BeforeStart`, `ShortMsuFlow`;
see [below](#disagreements-found).

What the less obvious properties say:

- `NackOnlyOnGap`: the receiver toggles its BIB only when an MSU is missing. `on_msu`
  counts a repetition of the last MSU (distance 0) as a gap, so this depends on the
  *sender*: every negative acknowledgement acknowledges that MSU first, and frees it
  before the retransmission starts.
- `NackAnswered` holds for one loss. With two it does not: when the only
  retransmission is lost, `nack_pending` keeps the receiver from asking again; the
  hazards list it.
- `AckFreesDelivered` needs the buffer to hold at most half of the sequence space;
  `PcrDefaultN1` shows what happens beyond.
- `InOrder` of `Pcr` also depends on forced retransmission: the user has more MSUs than there are
  sequence numbers, and if both thresholds had to be reached, instead of one, as many
  as the modulus would be outstanding and an old MSU would be accepted as a new one.
- `FailsOnExcess` compares the counter with the history it has forgotten. The
  count is the greatest excess, over all stretches of units that begin at a leak
  (or at the reset) and end now, of the errors in the stretch over the leaks in it; the monitor
  has failed when that reached the threshold at some time. A leak before the error of the same
  unit is counted, or one that an empty bucket saves up, breaks it.
- `TimersMatchState` is an equivalence: exactly the timer that guards a state runs.
- `FreshBeforeService`: nothing of an earlier period of service is left when a link
  aligns again.
- `Mtp3Informed`: the user's belief, brought up to date with the unread events, is
  the truth.
- `AlignmentCompletes` is about an undisturbed pair. With disturbances without limit it
  could not hold, and with a few it does not: two ends that restart each other out
  of phase can go on for ever (each hears SIOS in the wrong phase). That is why the
  disturbed behaviour is judged by `OneSidedServiceEnds`.
- `NothingLost` ties the three parts of the history to the buffers: what was submitted
  is delivered, dropped by `start()`, or still held by its sender, in order, and nothing is in
  between. Since a receiver whose user is out drops MSUs (link.rs:615), it says that
  these are not acknowledged; since both ends make new sequence numbers in `start()`, that
  no unit of an old period acknowledges anything of the new one.
- `ServiceLostForCause` is about the timers: T7 and T6 are set and cleared in several places, and
  one left over would take down a link that nothing is wrong with.
- `DarkPeerNoticed` is what remains true of T7 (see below on what does not), `HoldsEnd`
  of T6: they expire when the peer is silent. In an idle link no timer runs, and a peer
  that goes dark is not noticed; that is why the property asks for unacknowledged MSUs.
- `HoldsEnd` excludes a deadlock: an end that hears SIPO or SIB holds its MSUs back until it
  hears a FISU or an MSU, and an end that is out or congested sends neither.
- `EveryMsuArrives` needs PCR: the basic method does not recover the last MSU of a
  burst.

## Bounds

- *Sequence space.* 128 in the program. `ErrorCorrection` is independent of it, which
  the theorems use; the runs take 6 and 4, with more MSUs (`MaxMsu` 8 and 6) than
  numbers, so that they wrap. `Basic` keeps `Window` = modulus - 1 outstanding, the
  most that is safe; `Pcr` lets the user submit everything and has N1 at half of the
  space; two MSUs of three octets reach N1 but not N2 (13 octets), the fifth MSU, of 13 octets, reaches N2
  alone.
- *Line.* `MaxInFlight` 3 each way, `MaxLoss` 2: enough for a gap, a negative
  acknowledgement that crosses with frames, and the loss of one of them.
- *SUERM.* A threshold of 2, a leak every 3 units, up to 9 units (`MaxUnits`): three leaks, and
  every way to lay errors about them; the theorem is for any number. The run `LinkAlone` does this before the first call
  of the link, with which it has nothing to do (`MCLinkMonitored`).
- *Link engine.* A modulus of 2 and one MSU keep the controls small: what they
  contain is the subject of the other runs, and here they only have to be empty,
  pending or buffered. Periods of one or two ticks, monitor thresholds of two
  or one, two proving attempts, `MaxBacklog` 1 unread event (a call may leave more
  than one event, and its driver reads them before it calls again), `MaxOutstanding`
  1. The peer says anything in `MCHeard`: all six statuses, FISUs with every BSN and
  BIB, MSUs with every BSN and FSN.
- *Pair.* Two links, T4 of 2 ticks, one signal unit on the line each way, one or two
  sent per tick, one disturbance (a corrupted unit, or `stop()`), an AERM and SUERM
  that trip at the first error. `EmergencyPair` needs no disturbance.
- *Traffic.* `SEQ_MODULUS` 6 in `LinkTraffic`, so that a gap of two MSUs lies within half of
  the sequence space, as it does in the program; two MSUs, one outage or
  congestion of the receiving user, two corruptions or stops, and of these inputs four in all
  (`MaxInputs`): an MSU lost and the next one not, a loss during an outage, a
  failure and a new alignment with an MSU under way. T6 and T7 of two ticks, against one
  signal unit per tick each way: an acknowledgement takes less than that, silence
  more. The liveness run allows any two inputs of an MSU, outages and congestions at
  either end (so both at once), and one disturbance.
- *Python.* The program's own limits for the codec; MSUs of 3 and of 64 octets (a length indicator
  that is exact and one that is saturated) whose SIO looks like SIOS; one undecodable
  content (a reserved status indication), one outage or congestion, one
  disturbance, two MSUs, any two of these inputs. `Exchange` happens only
  before the links are used, with which it has nothing to do.
- *Codec.* The real limits: 128, 63 and 273, with bodies of 1, 2, 3, 4, 62, 63, 64, 273
  and 274 octets, sequence numbers 0, 127 and 128 (refused), and contents that are
  too short, too long or carry spare bits.

No run uses symmetry: the two links of a pair are told apart by `peer`, and MSUs are
numbers in order.

## Fairness

- `ErrorCorrection`: both ends go on transmitting and handle what arrives (weak
  fairness). An active link always transmits, a FISU if nothing else (`poll`), and the
  driver is called for whatever arrives. Nothing obliges the line to lose or the
  user to submit.
- `LinkAlone`: `tick` is called and events are read. The clock is strongly fair only
  because `MaxBacklog` disables the calls of the model while events are unread.
- `LinkPair`: both drivers read, transmit, receive and tick, and MTP3 starts a link that
  is down. Clocks are slow beside the line: every period of the program is a great
  number of signal units, so an end sends at least one unit per tick and the
  line delivers it before the next. The ends' clocks advance together.
- `LinkTraffic`: the drivers go on while there is anything to do (one weak fairness condition
  over all of their calls: the rounds give each end its turn), MTP3 starts a link that
  failed, and users come back from outages and congestion. A link that MTP3 has stopped may stay
  dark for good, which `LinkPair` does not allow; nobody is obliged to submit anything.
- `PythonLink` has no liveness property.

## Disagreements found

Each is a run that TLC ends with a counterexample; `PROJECT.json` quotes the lines.

1. `PcrDefaultN1`: PCR with N1 above half of the sequence space, which the default
   (127 of 128) is. When the acknowledgement of all buffered MSUs arrives at
   once, `on_ack` takes it for an old one, frees nothing, and forced retransmission
   never ends. No loss is needed.
2. `BasicCursor`: an acknowledgement of several MSUs during a retransmission moves
   the cursor by one only, so MSUs of the buffer are skipped.
3. `EmergencyPair`: two ends in emergency alignment restart each other's proving period
   with every SIE and never finish.
4. `BeforeStart`: `start()` overwrites what its user asked for before it: `set_emergency`
   (link.rs:287), MSUs submitted (292), `local_busy` (290).
5. `ShortMsuFlow`: MSUs of one or two octets go out with the length indicator of an LSSU. One of
   one octet whose low bits are the code of SIOS takes the peer out of service.

Noticed while modelling, without a run of their own:

- The basic method does not recover the last MSU of a burst (`EventuallyReleased` with
  `Method <- Basic`): a FISU does not show a gap, so nothing asks for the MSU again.
- T7 starts anew at every FISU or MSU, also one that acknowledges nothing
  (link.rs:599), and T6 at every SIB (553): a peer that speaks is never found out,
  although link.rs:431 and 84 say so.
- The headers of LSSUs are not read (link.rs:477). A congested peer acknowledges in each SIB
  it sends, and T7 takes the link down although every MSU was delivered and acknowledged.
- An end in AlignedReady ignores SIB (link.rs:533), also of a peer that is in service
  and congested; it waits until the congestion ends, or T1.
- `proving_attempts` bounds the provings that the AERM aborts, not those an SIO or SIE ends
  (link.rs:630; the comment at 159 calls it the maximum).

## Proofs

All proofs are checked by TLAPS without any assumption but those the modules declare
about their constants: `SequenceSpace` (the modulus is at least 2), `MsuSizes`,
`LineBounds`, `LinkBounds` (the configurations are records of natural numbers),
`PeerBounds` (peers send signal units), `BucketBounds` (threshold and interval are positive), `PairBounds`, `TrafficBounds`, `CodecBounds`,
`Programs` (which programs submit and hold) and `Bodies` (SIO and SIF of an MSU are octets, as many as its size;
`Undecodable` does not decode). So they hold for every
modulus, method, configuration and set of thresholds, any number of links and MSUs, any
length of and loss on the line.

| Module | Theorem | Says |
|---|---|---|
| `ErrorCorrectionProofs` | `TypeCorrect` | `Spec => []TypeOK` |
| | `InOrderCorrect` | `SafeWindow` implies `Spec => []InOrder` |
| | `TransferImplemented` | `SafeWindow` implies that `ErrorCorrection` implements `ReliableTransfer` |
| | `AckFrees` | `SafeWindow` implies `AckFreesDelivered` |
| | `NackCorrect` | `SafeWindow` implies `NackOnlyOnGap` |
| `LinkAloneProofs` | `EngineInvariant` | the inductive invariant `Engine` of all the following |
| | `AloneTypeCorrect`, `TimersCorrect`, `FreshCorrect`, `OutageCorrect`, `Mtp3Correct` | `[]` of `TypeOK`, `TimersMatchState`, `FreshBeforeService`, `OutageMatchesState`, `Mtp3Informed` |
| | `ErrorRateCorrect` | the same of `ErrorRateWatched`, if all monitors are set to positive thresholds |
| | `ServiceImplemented` | a link is a `LinkService` |
| | `BucketFails` | `BucketSpec => []FailsOnExcess` |
| `LinkTrafficProofs` | `TrafficInvariant` | `TrafficSpec /\ []UserWindow` implies the inductive invariant `TrafficInv` of the following |
| | `NothingLostCorrect`, `UserOrderCorrect` | `TrafficSpec /\ []UserWindow` implies `[]NothingLost` and `InOrderForTheUser` |
| | `PcrCorrect` | the same without `UserWindow`, if both links use PCR with N1 below the modulus |
| | `ServiceKept` | `TimersOutlast` implies `TrafficSpec => ServiceLostForCause` |
| `PythonLinkProofs` | `RoundTripCorrect` | `PySpec => []RoundTrip` |
| | `AcceptedCorrect` | `PySpec => []AcceptedIsSendable` |
| `PythonTrafficProofs` | `ImplementsTrafficCorrect` | `MsusTellable` and `MsusDiffer` imply `PySpec => ImplementsTraffic` |
| | `ReadsCorrect` | `MsusTellable` and `MsusDiffer` imply `PySpec /\ []UserWindow => []ReadsWhatWasSubmitted` |
| | `PcrReadsCorrect` | the same without `UserWindow`, if both links use PCR with N1 below the modulus |

### Error correction

`SafeWindow` says that less than the sequence space is outstanding: the user's window is
below the modulus, or the method is PCR with N1 below it. The code enforces only the
second; under the basic method nothing but the user's restraint does, and without
it the theorems are false (an old MSU would be taken for the next one).

*Types.* `TypeOK` is not inductive: a frame carries the count `top`, a natural
number only if the two queues of the sender hold no more than was submitted. `TypeInv`
adds that (`Counted`).

*Order.* `OrderInv` is the inductive invariant. Write n for the number of MSUs
delivered. Besides the types it says:
  - `Numbered`: the i-th MSU in the buffer is number released + i and carries its FSN;
    the i-th one waiting is number sent + i;
  - `Bounded`: the window, and N1;
  - `Received`: the last FSN accepted is that of number n, and `InOrder`;
  - `Kept`: released <= n <= sent;
  - `RecentFrames`: a frame on the line was sent when `top` MSUs had been numbered, with n <= top <=
    sent, its MSU was in the buffer then (so less than the modulus below top), and
    tops do not decrease along the line;
  - `RecentReplies`: a reply's `upto` is between released and n, its BSN is the FSN of that
    number, and uptos do not decrease along the line.

Both bounds are needed because sequence numbers are residues. With them the number of
an arriving MSU differs from n by more than -(modulus - 1) and less than the modulus,
so distance 1 means number n + 1 and nothing else (`AcceptedIsNext`). A reply's BSN
lies at a distance of modulus - 1 from the first MSU it does not acknowledge,
never below SEQ_HALF, so the loop of `on_ack` stops there at the latest
(`FreedIsDelivered`). `FsnDistance` is the arithmetic under both: `seq_forward` of two
sequence numbers is the difference of the counts, if that is less than the modulus.
The other lemmas of `RetransmissionProofs` say what `poll`, `on_msu` and `on_ack` can do
to their records; the proofs about steps use them in place of the definitions.
The refinement follows: an accepted MSU is `Deliver`, an acknowledgement that frees
something is `Release`, everything else but `Submit` stutters.

*Negative acknowledgements.* `NackInv` adds to this, for the basic method, what the
two indicator bits on the line mean. The receiver has asked for a repetition (its BIB
differs from the sender's FIB) or it has not, and the sender has answered or not:
  - frames between two toggles of the FIB rise: within one run of equal FIBs every MSU
    comes after the one before (`Rising`), and what the sender will send next comes after
    all of the last run;
  - while a request is under way (`Asked`), all MSUs sent under the old FIB lie beyond the gap
    (`BeyondGap`): they have not been accepted and will not be;
  - once the sender has taken the request (`Answered`), it repeats from the first MSU
    that is missing, so the units under the new FIB begin at or before the gap.
So a unit that is not the next one, when nothing is asked for yet, is after the gap and
never a repetition of the last MSU, which `on_msu` would take for a gap.

### Link engine

`Engine` says that every link is `Sound` and that what MTP3 believes, brought up to date with
the unread events, is the truth. `Sound` is the conjunction of the type, of
`TimersMatch`, `Fresh`, `OutageMatches` and of `WithinErrorRate` under the
condition `MonitorsSet`. The program does not validate its thresholds, and a threshold of 0
trips at once, so `ErrorRateCorrect` has the condition and the other theorems do not.
The parts need each other: T7 runs exactly while MSUs are unacknowledged only because
nothing is unacknowledged outside traffic (`Fresh`), and a link whose user is out is
never in AlignedReady (`OutageMatches`), so the first FISU cannot take it into service.

There is a lemma for each helper of link.rs (`EnterProving`, `FailAlignment`,
`Acknowledge`, `ReceiveMsu`, ...) and one for each call (`TickCall`, `HandleSuCall`, ...). A
call replaces one link by one that is sound, and in the terms of `LinkService` it
`Stays`, `Begins`, `Proves`, `Enters` or `Fails` (with at most one event that says so). The invariant and the
refinement both follow from that: `EngineCall` for the calls, `EngineRead` for `poll_event`.
`service_notices` is a recursive function of the events; that an event more adds
one notice or none at the end, and that reading one takes it off the front, is shown at the head of
`Mtp2LinkProofs` by induction over the number of events (well-foundedness of the natural
numbers on the set of counts for which it fails, because the library's induction
theorem has an operator for a parameter).

### The error-rate monitor

The inductive invariant `Bucket` of `BucketFails` says, besides the types, that
`received_since_leak` is the number of units modulo the interval and that the
count is the greatest excess of a stretch that ends now (`Level`). Another unit adds its error to every
excess (`ErrorsNext`) and, when it is the last of an interval, takes one from each for the
leak and begins a new stretch with excess 0 (`LeaksNext`): that is what `saturating_sub` at an empty bucket does.
Stretches that ended earlier keep their excess (`ExcessBefore`), as `failed` keeps its value.

### The two ends and their traffic

`UserWindow` is the `SafeWindow` of this module: fewer MSUs than the modulus are in the
retransmission buffer of a link. A link with PCR and N1 below the modulus sees to it
(`N1Kept`, part of the invariant); with the basic method nothing in the crate
does, so the hypothesis is about the user there. Nothing is assumed about what the line
corrupts, when the ends are started and stopped, or which configurations they have.

The MSUs are counted through all starts, the FSNs begin anew at each, and either end
may begin anew while its peer has not noticed. `DirectionProofs` says what holds of one
direction, a sender and a receiver (`Way`); `TrafficInv` is `Way` in both directions, with
the invariant `Engine` of both links. With a the number of MSUs that have left the sender's
buffer and s the number of those that have got an FSN, there are an offset c, that of the
sender's current period, and a number g with a <= g <= s such that
  - `Numbered`: MSU i has the FSN of i + c, in the buffer; what waits is s + 1, s + 2, ...;
  - every MSU up to g has been delivered, or is in `dropped`;
  - `Acks`, once the sender heeds FISUs and MSUs (`Open`: from AlignedReady or
    AlignedNotReady on): what is on its way to it acknowledges an MSU between a and g, in
    ascending order;
  - if both ends have seen the other align (are not `Apart`), the receiver's last FSN is
    that of g + c;
  - `Heard` and `Frames`, once the receiver is open: its last FSN is that of some number h
    under some offset k, what its user has not seen up to h is dropped, and the MSUs
    on the line are near enough to h (less than the modulus) under the same k. Only when the
    sender is not apart are k and h its own c and g: a receiver in service
    may still hear units of a period that the sender has left.

What closes a period is `AlignsFirst`: while an SIO, SIN or SIE is on its way, the end that it
goes to has a peer that is not open yet. So when an end in NotAligned hears one, both ends are before
service, both controls are as new (`Fresh`), and `WayAligns` joins them under the offset of
the new period, whatever was meant by the FSNs before. An end can get from proving into
`Open` only by T4, and `Clock` ticks when the line is empty (a tick is longer than the line,
see [fairness](#fairness); the theorems rest on it), so nothing of an
earlier period is in the way (`WayOpens`). Every other step keeps the offset (`WaySubmit`, `WayPoll`, `WayAcknowledged`,
`WayReplies`, `WayAccepts`, ...) or asks less (`WayKeeps`: an end that fails).

An MSU accepted is number h + 1 (`AcceptedIsNext`), and all between the last one delivered
and h are dropped: that is `InOrderForTheUser`. What the sender holds is a + 1, a + 2, ...
(`NumberedHolds`), and what is before that is delivered or dropped since a <= g:
`NothingLost`.

### Service

`ServiceKept` is about time. Its hypothesis `TimersOutlast` says of the configuration that T1 of an end is longer
than either proving period of the other, that T1 and T7 are more than one tick, and that the
thresholds of the monitors are positive. The defaults of `Mtp2Config` have all of that (T1 500,
T4 120 and 6, T7 20), and the run `LinkTraffic` too; the program asks for none of it. None of the
conditions on the timers can be left out: with T7 of one tick, or T1 equal to T4 of the
peer, TLC finds a link that fails although nothing disturbs it.

The invariant is `ServiceInv`. As long as there has been no disturbance and no outage or
congestion of a user, it says of each end (`CalmEnd`) that it is neither out nor congested (`Calm`), and of an end k
and its peer q (`Served`):
  - k sends no SIPO or SIB, and from AlignedReady on (`Ready`) nothing but FISUs and MSUs is on its way from
    it: so no signal unit takes q out of service;
  - if k is in service, or `Ready` with a FISU or MSU on its way to it, q is `Ready`;
  - if k waits in AlignedReady for a peer that is proving, T1 of k is ahead of T4 of q, by as
    many ticks as it takes for any of the two to tick first (`Ahead`);
  - if k waits in AlignedReady for a peer that is `Ready`, or for an acknowledgement (T7), its
    timer has more than one tick left, or it has ticked already in this round, or what q has said
    in this round is still on its way to it (`Lasts`). When k's clock ticks q has spoken and the line is empty
    (see [fairness](#fairness)), so the timer was set or stopped when k heard it.

`CalmTick`, `CalmSend`, `CalmHear`, `CalmStart` and `CalmAside` say what a call does to the
timers of a calm link; `PairTicks`, `PairSpeaks`, `PairHears`, `PairStarts` and `PairSame` that each of
that keeps the two ends in step; `ClockServes`, `SendServes` and `HearServes` put them together. The SUERM
does not trip because a unit that is not in error does not raise its count (`CleanUnit`).

### Codec

`DecodeEncode`: a signal unit that encodes, and whose kind its length indicator tells,
decodes to itself. `DecodeSendable`: what decodes is such a unit. The theorems speak of
every object with header fields of one octet, in range or not, every body of octets, every
sequence of octets that may arrive, and every `SEQ_MODULUS`, `MAX_MSU_BODY` and
`LI_MAX` above the length of the long status field. No induction over the octets is needed:
a content is three octets and a body, and the decoder takes it apart where the encoder put
it together; `% SEQ_MODULUS` and `>= SEQ_MODULUS` take an octet of the header apart.

### The Python programs

Two hypotheses are about the MSUs. `MsusTellable`: every MSU has more than two octets; a
shorter one arrives as an LSSU (`ShortMsuFlow` shows it), and the pair is no pair of links then. `MsusDiffer`: SIO and SIF
identify an MSU among those of the model, without which "the MSU that was read" has no
meaning. Nothing is assumed of the configurations, the modulus, the limits of the codec or the
undecodable contents.

*Refinement.* `PyInv` says that the engines satisfy `Engine`, that what they hold was small
enough to be submitted (`Fits`), and that on the wires is nothing but contents that do not decode and contents that an
engine's signal unit encodes to (`Wired`). A unit of the engine encodes, and decodes to itself at the other
end (`Carried`, from `DecodeEncode` of the codec), so a content more on a wire is a unit more on the
line of `LinkTraffic`, and an undecodable one none. The mapping `understood` of the wires is a
recursive function over the contents: as for the notices, lemmas by induction over their number say what
it makes of a content more or less. `latest`, the MSU last passed to a program, is found among its unread
events or, if there is none there, in what it has read: reading an event moves an MSU from one to the other
and leaves `latest` as it is. Each step of the programs is then a step of `LinkTraffic` or a
stutter (`PyStep`), and so is the initial state.

*What is read.* `LinkTrafficProofs`, instantiated with that mapping, gives the programs everything
that was proved about the two ends. `InSequence` adds that the MSUs that a program has read, and after them
those among its unread events, have increasing numbers: an MSU passed up is greater than the last one delivered
(`UserOrderCorrect`'s step), which is greater than or equal to all before it. None is greater than the number of MSUs submitted
(`DeliveredSubmitted`).

### Model-checked only

The liveness properties: `NackAnswered`, `EventuallyReleased`, `WaitsEnd`, `AlignmentCompletes`,
`OneSidedServiceEnds`, `EveryMsuArrives`, `DarkPeerNoticed` and `HoldsEnd`. Temporal reasoning with fairness and
`ENABLED` is beyond the prover. Every invariant and action property of the passing runs, and every refinement, is
also a theorem.

## What is not modelled

- `error.rs` but for the variants (values and wording), `Display`, `repr` and the accessors.
- Of the Python bindings: `set_emergency` (forwarded; `Mtp2Link` has it, and `LinkAlone` runs
  it), defaults of the constructors `Fisu`, `Lssu` and `Msu`, the wiring of the extension
  module. The names of status indications are the same on both sides and are not converted.
- Layer 1: flags, bit stuffing and check bits are outside the crate. The line keeps the
  order, and loses or corrupts units.
- The saturation of the monitors' `u32` counters and the overflow of `proving_attempt`:
  both lie billions of signal units away; the second is in the hazards.
- Drivers that call `poll_transmit` and drop what it returns, or that deliver signal
  units out of order. The tests' driver does neither.
- Benchmarks, the leak check, packaging.

## What is left open

- Liveness is checked on the instances above only, and there with one set of timers for both ends of `LinkPair` and
  `LinkTraffic`; the theorems about safety cover ends that are configured differently.
- The proved window of the basic method (`SafeWindow`, `UserWindow`) is a hypothesis about the
  user: the crate neither enforces it nor offers a call that tells how many MSUs are outstanding. Nothing is proved about what happens beyond it.
- The hazards without a property: the queues without a bound, the overflow of `proving_attempt`, N1 = 0, and
  two losses from which the basic method does not recover: that of the last MSU of a burst, and that of
  a retransmission it has asked for.
- The two ends are only compared while their clocks are slow beside the line (see
  [fairness](#fairness)): `Clock` waits until the line is empty and both ends have spoken. That is an assumption
  about the driver, under all properties and theorems of `LinkPair`, `LinkTraffic` and `PythonLink`.
- `BeforeStart` ends with the emergency request; that `start()` drops MSUs submitted before it and clears
  `local_busy` is stated by the same property and not shown by a run of its own.
