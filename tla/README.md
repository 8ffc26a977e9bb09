# Verification of ZapretMac

TLA+ models of [the macOS fork of zapret](../src/docs/readme.md): the packet engine
`utunws` (`src/nfq`), the scripts that run it under launchd (`src/macos/Payload`) and the
application that controls them (`src/macos/App`). TLC checks them on small instances, TLAPS
proves the most important properties for every instance. `PROJECT.json` is the index: runs,
mutants, the source lines every definition translates, findings, hazards and theorems.

## 1. The system

| Part | State it keeps | Operations | Talks to | What is hard | What makes it correct |
|---|---|---|---|---|---|
| **TCP handler of the engine** (`desync.c`, `conntrack.c`, `packet_queue.c`) | per connection: conntrack entry, counters, request interval, reassembly buffer, queue of packets held back, first-gap flag | one call per packet from `utun50`; SYN, data, FIN/RST, ACK; purge of idle entries | gets packets from the main loop, sends through BPF | segments reordered, duplicated or cut otherwise; no timer; limits reached while packets are held; two places where packets enter the queue | every packet is handed on once; nothing held is forgotten; order and offsets are kept; what is judged is what is sent |
| **UDP and QUIC handler** (`desync.c`, `protocol.c`) | the same entry, buffer of clear text, queue | one call per datagram | as above | CRYPTO ranges in any order over several datagrams, copies that fill the buffer, memory that runs out between buffer and queue | what is held is one hello that still lacks something; a hello is one request |
| Profiles, host lists, IP sets (`desync.c`, `hostlist.c`, `ipset.c`, `pools.c`) | profiles, lists with their modification times, cache of names by address | selection by port, address, host, protocol; reload on SIGHUP | called for each packet whose profile is not known; again when a name is discovered | a choice cached before the name is known; signal during reload | the profile applied is the first that matches |
| Automatic host list (`desync.c`, `pools.c`) | failure counters by host, retransmission counter | count, expire, append to the list | retransmissions, RST, redirects | counter windows, replies that are not seen on macOS | a host is listed after as many failures as configured, once |
| **Crafting and segmentation** (`desync.c`, `darkmagic.c`, `macsend.c`) | IP id remembered by the entry | split, disorder, fake, overlap, fragment, write | markers of parsers, BPF | positions outside the packet, sequence overlap, wrap-around, a write that fails half-way | the receiver's stream is the client's; nothing is lost; ids do not repeat |
| **Start-up and main loop** (`nfqws.c`, `params.c`, `sec.c`, `macos_utun.c`) | parameters, profiles, lists, descriptors, user | one call per option; finalise, read lists, open, drop root, daemonise, serve | launchd, kernel, files | options that change what others have set, sections given up, lists readable as root only | profiles are the sections of the line; a serving engine is ready to serve |
| **Supervision** (`run.sh`, `watchdog.sh`, `stop.sh`, `install.sh`, `restart.sh`, plist) | pf anchor, pf reference and its file, keepinit sysctl and its file, launchd job, processes | the commands of five scripts; what launchd does | launchd, pf, engine | kills at any command, traps that do not exit, parallel cleanup, changes of route, reboots | no rules without an engine; the machine's settings come back |
| **Application** (`ZapretService.swift`, `PrivilegedExecutor.swift`, views) with the **strategy test** (`test-strategies.sh`) | published flags and selection, files `selected-strategy`, `ipset-mode`, `strategy-test-cancel` | toggle, select, test, cancel, quit, start; the test's own steps | runs scripts as root one at a time; shares files with `run.sh` and the test | stale flags, files written while they are read, scripts that outlive the application | the service runs what is selected; a test leaves no trace; the application does not stay busy |
| **Update** (`UpdateService.swift`, `update-app.sh`) | bundle, backup, error file | download, verify, swap, roll back, restart | application, service | `set -e` between two moves, a script killed anywhere, a flag two seconds old taken for the service | there is always a whole application, and it is opened again |
| Parsers, crypto, pools, checksums, helpers, views, build | | pure functions, containers, presentation | | | |

On macOS only outgoing packets pass the engine: the pf rules of `run.sh` are `pass out ...
route-to (utun50 ...)`. A connection is therefore known to the engine by the client's half
alone, and everything the code does on replies is dead in this build.

The engine is one thread. It interleaves with nothing but signals, so what is hard about it is
the order in which packets arrive. The control side is the opposite: `run.sh`, its watchdog,
the script the application runs and launchd are processes that share files and kernel state
without a lock.

## 2. Plan

| # | Module | Status |
|---|---|---|
| 1 | `FirstFlight` - the TCP handler: what is held, sent, lost; `PacketRelay` - what that promises | done |
| 2 | `FirstFlight_proofs` | done: all properties of the run `hold` |
| 3 | `Supervisor` - scripts and launchd | done |
| 4 | `Supervisor_proofs` | done for types and the three invariants |
| 5 | `ControlPanel` - application and strategy test; `ControlPanel_proofs` | done: all properties of the run but liveness |
| 6 | `ProfileSelect` - filters, host lists, IP sets, the choice cached in an entry and made again with a name; reload with signals and failing loads; the automatic list with its counters | done |
| 7 | `ProfileSelect_proofs` | done: all properties of the run |
| 8 | `Segmentation` - split, disorder, fake and sequence overlap as operators on positions with wrap-around, against "the receiver's stream is the client's" | done but for HTTP header rewriting, TTL and window; `Segmentation_proofs` for all properties of the run, `IdsDiffer` where a request leaves the ids room |
| 9 | `CommandLine`, `Startup` - every option, what a line makes of profiles and lists, from `main` to the loop | done; `Startup_proofs` for all properties of the run |
| 10 | `QuicFlight` - reassembly of CRYPTO ranges in the queue of 1, same abstract `PacketRelay` | done |
| 11 | `Update` - swap of the bundle with a failure after any command | done |
| 12 | `QuicFlight_proofs` and `Update_proofs` | done: all properties of the two runs but liveness |
| 13 | More proofs: `ProfilesAreSections`, `PortFiltersMean`, `ModsReachFakes`, `IdsDiffer` | done; `IdsDiffer` under `IdsFit` |
| 14 | `ConnPool` - several entries, purge, refinement of the single entry of 1 and 10 | |

The engine's modules divide one handler: `Startup` makes the profiles, `ProfileSelect` finds the
one for a packet, `FirstFlight` and `QuicFlight` decide what is kept back and what goes on, and
`Segmentation` cuts what goes on. What one takes from another is any value the other can give: a
profile in `QuicFlight`, a position that begins a request in `FirstFlight`, a request with its
markers in `Segmentation`.

`Supervisor` and `ControlPanel` are not composed: the first has everything between start and
end of the service and ignores what it is configured with, the second knows the service only
as what it reads when. The interface is the same in both - a script runs to its end,
the service is started anew by `install.sh` and `restart.sh`, and can be restarted by launchd
at any time.

## 3. The models

### FirstFlight and PacketRelay

One action per path through `dpi_desync_tcp_packet_play`: out of the start and cutoff limits
(`OutOfInterval`), data ahead of the first byte (`HoldFirstGap`), part of a ClientHello
(`HoldHello`), the part that completes it (`ReplayHello`), too large a record
(`PassTooLarge`), complete or partial hello that passes (`PassHello`), HTTP, unknown data, data
without an entry. `SynNew`, `SynAgain`, `Control` and `Forget` are packets without data and
the end of the entry. Every action contains the conntrack update and the send or free of the
queue it causes in the code.

Abstractions. A packet is an identity with a position and a length; positions are relative to
the first byte. Whether a position begins a ClientHello (`RecordLen`) or an HTTP request
(`HttpAt`), where its host name ends, and the profile's options are constants. How a packet is
cut and faked is not here, only at which offset in the request (`reasm_offset`), as that is
what replay must get right. Allocation and raw sending succeed. `reasm_orig_feed_delayed`
scans the queue until it finds nothing to feed; `FedDelayed` is its fixed point.

`PacketRelay` is the promise: a packet taken is handed on once, now or later, or lost together
with the whole connection. `ImplementsRelay` is the refinement (`inside <- Held`).

### Supervisor

Each script is a sequence of commands, a process a position in it; every command that touches
shared state is a step. Processes: `run` (`run.sh`, with `cleanup` as a script it enters from
a trap and returns from), `dog` (`watchdog.sh`), `ctl` (the script of the application), the
engine, launchd. `RunSh`, `Cleanup`, `WatchdogSh`, `StopSh`, `InstallSh`, `RestartSh` list the
commands in the code's order. A signal is taken between two commands; `cleanup` resets the
trap and does not exit, so `run.sh` goes on where it was (`back`), as the shell does. A
command that fails under `set -e` is `RunFails`.

External, modelled from how the scripts use it: launchd (SIGTERM then SIGKILL, process group
killed when the job ends, restart after failure, `bootout` waits, `disable` survives), pf
tokens, `utun50` living with the engine, the network, the machine's reboot.

`borrowed` is a history variable: when run.sh looked, pf was enabled, and by another program
alone.

Left out: ARP, MAC addresses and IPv6, the throttle of two seconds (time), two control scripts
at once, reuse of pids.

### ControlPanel

Actions are the methods of `ZapretService` behind the guards the views put in front of them,
the completion on the main queue (`ScriptDone`), denial of authorization, quit and start, and
the steps of `test-strategies.sh`. `install.sh`, `restart.sh`, `stop.sh` are one step each here
with the wait for the engine as a second one; `run.sh` is its three reads. A script belongs to
the application (`app`) or to one that was quit (`orphan`). A test has its own record:
`original` is ORIGINAL_STRATEGY and ORIGINAL_IPSET, `running` ORIGINAL_RUNNING, `installed`
INSTALLED.

`missed`, `promised`, `settled`, `overlap` and `asked` are history variables the properties
need; they guard nothing. `missed` are selections that start no restart, which `RunsAsSelected`
leaves out: it is about a service that reads the files while tests and scripts write and restart.
`promised` is a selection the view promises to apply, of which `SelectionIsApplied` speaks.

### ProfileSelect

The engine takes a packet at `"recv"`, and what it does with it is a chain of steps named by
`pc` back to `"recv"`: the reload a SIGHUP asked for, the first search (`Lookup`), the count of
retransmissions with the automatic list (`Retrans` to `SignList`), the payload's protocol and
host (`Classify`, `Discover`), the search they cause, and the decision (`Decide`, `Check`). One
profile of a search is `TryProfile`, the reload check of its lists, `MatchFilters`, the reload
check of its ipsets, `Match`. `LoadHostList` is two steps, `stat()` and reading, since a file
may change in between; `todo` has the files still to be looked at and `back` the step after
them. `chk` is the result of the last host list check, which `Found` leaves in the entry and
`Discover` takes from there.

Others write, remove or lock files (`Rewrite`, `Remove`, `Repair`) and send SIGHUP (`onhup`).
They do so only at steps that look at the files or the flag (`LooksAtFiles`): anywhere else the
same change one step later cannot be told apart. A load that fails in a reload ends the
process; `Restart` is launchd starting `run.sh` again, which copies all lists anew.

Lists are sets of entries with a strict flag; `Above` gives the domains and subnets something
lies in, so host lists and ipsets share their operators. A packet is what the parsers answer:
protocol, host, whether it is held or replayed, and where its sequence number lies.

Left out here: ports, L3 protocols and SSIDs (constant filters of the same kind as the protocol),
the cache of names by address, entries given on the command line, the start and cutoff limits
(`FirstFlight` has them), failing writes, replies (they never reach the engine). Each change of
a file gives a new signature: two changes within a second that keep the size look like one in
the code and are not here. Nobody but the engine writes the automatic list. `run.sh` gives the
engine copies of the user's lists, so on an installed system files seldom change under it; the
run assumes less.

Worth knowing when reading strategies: a profile that has only `--hostlist-exclude` next to an
ipset takes no connection before its host is known (`MatchFilters`, `desync.c:254`), so
`docs/readme.md:32`, which lets mode `any` work on all addresses, holds only for requests with a
host name.

### Segmentation

The engine takes a SYN and the packets of one request; each becomes a list of parts (`todo`):
genuine segments, with what precedes them by overlap, and fakes. `Write` puts one part on the
wire, `WriteFails` is a failure, after which the packet leaves whole behind what is already on
`wire`, as `send_orig` does. `Deliver` is the network and the server: any part, any number of
times; a segment at the expected place is read, one ahead is kept, and where kept segments
overlap the one that begins first counts. Fakes are ignored if the profile gives the server a
reason to (`FakesIgnored`).

Each mode of the second stage is an operator (`Multisplit` and its like): the cuts come from
`pos_normalize` and the markers, sequence numbers are modulo `W` and IP ids modulo `IdMod`. `W`
stands for 2^32; all the model asks of it is `WidthAssumption`, that a request with an overlap
before it takes less than half of the numbers, which is what `SignedDifference` needs to tell
before from after and what the limits on reassembly and on a packet guarantee. `Offsets` is where
the packets of a request begin, `InOrder` the sort of `ResolveMultiPos`. A packet without an id
is given what `random` returns, a field of the request (`OwnId`). Left out: what a parser does to
find a marker, rewriting HTTP headers, TTL guessing, window size rewriting, random ids for every
part (the mode `rnd`).

### CommandLine and Startup

`CommandLine` has one operator per family of options, translating `main`'s `switch`: the set of
profiles an option can make of a profile, empty if `main` exits. An argument is a sequence of
items with a word and numbers, so bounds, separators and missing values are told apart and
spelling is not. `Startup` runs through a line: `Assign`, `New` and `Skip`, registration of list
files, then the phases of `main` to `utun_main` in order, each of which may end in an exit. A
list may be readable, readable for root only, gone or compressed.

What a line means is said without running through it: `Begins` and `Section` are positions of
the line, `Kept` the sections that `--skip` leaves, `Place` the number of one among them, and
`MadeBy` the profiles its options alone would make. `ProfilesAreSections` compares the loop of
`main` with that; `PortFiltersMean` and `ModsReachFakes` say of a section which ports and which
mods its options ask for.

### QuicFlight

One action per path of `dpi_desync_udp_packet_play`. A datagram is a kind, and for an Initial
the CRYPTO ranges it holds in order; `Full` is what the sort and merge of `QUICDefragCrypto`
computes. `HoldPart` and `NoMemory` differ in whether the queue takes the copy; `ReplayHello` is
`replay_queue` with all decisions, the first datagram taking them and the others finding them in
the entry. `Judged` is everything between the known payload and the desync: a new search, the
limits looked at again, the host lists and the retransmission counter. `Forms` says how a
datagram can leave: fakes ahead of it, rewritten, or as it is if one of the two failed.
`Untracked` is a datagram for which no entry could be allocated.

Left out: datagrams from the server (they never reach the engine on macOS), limits in mode `s`,
and how a datagram is rewritten.

### Update

The application's part is `installUpdate` with its stages as actions, the script's is one action
per command. `Died` ends it anywhere: a command that fails under `set -e` and a kill are the same.
The application can be quit, opened and used meanwhile; `isRunning` is the flag that is refreshed
every two seconds and is what the script is told (`wasRunning`). A second update meets what the
first one has left: the remains of a copy in the place of the bundle, a backup beside it. Two
scripts never run at once: the user would have to open the application in the 0.1 s between two
looks of the first one.

## 4. What the runs show

| Run | Instance | Shows |
|---|---|---|
| `hold` | eleven segments: two ClientHellos, one too large, HTTP, a keep-alive probe, duplicates, another cut; data where the cutoff is | `TypeOK`; held packets always have a session or the gap flag over them (`HeldIsAccountedFor`); the buffer is in the queue (`ReassembledIsHeld`); a session is incomplete and within its limit (`SessionIsOpen`); order and offsets are right unless a gap opened the stream (`InOrderUnlessGap`, `OffsetsRightUnlessGap`); a replay finalizes its request (`ReplayIsFinalizedUnlessGap`); `ImplementsRelay`; while the client sends its hellos again the queue is empty infinitely often (`HeldIsReleased`) |
| `supervisor_faults` | two scripts, one fault, two routes, four tokens | types, `KeepinitIsKept`, `StoppedIsClean`, `OneReference`; no black hole for ever (`NoBlackHole`); a service that stays loaded serves in the end, over the route there is and with pf enabled unless pf was another program's (`ServesInTheEnd`) |
| `controlpanel_use` | two strategies, modes `none` and `any`, three commands of the user, one edit | types, `CancelIsOurs`, `RunsAsSelected`, `TestRestores`, `BusyEnds` |
| `controlpanel_lists` | same | **violated**: `ListsAreApplied` - selecting what is selected does not restart the service |
| `controlpanel_select` | same | **violated**: `SelectionIsApplied` - a strategy selected while a script runs is shown and never applied |
| `controlpanel_tests` | same | **violated**: `SettingsAreRestored` - two tests that overlap across a quit restore each other's settings |
| `profile_reload` | three profiles, four files, one connection with two hosts, one change of a file | types; decisions follow the lists of the profile found (`DecisionFitsLists`); a signature stands for its content (`LoadedIsOnDisk`); first decisions are by the lists on disk (`DecidedByFreshLists`); a profile that is used is there (`ProfileIsKnown`); the automatic list gets new hosts only (`AddedIsNew`) |
| `profile_exclude` | same, no change of files | **violated**: `ExcludedIsLeftAlone` - a request for a second, excluded host is judged by the check of the first |
| `segmentation` | twelve profiles, six requests of one to three packets, two failing writes, sequence numbers that wrap at 32 and ids that wrap at 16 | types; the server reads what the client wrote, if it ignores what it should (`StreamIsClients`); no byte is lost by a write that fails (`NothingLost`); genuine parts have different ids (`IdsDiffer`) |
| `startup` | every option alone, with what it takes and refuses; lines of up to four options whose order matters; as root and as a user | types; a profile is its section of the line and nothing else (`ProfilesAreSections`); port filters mean what the help says (`PortFiltersMean`); a TLS modification reaches the fake it stands behind (`ModsReachFakes`); an engine that serves has what it needs and can read its lists (`RunsReady`) |
| `quic` | twelve datagrams: a hello in two parts, a copy, all of it, too little of it, five that are no hello, three other payloads; limits, lists, fakes | what is held is one incomplete hello and nothing else is in the buffer (`HeldIsPartOfHello`); a hello is one request (`HelloIsOneRequest`); `ImplementsRelay` |
| `update` | two updates, two changes of the service by others | a whole bundle survives and the service is as it was or the user is told (`AppSurvives`); an application that quit is opened again unless the script died (`AppComesBack`) |

Every property of a passing run has a mutant: a definition with a plausible bug, under which
TLC finds the property violated. The mutants stand before the definition they replace.

### Bounds

*FirstFlight*: `Packet` is finite but a packet may come any number of times; counters saturate
at `CountCap`, above the limits they are compared with, so saturation cannot be told from
growth. The cutoff of the run is a position, 17, which only `x1` reaches. Start and cutoff in
packets, and fakes of partial hellos, are in the theorems, which hold for any of them.
Three units of hello and limits of 5 and 4 units make every branch happen: too large,
in the gap window and beyond, two and three segments, overlap.

*Supervisor*: `MaxScripts = 2` so that each script meets what another left, or starts while
run.sh is anywhere; `MaxFaults = 1` so that one process dies anywhere, including at once after
a control script. Another program may have pf from the beginning, so giving it up is one fault.
`launchd` itself restarts without bound. Four tokens: `FreshTokens` never
runs out. The three safety invariants are proved without bounds.

*ControlPanel*: `MaxCommands = 3` is what quit, start and test again needs; two strategies are
the least for which "the next" and "the last" differ. `KeepAlive` is unbounded. One script may
be an orphan at a time (`Quit`). All but `BusyEnds` is proved without bounds.

*ProfileSelect*: three profiles are the least for which a search passes one by protocol, finds
one by its automatic list and can end at the default one. Two hosts, one of them below a listed
domain and one excluded, tell inclusion, strict and plain exclusion apart; `MaxEdits = 1` with
`MaxSig = 2` puts one change anywhere, followed by a removal or a repair without bound of what
it left unreadable. Signatures only ever have to differ. Both thresholds are 2, so counting,
forgetting and firing are different steps. One connection: the entries share nothing but the
lists and the counters, and `Purge` makes the connection a new one. All
properties of the run are proved without bounds.

*Segmentation*: two failing writes put a failure at any part and a second into the fallback;
`W` = 32 is about the least that has a request of seven bytes and an overlap of six in less than
half of it, and requests that begin at 30 wrap inside; `IdMod` of 16 makes ids wrap. The profiles
are those of the shipped strategies, reduced, and one for each mode they do not use. All
properties of the run are proved without bounds, `IdsDiffer` for the profiles and requests that
leave the ids room (`IdsFit`); `RoomAssumption` has TLC check that every profile of the run has a
request of several packets among them. The run checks the others, too.

*Startup*: lines are enumerated, each option with every class of argument the code tells apart.
Longer lines are those in which an option's effect depends on one before. All properties of the
run are proved for any lines, and that port filters mean what a section says for every port, not
only for those the run tries (`Probes`).

*QuicFlight*: a hello of six units with the header at two and the name at four or nowhere; the
buffer takes three clear texts, so that a copy fills it, and the table four ranges, so that it
overflows. Counters saturate above the limits. A datagram can come any number of times.

*Update*: two updates are the least for one to meet what another left.

`CHECK_DEADLOCK FALSE` in `Supervisor` and `ControlPanel`: with the scripts used up and nothing
going wrong a stopped service stays stopped, and a closed application with no command left too.
In `Segmentation` and `Startup` the request ends and the process exits; in `Update` a script that
died between moving and copying leaves nothing that could be opened. The runs of `FirstFlight`,
`QuicFlight` and `ProfileSelect` check deadlock.

### Fairness

*FirstFlight*: the engine has no timer for held packets, so its own fairness would prove
nothing. `ClientRetransmits` is that of the client's TCP, which sends what is not acknowledged
again: at every position of a ClientHello some segment is sent again and again. Nothing else has
to come, nothing that reaches the cutoff either: what is held is let go of by the handling of
hellos alone.

*Supervisor*: weak fairness of each process (a shell that runs goes on), of the engine coming
up or being seen dead, of launchd. No script must be run, nothing must fail, no route must
change. Weak fairness suffices: a process's next command stays enabled until it is taken.

*ControlPanel*: weak fairness of the scripts and of the main queue. Nothing is assumed of
`run.sh`: an engine that never comes up is among the behaviours `BusyEnds` is checked on.

*Update*: weak fairness of the script while it lives. `AppComesBack` allows that it dies.

## 5. What is proved

TLAPS proves, for every value of the constants that satisfies the `ASSUME`s:

*FirstFlight_proofs* (any stream, any segmentation, any limits)

- `TypeCorrect`, `HeldAccounted`: inductive as they stand together.
- `InOrder`: from types and the two ways of queueing (`QueueWithOrder`), one case per action.
- `ImplementsPacketRelay`: needs that the queue holds nothing twice (`HeldOnce`), which a
  packet can only break by arriving while held; each step is then a `Take`, `Free` or `Forget`.
- `SessionHeld` (and `SessionStaysOpen`): `SessionIsOpen /\ ReassembledIsHeld`. Feeding from the queue is the hard step:
  `FedDelayedMoves` shows by descent over expected positions that every byte the buffer
  advances over is in a packet of the queue.
- `OffsetsRight` and `ReplayIsFinalized`, by `QueueLeads`: without a gap the packets of the queue
  are adjacent and end where the session is (`QueueIsTheHello`), since a part that does not fill
  the buffer is copied whole. Over adjacent packets the sum of `replay_queue` is the distance from
  the first (`OffsetOfAdjacent`). A replay of more than one packet is caused by one that feeds
  the session, so the record is seen complete (`FullIsSeen`).

*Supervisor_proofs* (any number of scripts, faults, routes and tokens)

- `TypeCorrect`: positions stay within their scripts; a trap is never set during cleanup.
- `StoppedClean` by `JobInv`: a job that is gone left no process; rules outlive it only while a
  script that will flush them stands right behind its `bootout`. The invariant alone is not
  inductive: that `stop.sh` past `bootout` implies the job is gone is needed.
- `KeepinitKept` by `KeepInv`: the saved value is the user's, and where no value is saved the
  sysctl is the user's. Needed: `stop.sh` restores only once the job is gone, so that `run.sh`
  cannot raise the value between restoring and forgetting. That is why it is proved with
  `JobInv` (`IInv`).
- `HoldsOneReference` by `RefInv`: whoever is about to enable pf, now or on return from
  cleanup, has seen no reference, and nobody else takes one.

*ProfileSelect_proofs* (any lists, hosts, profiles, connections, thresholds, number of changes)

- `Invariant` is the induction, over eight parts. `StepOK`: what is in hand at each step, with
  the last profile's lists empty, so that a search never passes it. `EntryOK`: a connection
  under watch has its protocol and host discovered, so no search can take its profile away.
  `PacketOK`: a packet under work fits its entry. `SignatureOK`: a file's signature in memory
  is never ahead of the disk, and while a file is read strictly behind the one that was taken
  of it, which is why content read late cannot pass for older content. `CheckOK`: a check that
  is done is that of the profile found and the entry's host; it needs the mark to be reset for
  each profile (`Unchecked`). `FreshOK`: how much of the profile's lists a reload check has made
  sure of at each step, up to the files that changed since the packet came. `AutoOK`: an
  automatic list in memory has all that is on disk, and a host on its way to it is on no list.
- `TypeCorrect`, `LoadedListIsOnDisk`, `DecisionsFitLists`, `DecidedByListsOnDisk` and
  `ProfileKnown` follow. So does `AddedToListIsNew`, under the hypothesis `AutoListsAreOurs`
  that nobody else writes to automatic lists and each is one of its profile's own, as
  `--hostlist-auto` makes it; `MCProfileSelect` has TLC check that its instance satisfies it.

*ControlPanel_proofs* (any strategies and modes, any number of commands and edits)

- `Invariance` is the induction. `StepInv`: at which steps a test has a strategy to try and
  knows what to restore. `CancelIsOurs` is needed with the types. `RunInv`: a service that has
  read its settings and is not about to read them anew has those of the files. `RestoreInv`:
  while no test runs the files are what the user settled on, tests do not overlap unless
  `overlap` says so, and one that runs alone knows the settled settings and has written back
  as much of them as its step says.
- `Typing`, `TestsAreNotCancelledByOthers`, `ServiceRunsAsSelected` and `TestsRestoreSettings`
  follow, the last from `RestoreInv` at the step that ends the test.

*Startup_proofs* (any command lines, configuration files, lists and users)

- `Invariance` is the induction. A profile under work only names lists that are registered, in
  their kind (`ProfilesOK`, `AnonOK`); the first part of the module shows of each family of
  options that it leaves those names alone. `DiskOK`: what is read is on the disk. `ReadyOK`:
  for each phase of `main`, which descriptors are open, who the process is, which kinds of
  lists are read and what the pid file has.
- `TypeCorrect` and `ServesReady` follow.
- `ReadInvariance` is about what was read. `FollowsOK`: at every option, each section kept so far
  has a profile that its own options would make of a new one (`Reads`), with the lists they name
  (`Collects`); the section that goes on may still be skipped, and then the next takes its
  profile. For that, options are shown blind to the number and the lists of a profile, which a
  section that is read alone has different (`Alike`, `Blind`: one lemma for each family), and lists
  without a file to belong to one collection of one profile (`OwnItems`). `DoneOK` carries this
  through finalisation (`Made`). `SectionsAreProfiles` follows.
- `EveryPortAsSaid` and `ModsReach`, by a second induction over the options of a section (`Said`):
  the filters are those the items so far ask for, and closed if only the other protocol was named
  (`Filtered`); each fake has the mods of the last list that reaches it (`FakesOK`, `Reaching`).
  It needs that every option that was read is well formed (`FormInvariance`). `PortsAsSaid` is
  `EveryPortAsSaid` at the ports of the run.

*Segmentation_proofs* (any profiles, requests, widths and numbers of failing writes)

- `Invariance` is the induction. A genuine part is a *piece* of its packet, on the wire (`Left`)
  or still to be sent (`Due`); a write moves a piece from one to the other, and a write that fails
  replaces those that are due by the whole packet. `LeftOK`: a packet that is done with is made up
  of pieces that left, one on its way of pieces that left or are due. For that each mode is shown
  to make its packet complete, whatever cuts it is given (`PosOK`). `PiecesOK`: pieces are within
  their packet, and the junk of an overlap lies where no piece ends.
- `ServerOK`: the server has read up to the end of a piece. It therefore never stands inside junk,
  and the segment it reads next begins in data it has (`JunkFree`); across the wrap a segment is
  at its place because `SignedDifference` gives back the difference of positions.
- `Typing`, `ReadsWhatWasWritten` and `NoPacketIsLost` follow.
- `IdsAreDistinct` by `IdInv`, with `IInv`. Ids lie on a circle without zero (`After`, `Dist`). What
  left or is due under an id of its own is *apart*: one id, one place (`ApartOK`). That alone is
  not inductive: the ids in use must trail the one that is next, the entry's or that behind the
  stage on its way (`Ahead`), by no more than the share of the packets so far (`TrailOK`), so that
  the next stage begins in front of all of them and stays short of a full circle. For that each
  mode is shown to use one id for one place, within its share (`Counted`, `Spread`); a part that
  is refused is shown to leave before any that counts (`RefusedOK`), since the packet then leaves
  whole and the entry keeps its id; and disorder, which counts down, to have room above the id it
  begins with (`RoomOK`).
- Its hypothesis is `IdsFit`: no packet's parts begin with id zero, the packets need fewer ids than
  there are, and for `multidisorder` no id wraps and no packet is longer than a segment may be.
  Parts begin with zero only where `random` returns it for a packet that has no id. With ids of
  16 bits the rest holds unless `multidisorder` comes near 65535.

*QuicFlight_proofs* (any datagrams, any cut of a hello into ranges, any profiles and limits)

- `Invariant`: types, a queue without repetition, an empty buffer when no session runs, and
  `HeldIsPartOfHello`. Every path through the handler does one of three things to the queue
  and the buffer (`Handled`): it ends the session, lets the datagram pass, or keeps it. The
  last is the only one with work to do: ranges that cover the hello come out as one
  (`CoveredIsWhole`), so a datagram that is kept with `~ IsWhole` leaves something lacking.
- `HeldIsIncomplete` and `ImplementsPacketRelay` follow; of the relay, each of the three is a `Take`.
- `HelloIsHandledAsOneRequest` by `TrackInv`: a session only runs with an entry that has counted
  a packet, so that a datagram without an entry is judged by its own ranges. The converse of
  `CoveredIsWhole` is needed, that ranges which come out as one have no hole (`FullIsCovered`:
  of those that end behind a unit, the one that begins first begins no later than it), and that
  a verdict counts at most one retransmission (`JudgedJudges`).

*Update_proofs* (any number of updates and of changes of the service by others)

- `ApplicationSurvives` by `BundleInv` (a whole bundle is there, among those moved away while
  its place is worked on) and `NotedInv` (until the service is seen to, it is as noted unless
  somebody changed it; another update is only prepared when no script runs).

The assumptions say that the last profile has no filter, as `main` appends it, that thresholds
are in the range the command line accepts, and that names and files are what they are called. In
`ControlPanel`, there is a strategy and the value for "not known" is none. In `Startup`, `Lines`
are of options, a list that is named is a file of every disk, if perhaps an empty or unreadable
one, and "none" is no file. In `Segmentation`, profiles and requests have their types and
`WidthAssumption` holds.

Sums over a sequence, and what the options of a section make (`MadeBy`), are functions with a
recursive definition, and what they compute is shown by
taking the least number for which it fails (`LeastNatural`, `Least`): the induction
theorems of the library take an operator, which the provers cannot instantiate. What they do not
reach either is a RECURSIVE operator or a fold.

Only model-checked:

- liveness (`HeldIsReleased`, `NoBlackHole`, `ServesInTheEnd`, `BusyEnds`, `AppComesBack`), which
  TLAPS does not support;
- `IdsDiffer` for profiles and requests that do not satisfy `IdsFit`, of which it is not always
  true: where `random` returns zero all parts keep it, and `multidisorder` across the wrap can
  repeat an id (section 6).

## 6. Disagreements found

1. Selecting the current strategy or mode again does not apply edited lists
   (`controlpanel_lists`, `ZapretService.swift:51`, against `docs/readme.md:34`).
2. Settings are not restored when a test was started while that of an earlier session still
   ran (`controlpanel_tests`, `test-strategies.sh:13`, against `TestingView.swift:65`).
3. A strategy selected while a script of the application runs, or while `isRunning` is still false
   for a service that is up, is written, shown and not applied (`controlpanel_select`,
   `ZapretService.swift:196` and `:162`, against `StrategiesView.swift:37`).
4. A later request on a connection is judged by the host list check of its first host, so an
   excluded host is tampered with (`profile_exclude`, `desync.c:1770`, against
   `docs/readme.md:26`).

Met while modelling, with no run of their own:

*Control.* After a cancelled test the selection shown may differ from the files until the next
script or start (`ZapretService.swift:94`). A test started while the service is just restarting
takes it for stopped and leaves it off (`test-strategies.sh:27`). `run.sh` looks at pf
once: if another program keeps it enabled it takes no reference, and when that program gives pf up
the service stays loaded and routes nothing (`run.sh:108`, against `docs/readme.md:50`, where a
running service goes on until it is stopped). The gateway's address is looked up once
(`run.sh:122`). An update that is rolled back leaves no message, unlike a service that
does not start (`update-app.sh:49`), and one whose `chown` fails leaves the application closed
with the new bundle unverified in its place (`update-app.sh:54`).

*Held packets.* After a first-byte gap the replay is not in stream order and its offsets are
summed in queue order (`desync.c:1632`, `desync.c:3544`, against `conntrack.h:43`). A ClientHello
completed from packets held ahead of it is not finalized, so its retransmission is held again
(`desync.c:1623`, against the comment at `desync.c:1600`). A QUIC hello has no such mark at all: a
part that comes again after the replay is held until other traffic. The parts of a hello count
for `desync_cutoff`, so a cutoff after two packets never sees the hello they make.

*Segments.* `ts` as fooling needs packets that carry timestamps. A second replay starts from the
id the entry remembers, so a fake and a part can share it. Overlap takes for granted that
everything before the request is acknowledged. `multidisorder` that wraps past id zero can repeat
the last id of the packet before. The second IPv6 fragment copies the fixed header only.

*Options.* `*` in a port filter leaves `neg` as it was (`helpers.c:413`, against
`nfqws.c:1918`). `--dpi-desync-autottl6=-` is overwritten by the IPv4 setting (`nfqws.c:3606`). The
`tcp-flags` options accept no argument and then read one. The comment on `altorder`
(`nfqws.c:1316`) has the orders of `desync.c:2604` reversed. A list of a section given up by
`--skip` has to be readable. A SIGHUP during a load is lost, but the lists it was sent for are
reloaded by their signatures (`nfqws.c:86`).

## 7. Not modelled

Cryptography, checksums, gzip and byte-level parsers are pure functions on large data, out of a
model checker's reach: the models take what a parser answers as a constant of the packet and what
decryption or a hash answers as an outcome. Containers are third-party and used as sets, functions
and sequences. Views and build scripts keep no state; what a view enables is in the guards of
`ControlPanel`. Code of other platforms (netfilter, divert sockets, WinDivert) and of replies is not
part of this build. Of the TCP handler, HTTP header rewriting, TTL guessing and window rewriting
are left out; they change bytes of a packet that is on its way and no control.

Hazards without a property: a strategy test that is killed without a signal leaves its strategy
in the files (nothing in the code repairs that); `stop.sh` from a terminal while the application
runs a script (`Supervisor` has one control script at a time); an edit of the automatic list
that falls between a reload and the line appended; pf that another program gives up and a gateway
that is replaced under its address, which `run.sh` does not notice (`ServesInTheEnd` leaves the
first out by `borrowed`, a route is one value); and whether the service runs, noted by an update
long before the script acts on it (`AppSurvives` leaves a change since then out by `touched`).
Of the two limits of the TCP handler, `SessionIsOpen` is about the size of a buffer; that on the gap
before the first byte has no property.

## 8. Running it

    tlc -config Supervisor_faults.cfg MCSupervisor
    tlc -config ControlPanel_use.cfg MCControlPanel
    tlc -config FirstFlight_hold.cfg MCFirstFlight
    tlc -config ProfileSelect_reload.cfg MCProfileSelect
    tlc -config Segmentation_request.cfg MCSegmentation
    tlc -config Startup_lines.cfg MCStartup
    tlc -config QuicFlight_hello.cfg MCQuicFlight
    tlc -config Update_faults.cfg Update
    tlapm Supervisor_proofs.tla
    tlapm ProfileSelect_proofs.tla
    tlapm FirstFlight_proofs.tla
    tlapm QuicFlight_proofs.tla
    tlapm Update_proofs.tla
    tlapm ControlPanel_proofs.tla
    tlapm Startup_proofs.tla
    tlapm Segmentation_proofs.tla

`supervisor_faults`, `controlpanel_use`, `profile_reload` and `hold` take a few minutes, the others less.
