------------------------------ MODULE Telemetry ------------------------------
(***************************************************************************)
(* What the HUD shows of the machine (telemetry/proc_reader.py,            *)
(* telemetry/service.py, and _poll of controller.py).  The kernel exports  *)
(* counters; a rate is the difference of two readings of them, and between *)
(* the two a core may go offline, an interface may leave with its bytes or *)
(* come with some, iowait may fall, and a file may become unreadable.      *)
(*                                                                         *)
(* A reading is not of one instant: the clock and the cores are read first *)
(* and the network last, behind the disks, where a file system that does   *)
(* not answer (statvfs) holds the reading up for any time.                 *)
(*                                                                         *)
(* Received and sent bytes are read, subtracted and refused together: one  *)
(* counter stands for the pair.  A fraction is kept as its two numbers.    *)
(* Memory, load, uptime, temperature and storage are read anew each time,  *)
(* so that only their absence matters here; a machine without a battery is *)
(* not degraded.                                                           *)
(***************************************************************************)
EXTENDS Integers, Sequences, FiniteSets, Functions

CONSTANTS
  Cores,       \* the cores, in kernel order
  Interfaces,
  Plain,       \* the sources no rate is taken of
  Unavailable,
  Carried,     \* bound: the bytes an interface may come with
  MaxChanges   \* bound: things that happen to the machine

CoreNames == {Cores[i] : i \in DOMAIN Cores}

ASSUME TelemetryAssumption ==
  /\ Cores \in Seq(CoreNames) /\ \A i, j \in DOMAIN Cores : Cores[i] = Cores[j] => i = j
  /\ IsFiniteSet(Interfaces)
  /\ {"cpu", "network"} \cap Plain = {} /\ Carried \subseteq Nat /\ MaxChanges \in Nat

VARIABLES
  \* the machine
  clock,
  jiffies,     \* idle and total, of each core
  online,
  nics,        \* the interfaces there are, with their bytes
  unreadable,  \* sources
  changes,
  \* TelemetrySampler
  tpc,         \* "idle", or "disks": in sample(), between the cores and the network
  sampled,     \* its locals so far
  prevCpu, prevCores, prevNet, prevTime,
  \* the controller
  snapshot,
  told,        \* the last it said about degradation on the console
  \* what has happened
  worked,      \* since a reading began: the cores, and the time
  moved,       \* since the network was read
  begun,       \* what had worked when the reading that is under way began
  truth        \* what the snapshot is of

machineVars == <<clock, jiffies, online, nics, unreadable, changes>>
samplerVars == <<tpc, sampled, prevCpu, prevCores, prevNet, prevTime, snapshot, told>>
telemetryVars == <<machineVars, samplerVars, worked, moved, begun, truth>>

Sources == {"cpu", "network"} \cup Plain

AtRest ==  \* no core has done anything, and no time has passed
  [busy |-> [c \in CoreNames |-> 0], all |-> [c \in CoreNames |-> 0],
   time |-> 0, iowaitFell |-> FALSE]

Silent == [bytes |-> 0, came |-> 0, left |-> FALSE]

NotSampled == [now |-> 0, cpu |-> Unavailable, cores |-> <<>>, failed |-> {}]

NoSnapshot == [cpu |-> Unavailable, cores |-> <<>>, rate |-> Unavailable, degraded |-> {}]

TelemetryInit ==
  /\ clock = 0 /\ jiffies = [c \in CoreNames |-> [idle |-> 1, total |-> 2]]
  /\ online \in (SUBSET CoreNames) \ {{}}
  /\ nics = [i \in Interfaces |-> 1] /\ unreadable \in SUBSET Sources /\ changes = 0
  /\ prevCpu = Unavailable /\ prevCores = <<>>
  /\ prevNet = Unavailable /\ prevTime = Unavailable
  /\ tpc = "idle" /\ sampled = NotSampled /\ snapshot = NoSnapshot /\ told = "nothing"
  /\ worked = AtRest /\ moved = Silent /\ begun = AtRest
  /\ truth = [work |-> AtRest, net |-> Silent]

-----------------------------------------------------------------------------
(* The machine.                                                            *)

Happens ==
  changes < MaxChanges /\ changes' = changes + 1 /\ UNCHANGED <<samplerVars, begun, truth>>

Spends(c, idle, total) ==
  /\ jiffies' = [jiffies EXCEPT ![c].idle = @ + idle, ![c].total = @ + total]
  /\ UNCHANGED <<clock, online, nics, unreadable, moved>>

Works(c) ==  \* a jiffy, idle or not
  /\ Happens /\ c \in online
  /\ \E idle \in 0..1 :
       /\ Spends(c, idle, 1)
       /\ worked' = [worked EXCEPT !.busy[c] = @ + 1 - idle, !.all[c] = @ + 1]

IowaitFalls(c) ==
  /\ Happens /\ jiffies[c].idle > 0 /\ Spends(c, -1, -1)
  /\ worked' = [worked EXCEPT !.iowaitFell = TRUE]

Hotplug(c) ==
  /\ Happens /\ online # {c}
  /\ online' = (online \ {c}) \cup ({c} \ online)
  /\ UNCHANGED <<clock, jiffies, nics, unreadable, worked, moved>>

Traffic(i) ==
  /\ Happens /\ i \in DOMAIN nics /\ nics' = [nics EXCEPT ![i] = @ + 1]
  /\ moved' = [moved EXCEPT !.bytes = @ + 1]
  /\ UNCHANGED <<clock, jiffies, online, unreadable, worked>>

Leaves(i) ==
  /\ Happens /\ i \in DOMAIN nics
  /\ nics' = [j \in DOMAIN nics \ {i} |-> nics[j]] /\ moved' = [moved EXCEPT !.left = TRUE]
  /\ UNCHANGED <<clock, jiffies, online, unreadable, worked>>

Arrives(i) ==  \* new, or from another namespace with its count
  /\ Happens /\ i \notin DOMAIN nics
  /\ \E n \in Carried :
       /\ nics' = [j \in DOMAIN nics \cup {i} |-> IF j = i THEN n ELSE nics[j]]
       /\ moved' = [moved EXCEPT !.came = @ + n]
  /\ UNCHANGED <<clock, jiffies, online, unreadable, worked>>

SourceFails(s) ==  \* or is readable again
  /\ Happens /\ unreadable' = (unreadable \ {s}) \cup ({s} \ unreadable)
  /\ UNCHANGED <<clock, jiffies, online, nics, worked, moved>>

Passes ==
  /\ Happens /\ clock' = clock + 1 /\ worked' = [worked EXCEPT !.time = @ + 1]
  /\ UNCHANGED <<jiffies, online, nics, unreadable, moved>>

-----------------------------------------------------------------------------
(* ProcReader.                                                             *)

(* Those of the first n cores that are online.                             *)
Present[n \in 0..Len(Cores)] ==
  IF n = 0 THEN <<>>
  ELSE IF Cores[n] \in online THEN Append(Present[n - 1], Cores[n]) ELSE Present[n - 1]

Line(c) == [name |-> c, idle |-> jiffies[c].idle, total |-> jiffies[c].total]

(* The aggregate line counts the cores that are offline, too.              *)
CpuTimes ==
  IF "cpu" \in unreadable THEN [total |-> Unavailable, cores |-> <<>>]
  ELSE [total |-> [name |-> "cpu",
                   idle |-> SumFunction([c \in CoreNames |-> jiffies[c].idle]),
                   total |-> SumFunction([c \in CoreNames |-> jiffies[c].total])],
        cores |-> LET there == Present[Len(Cores)] IN [i \in DOMAIN there |-> Line(there[i])]]

Utilisation(p, q) ==
  LET total == q.total - p.total
      idle == q.idle - p.idle
  IN IF p.name # q.name \/ total <= 0 \/ idle < 0 \/ idle > total THEN Unavailable
     ELSE <<total - idle, total>>

NetworkCounters ==
  IF "network" \in unreadable THEN Unavailable ELSE SumFunction(nics)

Throughput(p, q, elapsed) ==
  IF elapsed <= 0 \/ q < p THEN Unavailable ELSE <<q - p, elapsed>>

-----------------------------------------------------------------------------
(* TelemetrySampler.sample.                                                *)

CpuPercent(now) ==
  IF now = Unavailable \/ prevCpu = Unavailable THEN Unavailable
  ELSE Utilisation(prevCpu, now)

(* A core without a comparable sample counts as idle.                      *)
CorePercent(p, q) ==
  LET u == Utilisation(p, q) IN IF u = Unavailable THEN <<0, 1>> ELSE u

CorePercents(now) ==
  IF Len(now) # Len(prevCores) THEN <<>>
  ELSE [i \in DOMAIN now |-> [name |-> now[i].name, value |-> CorePercent(prevCores[i], now[i])]]

(* The seconds are those between the two clocks, not between the counters. *)
Rate(net) ==
  IF Unavailable \in {net, prevNet, prevTime} THEN Unavailable
  ELSE Throughput(prevNet, net, sampled.now - prevTime)

(* The clock and the cores, which have been read when the disks are asked. *)
BeginPoll ==
  /\ tpc = "idle" /\ tpc' = "disks"
  /\ sampled' = [now |-> clock, cpu |-> CpuPercent(CpuTimes.total),
                 cores |-> CorePercents(CpuTimes.cores), failed |-> {"cpu"} \cap unreadable]
  /\ prevCpu' = CpuTimes.total /\ prevCores' = CpuTimes.cores
  /\ begun' = worked /\ worked' = AtRest
  /\ UNCHANGED <<machineVars, prevNet, prevTime, snapshot, told, moved, truth>>

(* Mutant: the last counters that could be read are kept.                  *)
Mut_Remember(net) ==
  prevNet' = (IF net = Unavailable THEN prevNet ELSE net) /\ prevTime' = sampled.now

Remember(net) == prevNet' = net /\ prevTime' = sampled.now

(* Said once, on the transition.                                           *)
Tell(before, after) ==
  told' = CASE before = {} /\ after # {} -> "degraded"
            [] before # {} /\ after = {} -> "restored"
            [] OTHER -> told

(* The network, and what the controller makes of the snapshot.             *)
EndPoll ==
  LET degraded == sampled.failed \cup (unreadable \ {"cpu"})
  IN /\ tpc = "disks" /\ tpc' = "idle" /\ sampled' = NotSampled
     /\ snapshot' = [cpu |-> sampled.cpu, cores |-> sampled.cores,
                     rate |-> Rate(NetworkCounters), degraded |-> degraded]
     /\ Remember(NetworkCounters)
     /\ Tell(snapshot.degraded, degraded)
     /\ truth' = [work |-> begun, net |-> moved] /\ begun' = AtRest /\ moved' = Silent
     /\ UNCHANGED <<machineVars, prevCpu, prevCores, worked>>

TelemetryNext ==
  \/ \E c \in CoreNames : Works(c) \/ IowaitFalls(c) \/ Hotplug(c)
  \/ \E i \in Interfaces : Traffic(i) \/ Leaves(i) \/ Arrives(i)
  \/ \E s \in Sources : SourceFails(s)
  \/ Passes
  \/ BeginPoll \/ EndPoll

TelemetrySpec == TelemetryInit /\ [][TelemetryNext]_telemetryVars

-----------------------------------------------------------------------------
TelemetryTypeOK ==
  /\ clock \in Nat /\ online \subseteq CoreNames /\ DOMAIN nics \subseteq Interfaces
  /\ \A c \in CoreNames : jiffies[c].idle \in Nat /\ jiffies[c].idle < jiffies[c].total
  /\ unreadable \subseteq Sources /\ changes \in 0..MaxChanges
  /\ snapshot.degraded \subseteq Sources /\ told \in {"nothing", "degraded", "restored"}
  /\ tpc \in {"idle", "disks"} /\ sampled.failed \subseteq Sources

(* Whatever comes and goes, also while a reading is held up: the load that *)
(* is shown, and each core's, is what the cores did between the last two   *)
(* readings of them, all of it and nothing else, as long as iowait did not *)
(* fall; a core shown at work is the one that worked.  A rate is of the    *)
(* bytes that moved between the last two readings of the network and of    *)
(* those an interface came with, exactly those unless one left with its    *)
(* count and never more; its seconds lie between the beginnings of the two *)
(* readings, so that it is a rate of one interval as far as neither was    *)
(* held up.  And what the console last said of the sources is what the     *)
(* screen shows.                                                           *)
ShownIsMeasured ==
  LET work == truth.work
      net == truth.net
  IN /\ snapshot.cpu # Unavailable /\ ~work.iowaitFell =>
          snapshot.cpu = <<SumFunction(work.busy), SumFunction(work.all)>>
     /\ ~work.iowaitFell => \A i \in DOMAIN snapshot.cores :
          LET core == snapshot.cores[i]
          IN core.value = <<0, 1>> \/ core.value = <<work.busy[core.name], work.all[core.name]>>
     /\ snapshot.rate # Unavailable =>
          /\ snapshot.rate[2] = work.time
          /\ snapshot.rate[1] <= net.bytes + net.came
          /\ ~net.left => snapshot.rate[1] = net.bytes + net.came
     /\ snapshot.degraded # {} <=> told = "degraded"
=============================================================================
