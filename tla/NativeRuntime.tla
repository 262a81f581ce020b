---------------------------- MODULE NativeRuntime ----------------------------
(***************************************************************************)
(* What the library learns of the machine it runs on and does with it: the  *)
(* entries of lib-jni/src/runtime/native_runtime.cc, the topology that       *)
(* decides how many workers ParallelExecutor::Get starts and where           *)
(* (core/src/cpu_topology.cc, the files of parallel_executor), and the        *)
(* classification of the device (core/src/device_quality.cc).              *)
(*                                                                         *)
(* The device is described as it is, by its cores, and as the thread that    *)
(* asks finds it, by the CPUs it may use.  Linux tells of it in files, which  *)
(* may be missing or contradict each other.  Any query may fail.            *)
(***************************************************************************)
EXTENDS ThreadPolicy, FiniteSets, FiniteSetsExt, Functions

CONSTANTS
  Machines,   \* the machines: see the fields below
  Familiar,   \* those of which one thread's policy is followed as well
  Heaps,      \* what Java may have for its heap, in GiB
  Configs     \* what Java may pass to nInitialize

\* A machine has the fields
\*   platform  windows, windows7, linux, android or macos
\*   x86, wide whether it is an x86, with AVX2 or AVX512
\*   memory    in GiB
\*   core      from its CPUs to their physical cores
\*   speed     from its CPUs to their class: the fastest are for performance
\*   usable    the CPUs the asking thread may use; of Windows, those neither
\*             parked nor given to another process
\* and, as files of Linux and Android,
\*   siblings  thread_siblings_list of each CPU, empty where it is unreadable
\*   id        physical_package_id and core_id of each CPU
\*   told      of "lists" (cpu_core, cpu_atom, cpu_lowpower) and "capacities"
CpusOf(m) == DOMAIN m.core

\* The files of a machine tell of physical cores: the siblings are the parts of
\* a partition of the CPUs, and the identities tell the parts apart.
TellCores(m) ==
  /\ \A i \in CpusOf(m) : i \in m.siblings[i] /\ m.siblings[i] \subseteq CpusOf(m)
  /\ \A i, j \in CpusOf(m) :
       /\ j \in m.siblings[i] => m.siblings[i] = m.siblings[j]
       /\ m.id[i] = m.id[j] <=> j \in m.siblings[i]

\* No core runs more than two threads, and files that tell of cores do not make
\* two of one.
ASSUME MachinesAssumption ==
  /\ Familiar \subseteq Machines /\ Heaps \subseteq Int
  /\ \A m \in Machines :
       /\ CpusOf(m) \subseteq Nat /\ IsFiniteSet(CpusOf(m)) /\ m.memory \in Nat \ {0}
       /\ m.usable \subseteq CpusOf(m) /\ m.usable /= {}
       /\ DOMAIN m.siblings = CpusOf(m) /\ DOMAIN m.id = CpusOf(m)
       /\ \A i \in CpusOf(m) : m.siblings[i] \subseteq Nat
       /\ \A c \in Range(m.core) : Cardinality({i \in CpusOf(m) : m.core[i] = c}) <= 2
       /\ m.platform = "linux" /\ TellCores(m) =>
            \A i, j \in CpusOf(m) : m.core[i] = m.core[j] => j \in m.siblings[i]

VARIABLES
  machine,
  config,   \* g_initialized_java_config
  pool,     \* of ParallelExecutor::Get: how many threads it started, which
            \* CPUs they are bound to, and from what its size was taken
  answer    \* of the last entry

runtimeVars == <<machine, config, pool, answer>>

NoPool == [workers |-> 0, bound |-> {}, from |-> "nothing"]
-----------------------------------------------------------------------------
(* DetectCpuTopology.                                                      *)

Usable == machine.usable

CoresOf(cpus) == {machine.core[i] : i \in cpus}

\* On Linux a core is known by the least of its CPUs.
Key(i) == IF machine.platform = "linux" THEN Min(machine.siblings[i]) ELSE machine.core[i]

Fastest(cpus) == {i \in cpus : \A j \in cpus : machine.speed[j] <= machine.speed[i]}

\* The list of cpu_core holds the fastest CPUs of the machine; it counts where
\* the thread may use some of them and some of the others.
FromLists ==
  LET fast == Fastest(DOMAIN machine.core) \cap Usable
  IN  IF "lists" \in machine.told /\ fast /= {} /\ Usable \ fast /= {} THEN fast ELSE {}

FromClasses == IF Fastest(Usable) = Usable THEN {} ELSE Fastest(Usable)

\* The CPUs for performance; none unless the usable ones differ.
PerformanceCpus ==
  CASE machine.platform = "linux" ->
         IF FromLists /= {} THEN FromLists
         ELSE IF "capacities" \in machine.told THEN FromClasses ELSE {}
    [] OTHER -> FromClasses

\* macOS has no way to bind a thread.
DetectCpuTopology ==
  [logical     |-> Cardinality(Usable),
   physical    |-> Cardinality({Key(i) : i \in Usable}),
   performance |-> Cardinality({Key(i) : i \in PerformanceCpus}),
   hybrid      |-> PerformanceCpus /= {},
   bind        |-> IF machine.platform = "macos" THEN {} ELSE PerformanceCpus]

\* Windows 7 knows no CPU sets, and the Android build does not ask.
Detectable ==
  /\ machine.platform \notin {"android", "windows7"}
  /\ machine.platform = "linux" => \A i \in Usable : machine.siblings[i] /= {}

-----------------------------------------------------------------------------
(* CreateParallelExecutorConfig.                                           *)

Available(n, reserved) == IF n > reserved THEN n - reserved ELSE 0

PerformanceShare(t) == Available(t.performance, 1)

CalculateDesktopThreadCount(t) ==
  IF t.hybrid THEN PerformanceShare(t)
  ELSE IF t.logical > t.physical THEN Available(t.logical \div 2, 2)
  ELSE (t.physical \div 3) * 2 + ((t.physical % 3) * 2) \div 3

CalculateAndroidThreadCount(n) == n \div 3 + IF n % 3 /= 0 THEN 1 ELSE 0

CalculateFallbackThreadCount(n) == n \div 3

kMinimumThreadCount == 2
kMaximumThreadCount == 8

\* What was calculated is taken as the number of threads that work together, the
\* caller among them; the pool starts the others, always one at least.
DetermineThreadCount(size) ==
  IF size < kMinimumThreadCount THEN kMinimumThreadCount
  ELSE IF size > kMaximumThreadCount THEN kMaximumThreadCount ELSE size

StartedAsked(size) == DetermineThreadCount(size)                  \* mutant
Started(size) == DetermineThreadCount(size) - 1

GetThreadCount == pool.workers + 1

-----------------------------------------------------------------------------
(* QueryDeviceQuality.                                                     *)

Cpus == CpusOf(machine)
Files == machine.platform \in {"linux", "android"}

\* QueryPhysicalCores of Linux and Android: each CPU in turn is entered under the least of
\* its siblings and under its identity, and must agree with what is there.
Leader(i) == Min(machine.siblings[i])

Agrees(i) ==
  LET earlier == {j \in Cpus : j < i}
      first   == {j \in earlier : Leader(j) = Leader(i)}
      alike   == {j \in earlier : machine.id[j] = machine.id[i]}
  IN  /\ first /= {} => machine.siblings[Min(first)] = machine.siblings[i]
      /\ alike /= {} => Leader(Min(alike)) = Leader(i)

\* The group entered under a leader.
Group(leader) == machine.siblings[Min({j \in Cpus : Leader(j) = leader})]

Leaders == {Leader(i) : i \in Cpus}

MembersUncounted == TRUE                                          \* mutant
MembersCounted ==
  Cardinality({p \in Leaders \X Cpus : p[2] \in Group(p[1])}) = Cardinality(Cpus)

Consistent ==
  Files =>
    /\ \A i \in Cpus : i \in machine.siblings[i] /\ machine.siblings[i] \subseteq Cpus
    /\ \A i \in Cpus : Agrees(i)
    /\ MembersCounted
    /\ Cardinality(Range(machine.id)) = Cardinality(Leaders)

QueryPhysicalCores ==
  Cardinality(IF Files THEN Leaders ELSE Range(machine.core))

ClassifyDevice(heap) ==
  IF machine.platform \in {"android", "windows7"} \/ heap <= 4 \/ machine.memory <= 8 THEN "low"
  ELSE IF machine.x86 /\ (~machine.wide \/ QueryPhysicalCores < 6) THEN "low"
  ELSE "high"

\* Where the build or the version of Windows answers, nothing else is asked.
AsksForCores == machine.platform \notin {"android", "windows7"}

-----------------------------------------------------------------------------

SystemOf ==
  CASE machine.platform \in {"linux", "android"} -> "posix" [] OTHER -> machine.platform

RuntimeInit ==
  /\ machine \in Machines
  /\ Init /\ system = SystemOf
  /\ machine \notin Familiar => thread = CHOOSE t \in HostThreads[system] : TRUE
  /\ config = "none" /\ pool = NoPool
  /\ answer = [entry |-> "none", ok |-> TRUE, is |-> 0]

Answer(entry, value) == answer' = [entry |-> entry, ok |-> TRUE, is |-> value]
Fails(entry) == answer' = [entry |-> entry, ok |-> FALSE, is |-> 0]

\* One critical section; the first configuration stays.  Every level there is
\* bits for is known.
nInitialize ==
  /\ machine \in Familiar
  /\ \E c \in Configs :
       \/ /\ c /= "unknown bits" /\ config \in {"none", c}
          /\ config' = c
          /\ Answer("initialize", c)
       \/ /\ c = "unknown bits" \/ config \notin {"none", c}
          /\ Fails("initialize")
          /\ UNCHANGED config
  /\ UNCHANGED <<machine, pool>>

nPhysicalCoreCount ==
  /\ \/ Consistent /\ Answer("cores", QueryPhysicalCores)
     \/ Fails("cores")
  /\ UNCHANGED <<machine, config, pool>>

nClassifyDevice ==
  /\ \E heap \in Heaps :
       \/ /\ heap > 0
          /\ (heap > 4 /\ AsksForCores) => Consistent
          /\ Answer("quality", ClassifyDevice(heap))
       \/ /\ heap <= 0 \/ (heap > 4 /\ machine.platform /= "android")
          /\ Fails("quality")
  /\ UNCHANGED <<machine, config, pool>>

\* ParallelExecutor::Get, at its first use.  hardware_concurrency knows of any
\* number of CPUs; a worker that cannot be bound runs where it may.
CreatePool ==
  /\ pool = NoPool
  /\ \/ /\ Detectable
        /\ \E bound \in {{}, DetectCpuTopology.bind} :
             pool' = [workers |-> Started(CalculateDesktopThreadCount(DetectCpuTopology)),
                      bound |-> bound, from |-> "topology"]
     \/ \E n \in 0 .. Cardinality(Cpus) :
          pool' = [workers |-> Started(IF machine.platform = "android"
                                       THEN CalculateAndroidThreadCount(n)
                                       ELSE CalculateFallbackThreadCount(n)),
                   bound |-> {}, from |-> "count"]
  /\ UNCHANGED <<machine, config, answer>>

RuntimeNext ==
  \/ (nInitialize \/ nPhysicalCoreCount \/ nClassifyDevice \/ CreatePool) /\ UNCHANGED vars
  \/ machine \in Familiar /\ Next /\ UNCHANGED runtimeVars

RuntimeSpec == RuntimeInit /\ [][RuntimeNext]_<<runtimeVars, vars>>

-----------------------------------------------------------------------------
(* Properties.                                                             *)

TellsCores == Files => TellCores(machine)

\* The library counts the cores of the device, whichever of them the asking
\* thread may use, or says that it cannot: never a number made of files that
\* contradict each other, and the classification rests on that number.
CoresAreCounted ==
  answer.ok =>
    /\ answer.entry = "cores" =>
         /\ TellsCores
         /\ answer.is = IF Files THEN Cardinality({machine.siblings[i] : i \in Cpus})
                        ELSE Cardinality(Range(machine.core))
    /\ answer.entry = "quality" /\ machine.x86 /\ answer.is = "high" =>
         /\ TellsCores
         /\ Cardinality(Range(IF Files THEN machine.id ELSE machine.core)) >= 6

\* Where the topology was detected, the threads of the pool and the one that
\* renders with them leave a physical core free, among the cores the workers are
\* bound to or else among those the thread may use.  Where these are one or two
\* there is a single worker, which the least size of a pool asks for: on a single
\* core, also of a machine with one fast core, it shares it with the renderer.
PoolFits ==
  pool.from = "topology" /\ TellsCores =>
    LET cores == Cardinality(CoresOf(IF pool.bound = {} THEN Usable ELSE pool.bound))
    IN  IF cores <= 2 THEN GetThreadCount = 2 ELSE GetThreadCount \in 2 .. cores - 1
=============================================================================
