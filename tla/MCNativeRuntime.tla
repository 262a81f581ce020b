--------------------------- MODULE MCNativeRuntime ---------------------------
(* Machines of up to fourteen CPUs and some large ones, small ones whose    *)
(* files may say anything, and the threads of one machine of each system.   *)
EXTENDS NativeRuntime

\* Above normal, normal, below normal, lowest and idle.
MCPriorities == {1, 0, -1, -2, -15}

\* fast cores of one or two CPUs each, then slow and slower ones of one.
CoreOf(fast, ways, i) == IF i < fast * ways THEN i \div ways ELSE i - fast * (ways - 1)
SpeedOf(fast, ways, slow, i) ==
  IF i < fast * ways THEN 3 ELSE IF i < fast * ways + slow THEN 2 ELSE 1

Machine(platform, fast, ways, slow, slower, usable, told) ==
  LET cpus == 0 .. fast * ways + slow + slower - 1
      core == [i \in cpus |-> CoreOf(fast, ways, i)]
  IN  [platform |-> platform, x86 |-> slower = 0, wide |-> ways = 2, memory |-> 8 + ways - slower,
       core |-> core, speed |-> [i \in cpus |-> SpeedOf(fast, ways, slow, i)],
       usable |-> usable,
       siblings |-> [i \in cpus |-> {j \in cpus : core[i] = core[j]}], id |-> core,
       told |-> told]

Affinities(n, fast) ==
  {0 .. n - 1, 0 .. fast - 1, fast .. n - 1, {i \in 0 .. n - 1 : i % 2 = 0}, {n - 1}} \ {{}}

Shapes == {s \in (0 .. 4) \X (1 .. 2) \X (0 .. 4) \X {0, 2} : s[1] + s[3] + s[4] > 0}

Built ==
  UNION {{Machine(platform, s[1], s[2], s[3], s[4], usable, told) :
            usable \in IF platform = "macos" THEN {0 .. s[1] * s[2] + s[3] + s[4] - 1}
                       ELSE Affinities(s[1] * s[2] + s[3] + s[4], s[1] * s[2]),
            told \in IF platform = "linux" THEN SUBSET {"lists", "capacities"} ELSE {{}}} :
           s \in Shapes, platform \in {"windows", "linux", "macos"}}

\* Three CPUs of which the first may have a sibling that is not there.
Contradictory ==
  {[Machine("linux", 3, 1, 0, 0, 0 .. 2, {}) EXCEPT !.siblings = s, !.id = d] :
     s \in {f \in [0 .. 2 -> SUBSET (0 .. 3)] : 3 \notin f[1] \cup f[2]},
     d \in [0 .. 2 -> 0 .. 2]}

MCFamiliar ==
  {Machine(p, 1, 1, 1, 0, 0 .. 1, {}) :
     p \in {"windows", "windows7", "linux", "android", "macos"}}

\* Large enough for the greatest size of a pool: fast cores, cores of two CPUs
\* each, and cores that are all alike.
Large ==
  {Machine(p, shape[1], shape[2], shape[3], 0, 0 .. shape[1] * shape[2] + shape[3] - 1, told) :
     p \in {"windows", "linux", "macos"}, told \in {{}, {"lists"}},
     shape \in {<<n, 1, 2>> : n \in {8, 9, 10}} \cup {<<n, 2, 0>> : n \in {9, 10, 11}}
               \cup {<<n, 1, 0>> : n \in 11 .. 15}}

MCMachines == Built \cup Large \cup Contradictory \cup MCFamiliar
=============================================================================
