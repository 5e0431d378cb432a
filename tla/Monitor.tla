------------------------------ MODULE Monitor ------------------------------
(***************************************************************************)
(* p5/main.c and its relatives main.c and save.c: a loop that measures the *)
(* machine twice a second and prints a row, until SIGINT.  A round opens   *)
(* /proc/stat, computes the share of the processors from the counters in   *)
(* its first line and from those of the round before, opens and closes one *)
(* more file of /proc after the other, sleeps, and closes /proc/stat.      *)
(* save.c measures only the memory, and does not close that file.          *)
(*                                                                         *)
(* The counters of the kernel are numbers that it may also set back; the   *)
(* program keeps their residues in an unsigned.  Six of the seven count    *)
(* as busy.  What is read of the other files is abstracted to whether      *)
(* there was anything to read.                                             *)
(***************************************************************************)
EXTENDS Integers

CONSTANTS
  Monitors,   \* which of the three programs run
  Width,      \* 2^32: the values of an unsigned
  MaxTicks,   \* bound: a counter of the kernel goes no further
  MaxFiles,   \* files the process may have open besides the standard ones
  Failures    \* what may go wrong: a subset of the set below

ASSUME MonitorAssumption ==
  /\ Monitors \subseteq {"p5", "main", "save"}
  /\ Width \in Nat \ {0} /\ MaxTicks \in Nat
  /\ MaxFiles \in Nat /\ MaxFiles >= 2
  /\ Failures \subseteq {"signal", "open", "read", "format"}

VARIABLES
  program,
  place,      \* where main is
  done,       \* set by the handler
  handler,    \* what SIGINT does: "default" or "_signal_"
  open,       \* files the process has open
  sum_, idle_,  \* static variables of cpu_util; idle_ is vector_[3]
  util,       \* what cpu_util computed last: idle and total of its quotient
  memory,     \* what this round's memory_util found
  before,     \* history: the kernel's counters when they were read last,
  interval    \* and how far they had moved from the time before

stats == <<sum_, idle_, util, before, interval>>
monitorVars == <<program, place, done, handler, open, memory, stats>>

Stopped == {"ended", "failed", "killed"}
Nothing == [idle |-> 0, total |-> 0]

MonitorInit ==
  /\ program \in Monitors
  /\ place = "start" /\ done = FALSE /\ handler = "default"
  /\ open = 0 /\ memory = "none"
  /\ sum_ = 0 /\ idle_ = 0
  /\ util = Nothing /\ before = Nothing /\ interval = Nothing

(***************************************************************************)
(* main up to the loop, and SIGINT.  p5's Makefile says -ansi, for which   *)
(* signal() is that of System V: the handler is called once, and the next  *)
(* SIGINT ends the process, as one before the call of signal() does.       *)
(* main.c and save.c, which have no Makefile, are taken to be compiled so. *)
(***************************************************************************)
Goto(from, to) == place = from /\ place' = to

Install ==
  /\ \/ Goto("start", "test") /\ handler' = "_signal_"
     \/ Goto("start", "failed") /\ "signal" \in Failures /\ UNCHANGED handler
  /\ UNCHANGED <<program, done, open, memory, stats>>

Interrupt ==
  /\ place \notin Stopped
  /\ IF handler = "_signal_" THEN done' = TRUE /\ UNCHANGED place
                             ELSE place' = "killed" /\ UNCHANGED done
  /\ handler' = "default"
  /\ UNCHANGED <<program, open, memory, stats>>

(***************************************************************************)
(* The loop.  A file that cannot be opened, because the process has too    *)
(* many or for another reason, ends the program when it is /proc/stat.     *)
(***************************************************************************)
MayOpen == open < MaxFiles
MayRefuse == ~MayOpen \/ "open" \in Failures

\* Slip: done is not volatile, and the loop does not look at it again.
OpenStatBlindly ==
  /\ \/ MayOpen /\ Goto("test", "stat") /\ open' = open + 1
     \/ MayRefuse /\ Goto("test", "failed") /\ UNCHANGED open
  /\ memory' = "none"
  /\ UNCHANGED <<program, done, handler, stats>>

OpenStat ==
  /\ ~done
  /\ \/ MayOpen /\ Goto("test", "stat") /\ open' = open + 1
     \/ MayRefuse /\ Goto("test", "failed") /\ UNCHANGED open
  /\ memory' = "none"
  /\ UNCHANGED <<program, done, handler, stats>>

End ==
  /\ done /\ Goto("test", "ended")
  /\ UNCHANGED <<program, done, handler, open, memory, stats>>

\* us_sleep goes on after a signal, and the round is closed.
Sleep ==
  /\ Goto("sleep", "test") /\ open' = open - 1
  /\ UNCHANGED <<program, done, handler, memory, stats>>

(***************************************************************************)
(* cpu_util.  The share printed is 1 - util.idle / util.total; after a     *)
(* line it cannot parse it returns 0 and keeps the counters it had.        *)
(***************************************************************************)
\* Slip: the difference of two counters is taken without regard to their width.
DifferenceSigned(new, old) == new - old

\* Unsigned subtraction.
Difference(new, old) == (new - old) % Width

cpu_util(idle, total) ==
  /\ util' = [idle |-> Difference(idle % Width, idle_),
              total |-> Difference(total % Width, sum_)]
  /\ sum_' = total % Width /\ idle_' = idle % Width
  /\ before' = [idle |-> idle, total |-> total]
  /\ interval' = [idle |-> idle - before.idle, total |-> total - before.total]

\* The first line, without which save.c measures nothing; it does not use it.
ReadStat ==
  /\ \/ /\ program # "save" /\ Goto("stat", "memory")
        /\ \E idle, busy \in 0 .. MaxTicks : cpu_util(idle, idle + busy)
     \/ program = "save" /\ Goto("stat", "memory") /\ UNCHANGED stats
     \/ "format" \in Failures /\ Goto("stat", "memory") /\ UNCHANGED stats
     \/ /\ "read" \in Failures /\ UNCHANGED stats
        /\ Goto("stat", IF program = "save" THEN "sleep" ELSE "memory")
  /\ UNCHANGED <<program, done, handler, open, memory>>

(***************************************************************************)
(* memory_util and, but for save.c, two more that are alike: packets_util  *)
(* and load_util in p5, the two counts of connections in main.c.           *)
(***************************************************************************)
\* Slip: memory_util returns from inside its loop.
LeftOpenMore == IF program = "main" THEN 0 ELSE 1

LeftOpen == IF program = "save" THEN 1 ELSE 0

AfterMemory == IF program = "save" THEN "sleep" ELSE "second"

MemoryReads ==
  /\ MayOpen /\ Goto("memory", AfterMemory)
  /\ memory' = "measured" /\ open' = open + LeftOpen
  /\ UNCHANGED <<program, done, handler, stats>>

\* /proc/meminfo opens and has no lines.
MemoryEmpty ==
  /\ MayOpen /\ "read" \in Failures /\ Goto("memory", AfterMemory)
  /\ memory' = "empty" /\ open' = open + LeftOpen
  /\ UNCHANGED <<program, done, handler, stats>>

MemoryRefused ==
  /\ MayRefuse /\ Goto("memory", AfterMemory)
  /\ memory' = "refused"
  /\ UNCHANGED <<program, done, handler, open, stats>>

\* Each of these opens its file, reads it and closes it on every path, or does
\* not open it; what it returns is printed, be it a measure or not.
packets_util == program = "p5" /\ Goto("second", "third")
load_util == program = "p5" /\ Goto("third", "sleep")
get_tcp_connections == program = "main" /\ Goto("second", "third")
get_udp_connections == program = "main" /\ Goto("third", "sleep")

Probes ==
  /\ packets_util \/ load_util \/ get_tcp_connections \/ get_udp_connections
  /\ UNCHANGED <<program, done, handler, open, memory, stats>>

Measure == ReadStat \/ MemoryReads \/ MemoryEmpty \/ MemoryRefused \/ Probes
MonitorMain == Install \/ OpenStat \/ End \/ Measure \/ Sleep
MonitorNext == MonitorMain \/ Interrupt

MonitorSpec == MonitorInit /\ [][MonitorNext]_monitorVars

\* The process runs, and the system does not refuse /proc/meminfo forever.
MonitorFairSpec == MonitorSpec /\ WF_monitorVars(MonitorMain) /\ SF_monitorVars(MemoryReads)

-----------------------------------------------------------------------------
(***************************************************************************)
(*                               Properties                                *)
(***************************************************************************)
Counters == [idle : Int, total : Int]

MonitorTypeOK ==
  /\ program \in Monitors
  /\ place \in {"start", "test", "stat", "memory", "second", "third", "sleep"} \cup Stopped
  /\ done \in BOOLEAN /\ handler \in {"default", "_signal_"}
  /\ open \in 0 .. MaxFiles
  /\ memory \in {"none", "measured", "empty", "refused"}
  /\ sum_ \in 0 .. Width - 1 /\ idle_ \in 0 .. Width - 1
  /\ util \in Counters /\ before \in Counters /\ interval \in Counters

\* The quotient printed is that of the interval since the counters were read
\* last, also across the end of an unsigned and after lines that could not be
\* read, exactly when idle time and all time have not gone back, and by less
\* than an unsigned holds (p5/main.c:62).
Fits(n) == n \in 0 .. Width - 1
ShareExact == util = interval <=> Fits(interval.idle) /\ Fits(interval.total)

\* p5 and main.c measure the memory again and again as long as they run; only
\* save.c takes the file it needs away from itself: it runs on and, after
\* MaxFiles - 1 rounds, never measures anything again (save.c:86).
Measured == memory = "measured"
OnlySaveStarves ==
  \/ <>(place \in Stopped)
  \/ IF program = "save" THEN <>[]~Measured ELSE []<>Measured

\* SIGINT ends the program, whatever the round is at and however often files
\* cannot be opened.
EndsByInterrupt == done ~> place \in Stopped

\* No monitor, not even save.c, comes to hold so many files that it cannot open
\* /proc/stat: it never ends by its own doing (p5/main.c:177).
StatOpens == place = "test" => MayOpen
=============================================================================
