--------------------------- MODULE MCPerfSession ---------------------------
(***************************************************************************)
(* Recordings for PerfSession, generated from what happens on the CPUs.    *)
(* A timeline is a sequence of steps, one per tick: branches, the kernel's *)
(* switch records, and both in the order in which __schedule performs      *)
(* them.  The timestamp of a branch is that of the last timing packet,     *)
(* one every `grain' ticks (1: exact, as with cyc=1).                      *)
(***************************************************************************)
EXTENDS PerfSession

A == 11
B == 12
C == 13
D == 14

Branch(kind, tid) == [pt |-> TRUE, kind |-> kind, tid |-> tid, user |-> kind = "user"]
User(tid) == [pt |-> TRUE, kind |-> "ip", tid |-> tid, user |-> TRUE]
Kernel(tid) == Branch("ip", tid)
Written(type, tid, next) == [pt |-> FALSE, type |-> type, tid |-> tid, next |-> next]

Start(tid) == <<Written("itrace_start", tid, tid)>>

(* A context switch from a to b, as the trace shows it: a CPU traced with  *)
(* its kernel, a process traced with its kernel (its event is switched off *)
(* with it), user space only.                                              *)
CpuSwitch(a, b) ==
  <<Branch("ptss", a), Written("out", a, b), Kernel(a), Branch("switch_ip", a), Kernel(b),
    Written("in", b, a), Branch("user", b)>>
TaskSwitch(a, b) ==
  <<Branch("ptss", a), Written("out", a, b), Branch("end", a), Kernel(b),
    Written("in", b, a), Branch("user", b)>>
UserSwitch(a, b) ==
  <<Branch("end", a), Written("out", a, b), Written("in", b, a), Branch("user", b)>>

On(cpu, steps) == [i \in 1..Len(steps) |-> [cpu |-> cpu, do |-> steps[i]]]

(* The steps t happen between step i and step i + 1 of s.                  *)
Between(i, s, t) == SubSeq(s, 1, i) \o t \o SubSeq(s, i + 1, Len(s))

(* One step of each sequence in turn.                                      *)
InTurn(s) == [i \in 1..(Len(s) * Len(s[1])) |-> s[(i % Len(s)) + 1][(i - 1) \div Len(s) + 1]]

CpuKernel == [have |-> 3, kernel |-> TRUE, whole |-> TRUE, percpu |-> TRUE, mmaps |-> 2, ring |-> 9,
              aux |-> FALSE]
TaskKernel == [CpuKernel EXCEPT !.whole = FALSE]
UserOnly(have) == [CpuKernel EXCEPT !.have = have, !.kernel = FALSE, !.whole = FALSE]
PerThread == [UserOnly(0) EXCEPT !.percpu = FALSE, !.mmaps = 5]
WithAux(mode) == [mode EXCEPT !.aux = TRUE]
Lossy(mode) == [mode EXCEPT !.ring = 1]

(* What the timeline leaves behind in the buffers and in the trace data.   *)
Trace(line, grain, mode) ==
  LET timed == [i \in 1..Len(line) |-> [cpu |-> line[i].cpu, do |-> line[i].do, t |-> 4 + i]]
      of(q, pt) == SelectSeq(timed, LAMBDA s : s.cpu = q /\ s.do.pt = pt)
      item(s) == [kind |-> s.do.kind, tid |-> s.do.tid, user |-> s.do.user,
                  ts |-> s.t - (s.t % grain), est |-> s.t]
      event(s) == [id |-> s.t, ts |-> s.t, cpu |-> s.cpu, type |-> s.do.type,
                   tid |-> s.do.tid, next |-> s.do.next]
  IN [items |-> [q \in Queues |-> LET m == of(q, TRUE) IN [i \in 1..Len(m) |-> item(m[i])]],
      events |-> [q \in Queues |-> LET m == of(q, FALSE) IN [i \in 1..Len(m) |-> event(m[i])]],
      queue_tid |-> [q \in Queues |-> IF mode.percpu THEN NoTid ELSE A + q],
      have_sched_switch |-> mode.have, tracing_kernel |-> mode.kernel,
      whole_kernel |-> mode.whole, per_cpu_mmaps |-> mode.percpu, nr_mmaps |-> mode.mmaps,
      exact |-> grain = 1, ring_size |-> mode.ring, aux |-> mode.aux]

(* The first n branches of CPU 0 come before its first timing packet.      *)
Untimed(n, t) ==
  [t EXCEPT !.items[0] = [i \in DOMAIN @ |-> IF i <= n THEN [@[i] EXCEPT !.ts = 0] ELSE @[i]]]

(* CPU 0 runs A, B and A again while CPU 1 switches from C to D, at any     *)
(* point of it.                                                            *)
Pair(Switch(_, _), i) ==
  Between(i, On(0, Start(A) \o <<User(A)>> \o Switch(A, B) \o Switch(B, A)),
             On(1, Start(C) \o <<User(C)>> \o Switch(C, D)))

(* A and C change places: each runs on both CPUs.                          *)
Swap(Switch(_, _), i) ==
  LET away == On(0, Start(A) \o <<User(A)>> \o Switch(A, B)) IN
  On(1, Start(C) \o <<User(C)>>) \o Between(i, away, On(1, <<User(C)>>))
    \o On(1, Switch(C, A)) \o On(0, Switch(B, C)) \o On(1, <<User(A)>>)

(* A decoding error of either kind in the middle of a switch.               *)
Lost(kind) ==
  On(0, Start(A) \o <<User(A), Branch("ptss", A), Written("out", A, B), Branch(kind, A),
        Branch("switch_ip", A), Kernel(B), Written("in", B, A), Branch("user", B)>>
        \o CpuSwitch(B, A))

(* Five threads with a buffer each.                                        *)
Threads5 ==
  InTurn([q \in 1..5 |-> On(q - 1, IF q = 3 THEN <<Branch("error", A + q - 1), User(A + q - 1)>>
                                   ELSE <<User(A + q - 1), User(A + q - 1)>>)])

MCTraces ==
  {Trace(Pair(CpuSwitch, i), g, CpuKernel) : i \in {2, 4, 5, 6, 10, 12}, g \in {1, 3, 5}}
  \cup {Trace(Swap(CpuSwitch, i), g, CpuKernel) : i \in {3, 5}, g \in {1, 5}}
  \cup {Trace(Pair(TaskSwitch, i), 1, TaskKernel) : i \in {4, 5}}
  \cup {Trace(Pair(UserSwitch, i), 1, UserOnly(h)) : i \in {3, 4}, h \in {2, 3}}
  \cup {Trace(Swap(UserSwitch, 3), 1, UserOnly(h)) : h \in {2, 3}}
  \cup {Trace(Between(2, Pair(UserSwitch, 4), On(0, <<Written("other", A, A), Written("aux", A, A)>>)),
              1, WithAux(UserOnly(3)))}
  \cup {Trace(Lost(k), g, CpuKernel) : k \in Errors, g \in {1, 3}}
  \cup {Trace(Pair(CpuSwitch, 5), 3, Lossy(CpuKernel))}
  \cup {Untimed(n, Trace(Pair(CpuSwitch, 5), g, CpuKernel)) : n \in {1, 2}, g \in {1, 3}}
  \cup {Trace(Threads5, 1, PerThread)}
=============================================================================
