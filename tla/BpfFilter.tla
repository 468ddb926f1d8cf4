------------------------------ MODULE BpfFilter ------------------------------
(***************************************************************************)
(* The seccomp filters of tlpi-dist/seccomp and the programs that install  *)
(* them.  A filter is a sequence of BPF instructions; the kernel runs      *)
(* every installed filter on every system call and acts on the strictest   *)
(* verdict.  seccomp_launch loads filters that were dumped to files, and   *)
(* the program it executes may make any call.  A tag above a definition    *)
(* names the file and the lines it models.                                 *)
(***************************************************************************)
EXTENDS Naturals, Sequences, SequencesExt, Bitwise

CONSTANTS MaxBlobs,      \* -f options of seccomp_launch
          MaxChain       \* binaries that seccomp_multiarch executes

VARIABLES main,          \* the program that runs
          pc,            \* how far its main() is
          filters,       \* names of the installed filters, in order
          abi,           \* the ABI of the binary that is executing
          last           \* the last system call and what became of it

vars == <<main, pc, filters, abi, last>>

X86_64 == 1
I386 == 2
Arm == 3
X32_SYSCALL_BIT == 2 ^ 30
ENOTSUP == 95

\* System call numbers; mq_notify() has another one on each ABI.
nr == [open |-> 2, openat |-> 257, lseek |-> 8, getppid |-> 110, geteuid |-> 107, mkdir |-> 83,
       mq_notify |-> 244, mq_notify_i386 |-> 281, mq_notify_x32 |-> 527]

Ld(field) == [op |-> "ld", k |-> field, jt |-> 0, jf |-> 0]
Jump(test, k, jt, jf) == [op |-> test, k |-> k, jt |-> jt, jf |-> jf]
Ret(verdict, errno) == [op |-> "ret", k |-> [verdict |-> verdict, errno |-> errno], jt |-> 0, jf |-> 0]

\* external: classic BPF comparisons
Holds(test, acc, k) == \/ test = "jeq" /\ acc = k
                       \/ test = "jge" /\ acc >= k
                       \/ test = "jgt" /\ acc > k
                       \/ test = "jset" /\ (acc & k) # 0

RECURSIVE Exec(_, _, _, _)
\* external: BPF interpreter
Exec(f, i, acc, d) ==
    LET in == f[i]
    IN CASE in.op = "ret" -> in.k
         [] in.op = "ld"  -> Exec(f, i + 1, d[in.k], d)
         [] in.op = "add" -> Exec(f, i + 1, acc + in.k, d)
         [] in.op = "ja"  -> Exec(f, i + 1 + in.k, acc, d)
         [] OTHER -> Exec(f, i + 1 + (IF Holds(in.op, acc, in.k) THEN in.jt ELSE in.jf), acc, d)

------------------------------------------------------------------------------
(* The filters.                                                            *)

\* seccomp_unotify_mkdir.c:117-128 X86_64_CHECK_ARCH_AND_LOAD_SYSCALL_NR
CheckArch == <<Ld("arch"), Jump("jeq", X86_64, 0, 2), Ld("nr"), Jump("jge", X32_SYSCALL_BIT, 0, 1), Ret("kill", 0)>>

\* seccomp_unotify_mkdir.c:137-174 installNotifyFilter()
notify_mkdir == CheckArch \o <<Jump("jeq", nr.mkdir, 0, 1), Ret("notify", 0), Ret("allow", 0)>>

\* seccomp_unotify_mkdir.c:181-224 installFilter2()
filter2_errno == CheckArch \o <<Jump("jeq", nr.mkdir, 1, 0), Ret("allow", 0), Ret("errno", ENOTSUP)>>

\* seccomp_unotify_openat.c:82-139 installNotifyFilter()
notify_openat == CheckArch \o <<Jump("jeq", nr.openat, 0, 1), Ret("notify", 0), Ret("allow", 0)>>

\* seccomp_multiarch.c:155-248 install_filter()
multiarch == <<Ld("arch"), Jump("jeq", X86_64, 0, 5), Ld("nr"),
               Jump("jeq", nr.mq_notify, 0, 1), Ret("errno", nr.mq_notify),
               Jump("jeq", nr.mq_notify_x32 + X32_SYSCALL_BIT, 0, 5), Ret("errno", nr.mq_notify_x32),
               Jump("jeq", I386, 0, 4), Ld("nr"), Jump("jeq", nr.mq_notify_i386, 0, 1), Ret("errno", nr.mq_notify_i386),
               Ret("allow", 0), Ret("kill", 0)>>

\* seccomp_arg64.c:59-124 install_filter()
arg64 == CheckArch \o
         <<Jump("jeq", nr.lseek, 1, 0), Ret("allow", 0),
           Ld("arg1hi"), Jump("jeq", 0, 1, 0), Ret("errno", 2),
           Ld("arg1"), Jump("jgt", 1000, 0, 1), Ret("errno", 1), Ret("allow", 0)>>

O_WRONLY == 1
O_RDWR == 2
O_CREAT == 64

\* Mutant: openat() jumps to the load of the second argument, which holds the pathname.
control_open_Arg == CheckArch \o
         <<Jump("jeq", nr.open, 2, 0), Jump("jeq", nr.openat, 1, 0), Ret("allow", 0),
           Ld("arg1"), Jump("ja", 1, 0, 0), Ld("arg2"),
           Jump("jset", O_CREAT, 0, 1), Ret("kill", 0),
           Jump("jset", O_WRONLY + O_RDWR, 0, 1), Ret("errno", ENOTSUP), Ret("allow", 0)>>

\* seccomp_control_open.c:47-121 install_filter()
control_open == CheckArch \o
         <<Jump("jeq", nr.open, 2, 0), Jump("jeq", nr.openat, 3, 0), Ret("allow", 0),
           Ld("arg1"), Jump("ja", 1, 0, 0), Ld("arg2"),
           Jump("jset", O_CREAT, 0, 1), Ret("kill", 0),
           Jump("jset", O_WRONLY + O_RDWR, 0, 1), Ret("errno", ENOTSUP), Ret("allow", 0)>>

\* The other order of the architecture test, in seccomp_deny_open.c and seccomp_trap_sigsys.c.
CheckArch2 == <<Ld("arch"), Jump("jeq", X86_64, 1, 0), Ret("kill", 0),
                Ld("nr"), Jump("jge", X32_SYSCALL_BIT, 0, 1), Ret("kill", 0)>>

\* seccomp_deny_open.c:47-91 install_filter()
deny_open == CheckArch2 \o <<Jump("jeq", nr.open, 2, 0), Jump("jeq", nr.openat, 1, 0), Ret("allow", 0), Ret("kill", 0)>>

\* seccomp_perf.c:58-98 install_filter()
perf == CheckArch \o <<Jump("jeq", nr.open, 1, 0), Ret("allow", 0), Ret("kill", 0)>>

\* seccomp_trap_sigsys.c:40-82 install_filter()
trap_sigsys == CheckArch2 \o <<Jump("jeq", nr.getppid, 0, 1), Ret("trap", 0), Ret("allow", 0)>>

\* seccomp_logging.c:56-91 install_filter()
logging == CheckArch \o <<Ret("log", 0)>>

\* seccomp_bench.c:65-107 install_filter()
bench(instr, icnt) == [j \in 1 .. icnt |-> CASE instr = "a" -> Jump("add", 1, 0, 0)
                                            [] instr = "j" -> Jump("jeq", 0, 0, 0)
                                            [] instr = "l" -> Ld("nr")] \o <<Ret("allow", 0)>>

FilterOf == [multiarch |-> multiarch, arg64 |-> arg64, control_open |-> control_open, deny_open |-> deny_open,
             perf |-> perf, trap_sigsys |-> trap_sigsys, logging |-> logging, filter2_errno |-> filter2_errno,
             bench_a |-> bench("a", 2), bench_j |-> bench("j", 2), bench_l |-> bench("l", 0)]

Blobs == DOMAIN FilterOf

------------------------------------------------------------------------------
(* System calls.                                                           *)

Call(arch, n, arg1, arg1hi, arg2) == [arch |-> arch, nr |-> n, arg1 |-> arg1, arg1hi |-> arg1hi, arg2 |-> arg2]

\* The open() of the C library is either system call; a pathname is a pointer, here with low bits set or not.
Open(flags) == {Call(X86_64, nr.open, flags, 0, 384)} \cup {Call(X86_64, nr.openat, p, 1, flags) : p \in {0, 4095}}
Lseek(hi, lo) == {Call(X86_64, nr.lseek, lo, hi, 0)}
Simple(n) == {Call(X86_64, n, 0, 0, 0)}

\* mq_notify() as a binary of each ABI calls it.
MqNotify(a) == {CASE a = "x86_64" -> Call(X86_64, nr.mq_notify, 0, 0, 0)
                  [] a = "i386" -> Call(I386, nr.mq_notify_i386, 0, 0, 0)
                  [] a = "x32" -> Call(X86_64, nr.mq_notify_x32 + X32_SYSCALL_BIT, 0, 0, 0)
                  [] a = "arm" -> Call(Arm, nr.mq_notify, 0, 0, 0)}

Flags == {0, O_WRONLY, O_RDWR, O_CREAT, O_CREAT + O_RDWR}
AnyCall == UNION {Open(f) : f \in Flags} \cup UNION {Lseek(hi, lo) : hi \in {0, 1}, lo \in {0, 1000, 1001}}
           \cup UNION {MqNotify(a) : a \in {"x86_64", "i386", "x32", "arm"}}
           \cup UNION {Simple(n) : n \in {nr.getppid, nr.mkdir}}
           \cup {Call(X86_64, nr.open + X32_SYSCALL_BIT, 0, 0, 0), Call(I386, nr.open, 0, 0, 0)}

(* The mains: the calls each one makes after it has installed its filter.  *)

\* seccomp_arg64.c:126-154 seek_test(), main()
arg64_main == <<Lseek(0, 0), Lseek(0, 10000), Lseek(1, 1)>>

\* seccomp_control_open.c:123-141 main()
control_open_main == <<Open(0), Open(O_WRONLY), Open(O_RDWR), Open(O_CREAT + O_RDWR)>>

\* seccomp_deny_open.c:93-107 main()
deny_open_main == <<Open(0)>>

\* seccomp_perf.c:100-124 main()
perf_main == <<Simple(nr.getppid), Simple(nr.getppid)>>

\* seccomp_trap_sigsys.c:84-118 sigHandler(), main()
trap_sigsys_main == <<Simple(nr.getppid)>>

\* seccomp_logging.c:93-105 main()
logging_main == <<Simple(nr.geteuid), Simple(nr.getppid)>>

\* seccomp_bench.c:109-137 main()
bench_main == <<Simple(nr.getppid), Simple(nr.getppid)>>

Mains == [arg64 |-> arg64_main, control_open |-> control_open_main, deny_open |-> deny_open_main, perf |-> perf_main,
          trap_sigsys |-> trap_sigsys_main, logging |-> logging_main,
          bench_a |-> bench_main, bench_j |-> bench_main, bench_l |-> bench_main]

Strictness == <<"kill", "trap", "errno", "notify", "log", "allow">>
Rank(v) == CHOOSE i \in 1 .. Len(Strictness) : Strictness[i] = v.verdict
Strictest(vs) == CHOOSE v \in vs : \A w \in vs : Rank(v) < Rank(w) \/ v = w \/ Rank(v) = Rank(w)

\* external: the kernel acts on the strictest verdict, the latest filter's among equals
Verdict(d) == LET v == [i \in 1 .. Len(filters) |-> Exec(FilterOf[filters[i]], 1, 0, d)]
                  best == {i \in 1 .. Len(filters) : \A j \in 1 .. Len(filters) : Rank(v[i]) <= Rank(v[j])}
              IN IF filters = <<>> THEN [verdict |-> "allow", errno |-> 0]
                 ELSE v[CHOOSE i \in best : \A j \in best : j <= i]

------------------------------------------------------------------------------
Exited == 99
NoCall == [data |-> Call(0, 0, 0, 0, 0), verdict |-> [verdict |-> "allow", errno |-> 0], filters |-> <<>>]

Init == /\ main \in DOMAIN Mains \cup {"multiarch", "launch"}
        /\ pc = 0 /\ filters = <<>> /\ last = NoCall
        /\ abi \in IF main = "multiarch" THEN {"x86_64", "i386", "x32"} ELSE {"x86_64"}

\* prctl() and install_filter() of the simple programs, once (seccomp_bench: up to MaxBlobs times); perf and bench may
\* be asked to run without a filter; any of the calls may fail, which ends the program.
Install == /\ main \in DOMAIN Mains /\ pc = 0
           /\ \/ filters' = Append(filters, main) /\ pc' \in IF main \in {"bench_a", "bench_j", "bench_l"}
                                                                /\ Len(filters) + 1 < MaxBlobs THEN {0, 1} ELSE {1}
              \/ UNCHANGED filters /\ pc' = Exited
              \/ main \in {"perf", "bench_a"} /\ UNCHANGED filters /\ pc' = 1
           /\ UNCHANGED <<main, abi, last>>

\* A system call.  A trap ends the program unless it has a handler for SIGSYS.
Syscall(d) == LET v == Verdict(d)
              IN /\ last' = [data |-> d, verdict |-> v, filters |-> filters]
                 /\ pc' = IF v.verdict = "kill" \/ (v.verdict = "trap" /\ main # "trap_sigsys") THEN Exited ELSE pc + 1

\* The next call of a simple program; deny_open gives up when its open() fails, and the others ignore a failure.
MainCall == /\ main \in DOMAIN Mains /\ pc \in 1 .. Len(Mains[main])
            /\ \E d \in Mains[main][pc] : Syscall(d)
            /\ UNCHANGED <<main, filters, abi>>

\* seccomp_multiarch.c:250-264 main(): only the first binary, which finds no environment variable, installs the filter
MultiInstall == /\ main = "multiarch" /\ pc = 0
                /\ \/ filters' = Append(filters, "multiarch") /\ pc' = 1
                   \/ pc' = Exited /\ UNCHANGED filters
                /\ UNCHANGED <<main, abi, last>>

\* seccomp_multiarch.c:266-294 main(): mq_notify(), which is expected to be failed by the filter
MultiNotify == /\ main = "multiarch" /\ pc \in 1 .. MaxChain /\ last = NoCall
               /\ \E d \in MqNotify(abi) : Syscall(d)
               /\ UNCHANGED <<main, filters, abi>>

\* Mutant: the environment variable is not set, and every binary adds a filter of its own.
MultiExec_Again(a) == /\ main = "multiarch" /\ last.verdict.verdict = "errno" /\ pc <= MaxChain
                      /\ abi' = a /\ last' = NoCall /\ filters' = Append(filters, "multiarch") /\ UNCHANGED <<main, pc>>

\* seccomp_multiarch.c:296-310 main(): execute the next binary, which may be one for another ABI
MultiExec(a) == /\ main = "multiarch" /\ last.verdict.verdict = "errno" /\ pc <= MaxChain
                /\ abi' = a /\ last' = NoCall /\ UNCHANGED <<main, filters, pc>>

\* seccomp_launch.c:41-89 loadFilter(): a blob of odd size, or one that cannot be read, ends the program
loadFilter(name) == /\ main = "launch" /\ pc = 0 /\ Len(filters) < MaxBlobs
                    /\ \/ filters' = Append(filters, name) /\ UNCHANGED pc
                       \/ pc' = Exited /\ UNCHANGED filters
                    /\ UNCHANGED <<main, abi, last>>

\* seccomp_launch.c:99-124 main(): execute the program, for which any one call stands here
LaunchCall(d) == main = "launch" /\ pc = 0 /\ Syscall(d) /\ UNCHANGED <<main, filters, abi>>

Next == \/ Install \/ MainCall \/ MultiInstall \/ MultiNotify
        \/ \E a \in {"x86_64", "i386", "x32"} : MultiExec(a)
        \/ \E n \in Blobs : loadFilter(n)
        \/ \E d \in AnyCall : LaunchCall(d)



------------------------------------------------------------------------------
(* What the filters are meant to do, without instructions and offsets.     *)

Result(v, e) == [verdict |-> v, errno |-> e]
Foreign(d) == d.arch # X86_64 \/ d.nr >= X32_SYSCALL_BIT
OpenFlags(d) == IF d.nr = nr.open THEN d.arg1 ELSE d.arg2

Policy(name, d) ==
    CASE name = "multiarch" ->
            (CASE d.arch \notin {X86_64, I386} -> Result("kill", 0)
               [] d \in MqNotify("x86_64") \cup MqNotify("i386") -> Result("errno", d.nr)
               [] d \in MqNotify("x32") -> Result("errno", nr.mq_notify_x32)
               [] OTHER -> Result("allow", 0))
      [] name \in {"bench_a", "bench_j", "bench_l"} -> Result("allow", 0)
      [] name \notin {"multiarch", "bench_a", "bench_j", "bench_l"} /\ Foreign(d) -> Result("kill", 0)
      [] name = "arg64" /\ d.nr = nr.lseek /\ d.arg1hi # 0 -> Result("errno", 2)
      [] name = "arg64" /\ d.nr = nr.lseek /\ d.arg1hi = 0 /\ d.arg1 > 1000 -> Result("errno", 1)
      [] name = "control_open" /\ d.nr \in {nr.open, nr.openat} /\ OpenFlags(d) >= O_CREAT -> Result("kill", 0)
      [] name = "control_open" /\ d.nr \in {nr.open, nr.openat} /\ OpenFlags(d) \in {O_WRONLY, O_RDWR} ->
            Result("errno", ENOTSUP)
      [] name = "deny_open" /\ d.nr \in {nr.open, nr.openat} -> Result("kill", 0)
      [] name = "perf" /\ d.nr = nr.open -> Result("kill", 0)
      [] name = "trap_sigsys" /\ d.nr = nr.getppid -> Result("trap", 0)
      [] name = "filter2_errno" /\ d.nr = nr.mkdir -> Result("errno", ENOTSUP)
      [] name = "logging" -> Result("log", 0)
      [] OTHER -> Result("allow", 0)

\* Whatever filters a process carries, through any execve(), a call gets what the strictest of their comments asks for:
\* foreign ABIs are killed, openat() is judged by its own flags argument, 64-bit offsets by both halves (install_filter()).
PolicyHolds == last # NoCall =>
    LET asked == {Policy(last.filters[i], last.data) : i \in 1 .. Len(last.filters)}
    IN IF asked = {} THEN last.verdict.verdict = "allow"
       ELSE /\ last.verdict \in asked
            /\ \A v \in asked : Rank(last.verdict) <= Rank(v)

\* In seccomp_multiarch no binary of the chain, of whatever ABI, gets mq_notify() through to the kernel, although the
\* filter is installed once only, by the first binary (main(), lines 255-264).
FailedOnEveryAbi == main = "multiarch" => /\ last # NoCall => last.verdict.verdict \in {"errno", "kill"}
                                          /\ Len(filters) <= 1
==============================================================================
