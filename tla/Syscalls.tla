------------------------------ MODULE Syscalls ------------------------------
(***************************************************************************)
(* System calls (kernel/syscall, kernel/user/user.c): the table, the       *)
(* dispatcher and its statistics, the handlers that need nothing else of   *)
(* the kernel, the checks on user pointers, and the two assembly entries.  *)
(*                                                                         *)
(* A user program enters by "syscall" or by "int 0x80"; kernel code also   *)
(* calls the dispatcher directly.  The registers and stack words that the  *)
(* entries move are modelled word by word; a word is known by the user     *)
(* register it came from.                                                  *)
(***************************************************************************)
EXTENDS Integers, Sequences, SequencesExt, FiniteSets

CONSTANTS
    Numbers,      \* call numbers that are tried
    Fds,          \* file descriptors that are tried
    Word,         \* values of an address (2^64)
    UserBase, UserEnd, UtsSize,
    TopCalls,     \* calls that the report names (5)
    MaxSyscalls   \* bound: calls made

ASSUME SyscallsAssumption ==
    /\ Numbers \subseteq Nat /\ Fds \subseteq Int
    /\ {UserBase, UserEnd, UtsSize, Word, TopCalls, MaxSyscalls} \subseteq Nat
    /\ UserBase < UserEnd /\ UserEnd < Word

VARIABLES
    table,     \* s_syscall_table: the numbers with a handler
    sce,       \* EFER.SCE, without which "syscall" is an invalid instruction
    stats,     \* s_stats
    resumed,   \* how the last call from user mode came back
    touched    \* user bytes the last copy wrote or read

sysVars == <<table, sce, stats, resumed, touched>>

SysMax == 256
OK == 0
INVAL == -1
NFILE == -4
NOENT == -5
IO == -6
NOTIMPL == -7

NoReturn == [how |-> "none"]
NoBytes == [first |-> 0, size |-> 0]

\* The boot loader sets EFER.LME and leaves SCE as it found it.
SysInit ==
    /\ table = {}
    /\ sce \in BOOLEAN
    /\ stats = [total |-> 0, errors |-> 0, not_impl |-> 0,
                calls |-> [n \in Numbers |-> 0]]
    /\ resumed = NoReturn
    /\ touched = NoBytes

-----------------------------------------------------------------------------
(* User pointers.  Addresses are words: sums wrap. *)

vmm_is_user_addr(a) == a >= UserBase /\ a < UserEnd

\* Slip: without the overflow check.
user_validate_pointer_wraps(a, size) ==
    vmm_is_user_addr(a) /\ (a + size) % Word <= UserEnd

user_validate_pointer(a, size) ==
    /\ vmm_is_user_addr(a)
    /\ (a + size) % Word >= a
    /\ (a + size) % Word <= UserEnd

\* The bytes that copying to or from user space touches; none when refused.
user_copy(a, count) ==
    IF count > 0 /\ user_validate_pointer(a, count)
    THEN [first |-> a, size |-> count] ELSE NoBytes

-----------------------------------------------------------------------------
(* Handlers: what they return.  The others belong to the modules Process,   *)
(* Threads and AddressSpace.                                                *)

sys_write(fd, count) == IF fd \in {1, 2} THEN count ELSE NFILE
sys_read(fd) == IF fd = 0 THEN 0 ELSE NFILE
sys_open == NOENT
sys_close == OK
sys_lseek(fd) == IF fd \in {0, 1, 2} THEN INVAL ELSE NFILE
sys_ioctl == NOTIMPL
sys_uname(buf) ==
    IF ~user_validate_pointer(buf, UtsSize) THEN INVAL
    ELSE IF user_copy(buf, UtsSize) = NoBytes THEN IO ELSE OK
syscall_test(a) == a

Handler(number, a) ==
    CASE number = 10 -> sys_open
      [] number = 11 -> sys_close
      [] number = 12 -> sys_read(a)
      [] number = 13 -> sys_write(a, 1)
      [] number = 14 -> sys_lseek(a)
      [] number = 15 -> sys_ioctl
      [] number = 30 -> sys_uname(a)
      [] number = 101 -> syscall_test(a)
      [] OTHER -> OK

\* The numbers registered: all but those without a handler (execve, gettime).
syscall_register_all == {0, 2, 3, 4, 5, 6, 7, 8, 9} \cup 10 .. 15 \cup 20 .. 22 \cup {30}

syscall_register_handler(number) ==
    /\ number < SysMax
    /\ table' = table \cup {number}
    /\ UNCHANGED <<sce, stats, resumed, touched>>

\* Bit 11 is set in CR4; EFER keeps what it had.
syscall_init ==
    /\ table = {}
    /\ table' = {100, 101} \cup syscall_register_all
    /\ UNCHANGED <<sce, stats, resumed, touched>>

-----------------------------------------------------------------------------
(* The dispatcher *)

Result(number, a) ==
    IF number >= SysMax THEN INVAL
    ELSE IF number \notin table THEN NOTIMPL
    ELSE Handler(number, a)

\* The statistics after a call.
Counted(number) ==
    LET known == number < SysMax
        missing == known /\ number \notin table
    IN  [total |-> stats.total + 1,
         errors |-> IF ~known \/ missing THEN stats.errors + 1 ELSE stats.errors,
         not_impl |-> IF missing THEN stats.not_impl + 1 ELSE stats.not_impl,
         calls |-> IF known /\ number \in Numbers
                   THEN [stats.calls EXCEPT ![number] = @ + 1]
                   ELSE stats.calls]

syscall_dispatch(number, a) ==
    /\ stats' = Counted(number)
    /\ touched' = IF number = 30 /\ 30 \in table THEN user_copy(a, UtsSize)
                  ELSE NoBytes

\* Kernel code calls the dispatcher.
DirectCall(number, a) ==
    /\ syscall_dispatch(number, a)
    /\ resumed' = NoReturn
    /\ UNCHANGED <<table, sce>>

-----------------------------------------------------------------------------
(* The assembly entries.  The user's words are named: "rip", "rax" ... *)

\* "mov ax, 0x10" leaves the upper bits of RAX and comes before RAX is stored
\* as the call number.
ClobberedNumber(number) == (number \div 65536) * 65536 + 16

\* The popped RAX, the call number, is what the program gets.
syscall_handler(number, a) ==
    /\ sce
    /\ syscall_dispatch(ClobberedNumber(number), a)
    /\ resumed' = [how |-> "syscall", rip |-> "rip", rax |-> number,
                   result |-> Result(number, a)]

\* Without SCE the instruction is invalid; the exception handler halts.
InvalidOpcode(number, a) ==
    /\ ~sce
    /\ resumed' = [how |-> "halt", rip |-> "none", rax |-> "none",
                   result |-> Result(number, a)]
    /\ UNCHANGED <<stats, touched>>

Frame == <<"rip", "cs", "rflags", "rsp", "ss">>
General == <<"r15", "r14", "r13", "r12", "r11", "r10", "r9", "r8", "rbp", "rdi",
             "rsi", "rdx", "rcx", "rbx", "rax">>
Segments == <<"gs", "fs", "es", "ds">>

\* The stack when the dispatcher is called, top first.
EntryStack == <<"align">> \o Segments \o General \o Frame

\* What is left of it after the pops: all but RAX have been restored, and the
\* three words of a stub that this vector does not have are dropped.
ExitStack ==
    LET popped == 1 + Len(Segments) + Len(General) - 1
    IN  SubSeq(EntryStack, popped + 1 + 3, Len(EntryStack))

\* RAX is taken from R15 after R15 has been popped.
int0x80_handler(number, a) ==
    /\ syscall_dispatch(number, a)
    /\ resumed' = [how |-> "int80", rip |-> Head(ExitStack), rax |-> "r15",
                   result |-> Result(number, a)]

UserCall(number, a) ==
    /\ table # {}
    /\ \/ syscall_handler(number, a)
       \/ InvalidOpcode(number, a)
       \/ int0x80_handler(number, a)
    /\ UNCHANGED <<table, sce>>

-----------------------------------------------------------------------------
(* The most used calls, as syscall_dump_stats finds them *)

\* Where a count goes: before the first that it exceeds.
Place(top, n) == SelectInSeq(top, LAMBDA t : n > t.count)

Inserted(top, number, n) ==
    LET at == Place(top, n)
    IN  IF at = 0 THEN top
        ELSE SubSeq(InsertAt(top, at, [number |-> number, count |-> n]), 1, TopCalls)

syscall_dump_stats ==
    LET empty == [i \in 1 .. TopCalls |-> [number |-> 0, count |-> 0]]
        order == SetToSortSeq({n \in Numbers : n < SysMax}, <)
        step(top, n) == Inserted(top, n, stats.calls[n])
    IN  SelectSeq(FoldLeft(step, empty, order), LAMBDA t : t.count > 0)

-----------------------------------------------------------------------------
SysNext ==
    \/ syscall_init
    \/ \E n \in Numbers : n \notin table /\ table # {} /\ stats.total = 0 /\ syscall_register_handler(n)
    \/ /\ stats.total < MaxSyscalls
       /\ \E n \in Numbers, a \in Fds : DirectCall(n, a) \/ UserCall(n, a)

(* Whatever address and size a caller gives, the bytes that the kernel copies *)
(* lie in user space: no sum of the check wraps past it (user.c:50).          *)
CopiesStayInUserSpace ==
    \A b \in touched.first .. (touched.first + touched.size - 1) :
        b >= UserBase /\ b < UserEnd

MostUsed(top, used) ==
    LET reported == {top[i].number : i \in DOMAIN top}
        better(m, n) == \/ stats.calls[m] > stats.calls[n]
                        \/ stats.calls[m] = stats.calls[n] /\ m < n
    IN  /\ Cardinality(reported) = Len(top)
        /\ Len(top) = IF Cardinality(used) < TopCalls THEN Cardinality(used)
                      ELSE TopCalls
        /\ \A i \in DOMAIN top : top[i].count = stats.calls[top[i].number]
        /\ \A i \in 1 .. (Len(top) - 1) : better(top[i].number, top[i + 1].number)
        /\ \A m \in used \ reported, n \in reported : better(n, m)

(* The report of the most used calls names TopCalls calls, or every one that  *)
(* was made, none twice, most used first and by number among equals, and      *)
(* leaves out none that was used more (syscall.c:246).                        *)
ReportsMostUsed ==
    \A top \in {syscall_dump_stats} :
        MostUsed(top, {n \in Numbers : n < SysMax /\ stats.calls[n] > 0})

(* A program that makes a system call goes on after it with the result in     *)
(* RAX: "RAX = Return value" (syscall.asm:10).                                *)
CallsReturnResult ==
    resumed.how # "none" => resumed.rip = "rip" /\ resumed.rax = resumed.result
=============================================================================
