------------------------------ MODULE CoreEvents ------------------------------
(* The table of the events Tracee is built with (src/pkg/events/core.go):  *)
(* for each one its number among the 32 bit syscalls and what it depends   *)
(* on, in the form of the strategies of Dependencies.  Names, versions,    *)
(* sets and fields of the events are left out; an event is named by its    *)
(* constant, as are probes by their handle.  A tail call is named by its   *)
(* program, which determines its map; its indexes are events or numbers.   *)
(*                                                                         *)
(* A page holds the rows of at most 150 lines of the table and is named    *)
(* after its first row.                                                    *)
EXTENDS Sequences, TLC

Need(h) == [hook |-> h, required |-> TRUE, places |-> {<<h, "">>}]
Use(h) == [hook |-> h, required |-> FALSE, places |-> {<<h, "">>}]
TailCall(map, prog, indexes) ==
  [hook |-> prog, required |-> TRUE, places |-> {<<map, i>> : i \in indexes}]

(* A kernel symbol the event needs, or can do without.                     *)
Sym(n) == [symbol |-> n, required |-> TRUE]
MaySym(n) == [symbol |-> n, required |-> FALSE]

DepsK(hooks, ids, symbols) == [hooks |-> hooks, ids |-> ids, symbols |-> symbols]
Deps(hooks, ids) == DepsK(hooks, ids, {})

Row(id32, strategies) == [id32Bit |-> id32, strategies |-> strategies]

(* The primary strategy, then the fallbacks.                               *)
Fallback(strategies) == Row("Sys32Undefined", strategies)
EventK(hooks, ids, symbols) == Fallback(<<DepsK(hooks, ids, symbols)>>)
Event(hooks, ids) == EventK(hooks, ids, {})

(* A syscall with hooks of its own.                                        *)
Special(id32, hooks) == Row(id32, <<Deps(hooks, <<>>)>>)

(* A syscall with the hooks of any syscall, which SyscallHooks tells.      *)
Syscall(id32) == Row(id32, <<>>)

SyscallHooks(e) ==
  <<Need("SyscallEnter__Internal"), Need("SyscallExit__Internal"),
    TailCall("sys_enter_init_tail", "sys_enter_init", {e}),
    TailCall("sys_enter_submit_tail", "sys_enter_submit", {e}),
    TailCall("sys_exit_init_tail", "sys_exit_init", {e}),
    TailCall("sys_exit_submit_tail", "sys_exit_submit", {e})>>

-----------------------------------------------------------------------------
FromRead ==
  [Read |-> Syscall("Sys32read"), Write |-> Syscall("Sys32write"),
   Open |-> Syscall("Sys32open"), Close |-> Syscall("Sys32close"),
   Stat |-> Syscall("Sys32stat")]

FromFstat ==
  [Fstat |-> Syscall("Sys32fstat"), Lstat |-> Syscall("Sys32lstat"),
   Poll |-> Syscall("Sys32poll"), Lseek |-> Syscall("Sys32lseek"),
   Mmap |-> Syscall("Sys32mmap")]

FromMprotect ==
  [Mprotect |-> Syscall("Sys32mprotect"), Munmap |-> Syscall("Sys32munmap"),
   Brk |-> Syscall("Sys32brk"), RtSigaction |-> Syscall("Sys32rt_sigaction"),
   RtSigprocmask |-> Syscall("Sys32rt_sigprocmask")]

FromRtSigreturn ==
  [RtSigreturn |-> Syscall("Sys32rt_sigreturn"), Ioctl |-> Syscall("Sys32ioctl"),
   Pread64 |-> Syscall("Sys32pread64"), Pwrite64 |-> Syscall("Sys32pwrite64"),
   Readv |-> Syscall("Sys32readv")]

FromWritev ==
  [Writev |-> Syscall("Sys32writev"), Access |-> Syscall("Sys32access"),
   Pipe |-> Syscall("Sys32pipe"), Select |-> Syscall("Sys32_newselect"),
   SchedYield |-> Syscall("Sys32sched_yield")]

FromMremap ==
  [Mremap |-> Syscall("Sys32mremap"), Msync |-> Syscall("Sys32msync"),
   Mincore |-> Syscall("Sys32mincore"), Madvise |-> Syscall("Sys32madvise"),
   Shmget |-> Syscall("Sys32shmget")]

FromShmat ==
  [Shmat |-> Syscall("Sys32shmat"), Shmctl |-> Syscall("Sys32shmctl"),
   Dup |-> Special("Sys32dup", <<Need("Dup"), Need("DupRet")>>),
   Dup2 |-> Special("Sys32dup2", <<Need("Dup2"), Need("Dup2Ret")>>),
   Pause |-> Syscall("Sys32pause"), Nanosleep |-> Syscall("Sys32nanosleep")]

FromGetitimer ==
  [Getitimer |-> Syscall("Sys32getitimer"), Alarm |-> Syscall("Sys32alarm"),
   Setitimer |-> Syscall("Sys32setitimer"), Getpid |-> Syscall("Sys32getpid"),
   Sendfile |-> Syscall("Sys32sendfile64")]

FromSocket ==
  [Socket |-> Syscall("Sys32socket"), Connect |-> Syscall("Sys32connect"),
   Accept |-> Syscall("Sys32Undefined"), Sendto |-> Syscall("Sys32sendto"),
   Recvfrom |-> Syscall("Sys32recvfrom")]

FromSendmsg ==
  [Sendmsg |-> Syscall("Sys32sendmsg"), Recvmsg |-> Syscall("Sys32recvmsg"),
   Shutdown |-> Syscall("Sys32shutdown"), Bind |-> Syscall("Sys32bind"),
   Listen |-> Syscall("Sys32listen")]

FromGetsockname ==
  [Getsockname |-> Syscall("Sys32getsockname"),
   Getpeername |-> Syscall("Sys32getpeername"),
   Socketpair |-> Syscall("Sys32socketpair"), Setsockopt |-> Syscall("Sys32setsockopt"),
   Getsockopt |-> Syscall("Sys32getsockopt")]

FromClone ==
  [Clone |-> Syscall("Sys32clone"), Fork |-> Syscall("Sys32fork"),
   Vfork |-> Syscall("Sys32vfork"),
   Execve |-> Special("Sys32execve", <<Need("SyscallEnter__Internal"),
      Need("SyscallExit__Internal"),
      TailCall("sys_enter_init_tail", "sys_enter_init", {"Execve"}),
      TailCall("sys_enter_submit_tail", "sys_enter_submit", {"Execve"}),
      TailCall("sys_exit_init_tail", "sys_exit_init", {"Execve"}),
      TailCall("sys_exit_submit_tail", "sys_exit_submit", {"Execve"}),
      TailCall("sys_enter_tails", "syscall__execve_enter", {"Execve"}),
      TailCall("sys_exit_tails", "syscall__execve_exit", {"Execve"})>>),
   Exit |-> Syscall("Sys32exit")]

FromWait4 ==
  [Wait4 |-> Syscall("Sys32wait4"), Kill |-> Syscall("Sys32kill"),
   Uname |-> Syscall("Sys32uname"), Semget |-> Syscall("Sys32semget"),
   Semop |-> Syscall("Sys32Undefined")]

FromSemctl ==
  [Semctl |-> Syscall("Sys32semctl"), Shmdt |-> Syscall("Sys32shmdt"),
   Msgget |-> Syscall("Sys32msgget"), Msgsnd |-> Syscall("Sys32msgsnd"),
   Msgrcv |-> Syscall("Sys32msgrcv")]

FromMsgctl ==
  [Msgctl |-> Syscall("Sys32msgctl"), Fcntl |-> Syscall("Sys32fcntl"),
   Flock |-> Syscall("Sys32flock"), Fsync |-> Syscall("Sys32fsync"),
   Fdatasync |-> Syscall("Sys32fdatasync")]

FromTruncate ==
  [Truncate |-> Syscall("Sys32truncate"), Ftruncate |-> Syscall("Sys32ftruncate"),
   Getdents |-> Syscall("Sys32getdents"), Getcwd |-> Syscall("Sys32getcwd"),
   Chdir |-> Syscall("Sys32chdir")]

FromFchdir ==
  [Fchdir |-> Syscall("Sys32fchdir"), Rename |-> Syscall("Sys32rename"),
   Mkdir |-> Syscall("Sys32mkdir"), Rmdir |-> Syscall("Sys32rmdir"),
   Creat |-> Syscall("Sys32creat")]

FromLink ==
  [Link |-> Syscall("Sys32link"), Unlink |-> Syscall("Sys32unlink"),
   Symlink |-> Syscall("Sys32symlink"), Readlink |-> Syscall("Sys32readlink"),
   Chmod |-> Syscall("Sys32chmod")]

FromFchmod ==
  [Fchmod |-> Syscall("Sys32fchmod"), Chown |-> Syscall("Sys32chown32"),
   Fchown |-> Syscall("Sys32fchown32"), Lchown |-> Syscall("Sys32lchown32"),
   Umask |-> Syscall("Sys32umask")]

FromGettimeofday ==
  [Gettimeofday |-> Syscall("Sys32gettimeofday"),
   Getrlimit |-> Syscall("Sys32ugetrlimit"), Getrusage |-> Syscall("Sys32getrusage"),
   Sysinfo |-> Syscall("Sys32sysinfo"), Times |-> Syscall("Sys32times")]

FromPtrace ==
  [Ptrace |-> Special("Sys32ptrace", <<Need("Ptrace"), Need("PtraceRet")>>),
   Getuid |-> Syscall("Sys32getuid32"), Syslog |-> Syscall("Sys32syslog"),
   Getgid |-> Syscall("Sys32getgid32"), Setuid |-> Syscall("Sys32setuid32")]

FromSetgid ==
  [Setgid |-> Syscall("Sys32setgid32"), Geteuid |-> Syscall("Sys32geteuid32"),
   Getegid |-> Syscall("Sys32getegid32"), Setpgid |-> Syscall("Sys32setpgid"),
   Getppid |-> Syscall("Sys32getppid")]

FromGetpgrp ==
  [Getpgrp |-> Syscall("Sys32getpgrp"), Setsid |-> Syscall("Sys32setsid"),
   Setreuid |-> Syscall("Sys32setreuid32"), Setregid |-> Syscall("Sys32setregid32"),
   Getgroups |-> Syscall("Sys32getgroups32")]

FromSetgroups ==
  [Setgroups |-> Syscall("Sys32setgroups32"), Setresuid |-> Syscall("Sys32setresuid32"),
   Getresuid |-> Syscall("Sys32getresuid32"), Setresgid |-> Syscall("Sys32setresgid32"),
   Getresgid |-> Syscall("Sys32getresgid32")]

FromGetpgid ==
  [Getpgid |-> Syscall("Sys32getpgid"), Setfsuid |-> Syscall("Sys32setfsuid32"),
   Setfsgid |-> Syscall("Sys32setfsgid32"), Getsid |-> Syscall("Sys32getsid"),
   Capget |-> Syscall("Sys32capget")]

FromCapset ==
  [Capset |-> Syscall("Sys32capset"), RtSigpending |-> Syscall("Sys32rt_sigpending"),
   RtSigtimedwait |-> Syscall("Sys32rt_sigtimedwait_time64"),
   RtSigqueueinfo |-> Syscall("Sys32rt_sigqueueinfo"),
   RtSigsuspend |-> Syscall("Sys32rt_sigsuspend")]

FromSigaltstack ==
  [Sigaltstack |-> Syscall("Sys32sigaltstack"), Utime |-> Syscall("Sys32utime"),
   Mknod |-> Syscall("Sys32mknod"), Uselib |-> Syscall("Sys32uselib"),
   Personality |-> Syscall("Sys32personality")]

FromUstat ==
  [Ustat |-> Syscall("Sys32ustat"), Statfs |-> Syscall("Sys32statfs"),
   Fstatfs |-> Syscall("Sys32fstatfs"), Sysfs |-> Syscall("Sys32sysfs"),
   Getpriority |-> Syscall("Sys32getpriority")]

FromSetpriority ==
  [Setpriority |-> Syscall("Sys32setpriority"),
   SchedSetparam |-> Syscall("Sys32sched_setparam"),
   SchedGetparam |-> Syscall("Sys32sched_getparam"),
   SchedSetscheduler |-> Syscall("Sys32sched_setscheduler"),
   SchedGetscheduler |-> Syscall("Sys32sched_getscheduler")]

FromSchedGetPriorityMax ==
  [SchedGetPriorityMax |-> Syscall("Sys32sched_get_priority_max"),
   SchedGetPriorityMin |-> Syscall("Sys32sched_get_priority_min"),
   SchedRrGetInterval |-> Syscall("Sys32sched_rr_get_interval_time64"),
   Mlock |-> Syscall("Sys32mlock"), Munlock |-> Syscall("Sys32munlock")]

FromMlockall ==
  [Mlockall |-> Syscall("Sys32mlockall"), Munlockall |-> Syscall("Sys32munlockall"),
   Vhangup |-> Syscall("Sys32vhangup"), ModifyLdt |-> Syscall("Sys32modify_ldt"),
   PivotRoot |-> Syscall("Sys32pivot_root")]

FromSysctl ==
  [Sysctl |-> Syscall("Sys32_sysctl"), Prctl |-> Syscall("Sys32prctl"),
   ArchPrctl |-> Special("Sys32arch_prctl", <<Need("ArchPrctl"), Need("ArchPrctlRet")>>),
   Adjtimex |-> Syscall("Sys32adjtimex"), Setrlimit |-> Syscall("Sys32setrlimit")]

FromChroot ==
  [Chroot |-> Syscall("Sys32chroot"), Sync |-> Syscall("Sys32sync"),
   Acct |-> Syscall("Sys32acct"), Settimeofday |-> Syscall("Sys32settimeofday"),
   Mount |-> Syscall("Sys32mount")]

FromUmount2 ==
  [Umount2 |-> Syscall("Sys32umount2"), Swapon |-> Syscall("Sys32swapon"),
   Swapoff |-> Syscall("Sys32swapoff"), Reboot |-> Syscall("Sys32reboot"),
   Sethostname |-> Syscall("Sys32sethostname")]

FromSetdomainname ==
  [Setdomainname |-> Syscall("Sys32setdomainname"), Iopl |-> Syscall("Sys32iopl"),
   Ioperm |-> Syscall("Sys32ioperm"), CreateModule |-> Syscall("Sys32create_module"),
   InitModule |-> Syscall("Sys32init_module")]

FromDeleteModule ==
  [DeleteModule |-> Syscall("Sys32delete_module"),
   GetKernelSyms |-> Syscall("Sys32get_kernel_syms"),
   QueryModule |-> Syscall("Sys32query_module"), Quotactl |-> Syscall("Sys32quotactl"),
   Nfsservctl |-> Syscall("Sys32nfsservctl")]

FromGetpmsg ==
  [Getpmsg |-> Syscall("Sys32getpmsg"), Putpmsg |-> Syscall("Sys32putpmsg"),
   Afs |-> Syscall("Sys32Undefined"), Tuxcall |-> Syscall("Sys32Undefined"),
   Security |-> Syscall("Sys32Undefined"), Gettid |-> Syscall("Sys32gettid")]

FromReadahead ==
  [Readahead |-> Syscall("Sys32readahead"), Setxattr |-> Syscall("Sys32setxattr"),
   Lsetxattr |-> Syscall("Sys32lsetxattr"), Fsetxattr |-> Syscall("Sys32fsetxattr"),
   Getxattr |-> Syscall("Sys32getxattr")]

FromLgetxattr ==
  [Lgetxattr |-> Syscall("Sys32lgetxattr"), Fgetxattr |-> Syscall("Sys32fgetxattr"),
   Listxattr |-> Syscall("Sys32listxattr"), Llistxattr |-> Syscall("Sys32llistxattr"),
   Flistxattr |-> Syscall("Sys32flistxattr")]

FromRemovexattr ==
  [Removexattr |-> Syscall("Sys32removexattr"),
   Lremovexattr |-> Syscall("Sys32lremovexattr"),
   Fremovexattr |-> Syscall("Sys32fremovexattr"), Tkill |-> Syscall("Sys32tkill"),
   Time |-> Syscall("Sys32time")]

FromFutex ==
  [Futex |-> Syscall("Sys32futex_time64"),
   SchedSetaffinity |-> Syscall("Sys32sched_setaffinity"),
   SchedGetaffinity |-> Syscall("Sys32sched_getaffinity"),
   SetThreadArea |-> Syscall("Sys32set_thread_area"),
   IoSetup |-> Syscall("Sys32io_setup")]

FromIoDestroy ==
  [IoDestroy |-> Syscall("Sys32io_destroy"),
   IoGetevents |-> Syscall("Sys32io_getevents"), IoSubmit |-> Syscall("Sys32io_submit"),
   IoCancel |-> Syscall("Sys32io_cancel"),
   GetThreadArea |-> Syscall("Sys32get_thread_area")]

FromLookupDcookie ==
  [LookupDcookie |-> Syscall("Sys32lookup_dcookie"),
   EpollCreate |-> Syscall("Sys32epoll_create"),
   EpollCtlOld |-> Syscall("Sys32Undefined"),
   EpollWaitOld |-> Syscall("Sys32Undefined"),
   RemapFilePages |-> Syscall("Sys32remap_file_pages")]

FromGetdents64 ==
  [Getdents64 |-> Syscall("Sys32getdents64"),
   SetTidAddress |-> Syscall("Sys32set_tid_address"),
   RestartSyscall |-> Syscall("Sys32restart_syscall"),
   Semtimedop |-> Syscall("Sys32semtimedop_time64"),
   Fadvise64 |-> Syscall("Sys32fadvise64")]

FromTimerCreate ==
  [TimerCreate |-> Syscall("Sys32timer_create"),
   TimerSettime |-> Syscall("Sys32timer_settime64"),
   TimerGettime |-> Syscall("Sys32timer_gettime64"),
   TimerGetoverrun |-> Syscall("Sys32timer_getoverrun"),
   TimerDelete |-> Syscall("Sys32timer_delete")]

FromClockSettime ==
  [ClockSettime |-> Syscall("Sys32clock_settime64"),
   ClockGettime |-> Syscall("Sys32clock_gettime64"),
   ClockGetres |-> Syscall("Sys32clock_getres_time64"),
   ClockNanosleep |-> Syscall("Sys32clock_nanosleep_time64"),
   ExitGroup |-> Syscall("Sys32exit_group")]

FromEpollWait ==
  [EpollWait |-> Syscall("Sys32epoll_wait"), EpollCtl |-> Syscall("Sys32epoll_ctl"),
   Tgkill |-> Syscall("Sys32tgkill"), Utimes |-> Syscall("Sys32utimes"),
   Vserver |-> Syscall("Sys32vserver")]

FromMbind ==
  [Mbind |-> Syscall("Sys32mbind"), SetMempolicy |-> Syscall("Sys32set_mempolicy"),
   GetMempolicy |-> Syscall("Sys32get_mempolicy"), MqOpen |-> Syscall("Sys32mq_open"),
   MqUnlink |-> Syscall("Sys32mq_unlink")]

FromMqTimedsend ==
  [MqTimedsend |-> Syscall("Sys32mq_timedsend_time64"),
   MqTimedreceive |-> Syscall("Sys32mq_timedreceive_time64"),
   MqNotify |-> Syscall("Sys32mq_notify"),
   MqGetsetattr |-> Syscall("Sys32mq_getsetattr"),
   KexecLoad |-> Syscall("Sys32kexec_load")]

FromWaitid ==
  [Waitid |-> Syscall("Sys32waitid"), AddKey |-> Syscall("Sys32add_key"),
   RequestKey |-> Syscall("Sys32request_key"), Keyctl |-> Syscall("Sys32keyctl"),
   IoprioSet |-> Syscall("Sys32ioprio_set")]

FromIoprioGet ==
  [IoprioGet |-> Syscall("Sys32ioprio_get"),
   InotifyInit |-> Syscall("Sys32inotify_init"),
   InotifyAddWatch |-> Syscall("Sys32inotify_add_watch"),
   InotifyRmWatch |-> Syscall("Sys32inotify_rm_watch"),
   MigratePages |-> Syscall("Sys32migrate_pages")]

FromOpenat ==
  [Openat |-> Syscall("Sys32openat"), Mkdirat |-> Syscall("Sys32mkdirat"),
   Mknodat |-> Syscall("Sys32mknodat"), Fchownat |-> Syscall("Sys32fchownat"),
   Futimesat |-> Syscall("Sys32futimesat")]

FromNewfstatat ==
  [Newfstatat |-> Syscall("Sys32fstatat64"), Unlinkat |-> Syscall("Sys32unlinkat"),
   Renameat |-> Syscall("Sys32renameat"), Linkat |-> Syscall("Sys32linkat"),
   Symlinkat |-> Syscall("Sys32symlinkat")]

FromReadlinkat ==
  [Readlinkat |-> Syscall("Sys32readlinkat"), Fchmodat |-> Syscall("Sys32fchmodat"),
   Faccessat |-> Syscall("Sys32faccessat"),
   Pselect6 |-> Syscall("Sys32pselect6_time64"), Ppoll |-> Syscall("Sys32ppoll_time64")]

FromUnshare ==
  [Unshare |-> Syscall("Sys32unshare"),
   SetRobustList |-> Syscall("Sys32set_robust_list"),
   GetRobustList |-> Syscall("Sys32get_robust_list"), Splice |-> Syscall("Sys32splice"),
   Tee |-> Syscall("Sys32tee")]

FromSyncFileRange ==
  [SyncFileRange |-> Syscall("Sys32sync_file_range"),
   Vmsplice |-> Syscall("Sys32vmsplice"), MovePages |-> Syscall("Sys32move_pages"),
   Utimensat |-> Syscall("Sys32utimensat_time64"),
   EpollPwait |-> Syscall("Sys32epoll_pwait")]

FromSignalfd ==
  [Signalfd |-> Syscall("Sys32signalfd"),
   TimerfdCreate |-> Syscall("Sys32timerfd_create"),
   Eventfd |-> Syscall("Sys32eventfd"), Fallocate |-> Syscall("Sys32fallocate"),
   TimerfdSettime |-> Syscall("Sys32timerfd_settime64")]

FromTimerfdGettime ==
  [TimerfdGettime |-> Syscall("Sys32timerfd_gettime64"),
   Accept4 |-> Syscall("Sys32accept4"), Signalfd4 |-> Syscall("Sys32signalfd4"),
   Eventfd2 |-> Syscall("Sys32eventfd2"),
   EpollCreate1 |-> Syscall("Sys32epoll_create1")]

FromDup3 ==
  [Dup3 |-> Special("Sys32dup3", <<Need("Dup3"), Need("Dup3Ret")>>),
   Pipe2 |-> Syscall("Sys32pipe2"), InotifyInit1 |-> Syscall("Sys32inotify_init1"),
   Preadv |-> Syscall("Sys32preadv"), Pwritev |-> Syscall("Sys32pwritev")]

FromRtTgsigqueueinfo ==
  [RtTgsigqueueinfo |-> Syscall("Sys32rt_tgsigqueueinfo"),
   PerfEventOpen |-> Syscall("Sys32perf_event_open"),
   Recvmmsg |-> Syscall("Sys32recvmmsg_time64"),
   FanotifyInit |-> Syscall("Sys32fanotify_init"),
   FanotifyMark |-> Syscall("Sys32fanotify_mark")]

FromPrlimit64 ==
  [Prlimit64 |-> Syscall("Sys32prlimit64"),
   NameToHandleAt |-> Syscall("Sys32name_to_handle_at"),
   OpenByHandleAt |-> Syscall("Sys32open_by_handle_at"),
   ClockAdjtime |-> Syscall("Sys32clock_adjtime"), Syncfs |-> Syscall("Sys32syncfs")]

FromSendmmsg ==
  [Sendmmsg |-> Syscall("Sys32sendmmsg"), Setns |-> Syscall("Sys32setns"),
   Getcpu |-> Syscall("Sys32getcpu"),
   ProcessVmReadv |-> Syscall("Sys32process_vm_readv"),
   ProcessVmWritev |-> Special("Sys32process_vm_writev", <<Need("ProcessVmWritev"),
      Need("ProcessVmWritevRet")>>)]

FromKcmp ==
  [Kcmp |-> Syscall("Sys32kcmp"), FinitModule |-> Syscall("Sys32finit_module"),
   SchedSetattr |-> Syscall("Sys32sched_setattr"),
   SchedGetattr |-> Syscall("Sys32sched_getattr"),
   Renameat2 |-> Syscall("Sys32renameat2")]

FromSeccomp ==
  [Seccomp |-> Syscall("Sys32seccomp"), Getrandom |-> Syscall("Sys32getrandom"),
   MemfdCreate |-> Syscall("Sys32memfd_create"),
   KexecFileLoad |-> Syscall("Sys32Undefined"), Bpf |-> Syscall("Sys32bpf")]

FromExecveat ==
  [Execveat |-> Special("Sys32execveat", <<Need("SyscallEnter__Internal"),
      Need("SyscallExit__Internal"),
      TailCall("sys_enter_init_tail", "sys_enter_init", {"Execveat"}),
      TailCall("sys_enter_submit_tail", "sys_enter_submit", {"Execveat"}),
      TailCall("sys_exit_init_tail", "sys_exit_init", {"Execveat"}),
      TailCall("sys_exit_submit_tail", "sys_exit_submit", {"Execveat"}),
      TailCall("sys_enter_tails", "syscall__execveat_enter", {"Execveat"}),
      TailCall("sys_exit_tails", "syscall__execveat_exit", {"Execveat"})>>),
   Userfaultfd |-> Syscall("Sys32userfaultfd"),
   Membarrier |-> Syscall("Sys32membarrier"), Mlock2 |-> Syscall("Sys32mlock2"),
   CopyFileRange |-> Syscall("Sys32copy_file_range")]

FromPreadv2 ==
  [Preadv2 |-> Syscall("Sys32preadv2"), Pwritev2 |-> Syscall("Sys32pwritev2"),
   PkeyMprotect |-> Syscall("Sys32pkey_mprotect"),
   PkeyAlloc |-> Syscall("Sys32pkey_alloc"), PkeyFree |-> Syscall("Sys32pkey_free")]

FromStatx ==
  [Statx |-> Syscall("Sys32statx"),
   IoPgetevents |-> Syscall("Sys32io_pgetevents_time64"), Rseq |-> Syscall("Sys32rseq"),
   PidfdSendSignal |-> Syscall("Sys32pidfd_send_signal"),
   IoUringSetup |-> Syscall("Sys32io_uring_setup")]

FromIoUringEnter ==
  [IoUringEnter |-> Syscall("Sys32io_uring_enter"),
   IoUringRegister |-> Syscall("Sys32io_uring_register"),
   OpenTree |-> Syscall("Sys32open_tree"), MoveMount |-> Syscall("Sys32move_mount"),
   Fsopen |-> Syscall("Sys32fsopen")]

FromFsconfig ==
  [Fsconfig |-> Syscall("Sys32fsconfig"), Fsmount |-> Syscall("Sys32fsmount"),
   Fspick |-> Syscall("Sys32fspick"), PidfdOpen |-> Syscall("Sys32pidfd_open"),
   Clone3 |-> Syscall("Sys32clone3")]

FromCloseRange ==
  [CloseRange |-> Syscall("Sys32close_range"), Openat2 |-> Syscall("Sys32openat2"),
   PidfdGetfd |-> Syscall("Sys32pidfd_getfd"),
   Faccessat2 |-> Syscall("Sys32faccessat2"),
   ProcessMadvise |-> Syscall("Sys32process_madvise")]

FromEpollPwait2 ==
  [EpollPwait2 |-> Syscall("Sys32epoll_pwait2"),
   MountSetattr |-> Syscall("Sys32mount_setattr"),
   QuotactlFd |-> Syscall("Sys32quotactl_fd"),
   LandlockCreateRuleset |-> Syscall("Sys32landlock_create_ruleset"),
   LandlockAddRule |-> Syscall("Sys32landlock_add_rule")]

FromLandlockRestrictSelf ==
  [LandlockRestrictSelf |-> Syscall("Sys32landlock_restrict_self"),
   MemfdSecret |-> Syscall("Sys32memfd_secret"),
   ProcessMrelease |-> Syscall("Sys32process_mrelease"),
   Waitpid |-> Syscall("Sys32waitpid"), Oldfstat |-> Syscall("Sys32oldfstat")]

FromBreak ==
  [Break |-> Syscall("Sys32break"), Oldstat |-> Syscall("Sys32oldstat"),
   Umount |-> Syscall("Sys32umount"), Stime |-> Syscall("Sys32stime"),
   Stty |-> Syscall("Sys32stty")]

FromGtty ==
  [Gtty |-> Syscall("Sys32gtty"), Nice |-> Syscall("Sys32nice"),
   Ftime |-> Syscall("Sys32ftime"), Prof |-> Syscall("Sys32prof"),
   Signal |-> Syscall("Sys32signal")]

FromLock ==
  [Lock |-> Syscall("Sys32lock"), Mpx |-> Syscall("Sys32mpx"),
   Ulimit |-> Syscall("Sys32ulimit"), Oldolduname |-> Syscall("Sys32oldolduname"),
   Sigaction |-> Syscall("Sys32sigaction")]

FromSgetmask ==
  [Sgetmask |-> Syscall("Sys32sgetmask"), Ssetmask |-> Syscall("Sys32ssetmask"),
   Sigsuspend |-> Syscall("Sys32sigsuspend"), Sigpending |-> Syscall("Sys32sigpending"),
   Oldlstat |-> Syscall("Sys32oldlstat")]

FromReaddir ==
  [Readdir |-> Syscall("Sys32readdir"), Profil |-> Syscall("Sys32profil"),
   Socketcall |-> Syscall("Sys32socketcall"), Olduname |-> Syscall("Sys32olduname"),
   Idle |-> Syscall("Sys32idle")]

FromVm86old ==
  [Vm86old |-> Syscall("Sys32vm86old"), Ipc |-> Syscall("Sys32ipc"),
   Sigreturn |-> Syscall("Sys32sigreturn"), Sigprocmask |-> Syscall("Sys32sigprocmask"),
   Bdflush |-> Syscall("Sys32bdflush")]

FromAfs_syscall ==
  [Afs_syscall |-> Syscall("Sys32afs_syscall"), Llseek |-> Syscall("Sys32_llseek"),
   OldSelect |-> Syscall("Sys32select"), Vm86 |-> Syscall("Sys32vm86"),
   OldGetrlimit |-> Syscall("Sys32getrlimit")]

FromMmap2 ==
  [Mmap2 |-> Syscall("Sys32mmap2"), Truncate64 |-> Syscall("Sys32truncate64"),
   Ftruncate64 |-> Syscall("Sys32ftruncate64"), Stat64 |-> Syscall("Sys32stat64"),
   Lstat64 |-> Syscall("Sys32lstat64")]

FromFstat64 ==
  [Fstat64 |-> Syscall("Sys32fstat64"), Lchown16 |-> Syscall("Sys32lchown"),
   Getuid16 |-> Syscall("Sys32getuid"), Getgid16 |-> Syscall("Sys32getgid"),
   Geteuid16 |-> Syscall("Sys32geteuid")]

FromGetegid16 ==
  [Getegid16 |-> Syscall("Sys32getegid"), Setreuid16 |-> Syscall("Sys32setreuid"),
   Setregid16 |-> Syscall("Sys32setregid"), Getgroups16 |-> Syscall("Sys32getgroups"),
   Setgroups16 |-> Syscall("Sys32setgroups")]

FromFchown16 ==
  [Fchown16 |-> Syscall("Sys32fchown"), Setresuid16 |-> Syscall("Sys32setresuid"),
   Getresuid16 |-> Syscall("Sys32getresuid"), Setresgid16 |-> Syscall("Sys32setresgid"),
   Getresgid16 |-> Syscall("Sys32getresgid")]

FromChown16 ==
  [Chown16 |-> Syscall("Sys32chown"), Setuid16 |-> Syscall("Sys32setuid"),
   Setgid16 |-> Syscall("Sys32setgid"), Setfsuid16 |-> Syscall("Sys32setfsuid"),
   Setfsgid16 |-> Syscall("Sys32setfsgid")]

FromFcntl64 ==
  [Fcntl64 |-> Syscall("Sys32fcntl64"), Sendfile32 |-> Syscall("Sys32sendfile"),
   Statfs64 |-> Syscall("Sys32statfs64"), Fstatfs64 |-> Syscall("Sys32fstatfs64"),
   Fadvise64_64 |-> Syscall("Sys32fadvise64_64")]

FromClockGettime32 ==
  [ClockGettime32 |-> Syscall("Sys32clock_gettime"),
   ClockSettime32 |-> Syscall("Sys32clock_settime"),
   ClockAdjtime64 |-> Syscall("Sys32clock_adjtime64"),
   ClockGetresTime32 |-> Syscall("Sys32clock_getres"),
   ClockNanosleepTime32 |-> Syscall("Sys32clock_nanosleep")]

FromTimerGettime32 ==
  [TimerGettime32 |-> Syscall("Sys32timer_gettime"),
   TimerSettime32 |-> Syscall("Sys32timer_settime"),
   TimerfdGettime32 |-> Syscall("Sys32timerfd_gettime"),
   TimerfdSettime32 |-> Syscall("Sys32timerfd_settime"),
   UtimensatTime32 |-> Syscall("Sys32utimensat")]

FromPselect6Time32 ==
  [Pselect6Time32 |-> Syscall("Sys32pselect6"), PpollTime32 |-> Syscall("Sys32ppoll"),
   IoPgeteventsTime32 |-> Syscall("Sys32io_pgetevents"),
   RecvmmsgTime32 |-> Syscall("Sys32recvmmsg"),
   MqTimedsendTime32 |-> Syscall("Sys32mq_timedsend")]

FromMqTimedreceiveTime32 ==
  [MqTimedreceiveTime32 |-> Syscall("Sys32mq_timedreceive"),
   RtSigtimedwaitTime32 |-> Syscall("Sys32rt_sigtimedwait"),
   FutexTime32 |-> Syscall("Sys32futex"),
   SchedRrGetInterval32 |-> Syscall("Sys32sched_rr_get_interval"),
   SysEnter |-> Event(<<Need("SysEnter")>>, <<>>)]

FromSysExit ==
  [SysExit |-> Event(<<Need("SysExit")>>, <<>>),
   SchedProcessFork |-> Event(<<Need("SchedProcessFork")>>, <<>>),
   SchedProcessExec |->
      Event(<<Need("SchedProcessExec"), Use("LoadElfPhdrs"),
              TailCall("prog_array_tp", "sched_process_exec_event_submit_tail", {"TailSchedProcessExecEventSubmit"})>>,
            <<>>),
   SchedProcessExit |-> Event(<<Need("SchedProcessExit"), Need("SchedProcessFree")>>, <<>>)]

FromSchedSwitch ==
  [SchedSwitch |-> Event(<<Need("SchedSwitch")>>, <<>>),
   DoExit |-> Event(<<Need("DoExit")>>, <<>>),
   CapCapable |-> Event(<<Need("CapCapable")>>, <<>>),
   VfsWrite |-> Event(<<Need("VfsWrite"), Need("VfsWriteRet")>>, <<>>),
   VfsWritev |-> Event(<<Need("VfsWriteV"), Need("VfsWriteVRet")>>, <<>>),
   MemProtAlert |-> Event(<<Need("SecurityMmapAddr"), Need("SecurityFileMProtect")>>, <<>>),
   CommitCreds |-> Event(<<Need("CommitCreds")>>, <<>>)]

FromSwitchTaskNS ==
  [SwitchTaskNS |-> Event(<<Need("SwitchTaskNS")>>, <<>>),
   MagicWrite |->
      Event(<<Need("VfsWriteMagic"), Need("VfsWriteMagicRet"), Use("VfsWriteVMagic"),
              Use("VfsWriteVMagicRet"), Use("KernelWriteMagic"),
              Use("KernelWriteMagicRet")>>,
            <<>>),
   CgroupAttachTask |-> Event(<<Need("CgroupAttachTask")>>, <<>>),
   CgroupMkdir |-> Event(<<Need("CgroupMkdir")>>, <<>>),
   CgroupRmdir |-> Event(<<Need("CgroupRmdir")>>, <<>>),
   SecurityBprmCheck |->
      Event(<<Need("SecurityBPRMCheck"), Need("SyscallEnter__Internal"),
              TailCall("sys_enter_init_tail", "sys_enter_init", {"Execve", "Execveat"})>>,
            <<>>)]

FromSecurityFileOpen ==
  [SecurityFileOpen |-> Event(<<Need("SecurityFileOpen")>>, <<>>),
   SecurityInodeUnlink |-> Event(<<Need("SecurityInodeUnlink")>>, <<>>),
   SecuritySocketCreate |-> Event(<<Need("SecuritySocketCreate")>>, <<>>),
   SecuritySocketListen |->
      Event(<<Need("SecuritySocketListen"), Need("SyscallEnter__Internal"),
              TailCall("sys_enter_init_tail", "sys_enter_init", {"Listen"})>>,
            <<>>),
   SecuritySocketConnect |-> Event(<<Need("SecuritySocketConnect")>>, <<>>),
   NetTCPConnect |-> Event(<<>>, <<"SecuritySocketConnect">>),
   SecuritySocketAccept |-> Event(<<Need("SecuritySocketAccept")>>, <<>>)]

FromSecuritySocketBind ==
  [SecuritySocketBind |-> Event(<<Need("SecuritySocketBind")>>, <<>>),
   SecuritySocketSetsockopt |-> Event(<<Need("SecuritySocketSetsockopt")>>, <<>>),
   SecuritySbMount |-> Event(<<Need("SecuritySbMount")>>, <<>>),
   SecuritySbUmount |-> Event(<<Need("SecuritySbUmount")>>, <<>>),
   SecurityBPF |-> Event(<<Need("SecurityBPF")>>, <<>>),
   SecurityBPFMap |-> Event(<<Need("SecurityBPFMap")>>, <<>>),
   SecurityKernelReadFile |-> Event(<<Need("SecurityKernelReadFile")>>, <<>>)]

FromSecurityKernelPostReadFile ==
  [SecurityKernelPostReadFile |-> Event(<<Need("SecurityKernelPostReadFile")>>, <<>>),
   SecurityInodeMknod |-> Event(<<Need("SecurityInodeMknod")>>, <<>>),
   SecurityInodeSymlink |-> Event(<<Need("SecurityInodeSymlink")>>, <<>>),
   SecurityMmapFile |-> Event(<<Need("SecurityMmapFile")>>, <<>>),
   DoMmap |-> Event(<<Need("DoMmap"), Need("DoMmapRet")>>, <<>>),
   SecurityFileMprotect |->
      Event(<<Need("SecurityFileMProtect"), Need("SyscallEnter__Internal"),
              TailCall("sys_enter_init_tail", "sys_enter_init", {"Mprotect", "PkeyMprotect"})>>,
            <<>>)]

FromInitNamespaces ==
  [InitNamespaces |-> Event(<<>>, <<>>), TraceeInfo |-> Event(<<>>, <<>>),
   SocketDup |->
      Event(<<Need("Dup"), Need("DupRet"), Use("Dup2"), Use("Dup2Ret"), Need("Dup3"),
              Need("Dup3Ret"),
              TailCall("generic_sys_exit_tails", "sys_dup_exit_tail", {"Dup", "Dup2", "Dup3"})>>,
            <<>>),
   ZeroedInodes |-> Event(<<Need("Filldir64")>>, <<>>),
   KernelWrite |-> Event(<<Need("KernelWrite"), Need("KernelWriteRet")>>, <<>>),
   DirtyPipeSplice |->
      EventK(<<Need("DoSplice"), Need("DoSpliceRet")>>, <<>>, {MaySym("pipe_write")})]

FromContainerCreate ==
  [ContainerCreate |-> Event(<<>>, <<"CgroupMkdir">>),
   ContainerRemove |-> Event(<<>>, <<"CgroupRmdir">>),
   ExistingContainer |-> Event(<<>>, <<>>),
   ProcCreate |-> Event(<<Need("ProcCreate")>>, <<>>),
   KprobeAttach |-> Event(<<Need("RegisterKprobe"), Need("RegisterKprobeRet")>>, <<>>),
   CallUsermodeHelper |-> Event(<<Need("CallUsermodeHelper")>>, <<>>),
   DebugfsCreateFile |-> Event(<<Need("DebugfsCreateFile")>>, <<>>)]

FromSyscallTableCheck ==
  [SyscallTableCheck |->
      EventK(<<Need("SyscallTableCheck")>>, <<>>, {Sym("sys_call_table")}),
   HiddenKernelModule |-> Event(<<>>, <<"HiddenKernelModuleSeeker">>),
   HiddenKernelModuleSeeker |->
      EventK(<<Need("HiddenKernelModuleSeeker"), Need("HiddenKernelModuleVerifier"),
               Need("ModuleLoad"), Need("ModuleFree"), Need("DoInitModule"),
               Need("DoInitModuleRet"),
               TailCall("prog_array", "lkm_seeker_proc_tail", {"TailHiddenKernelModuleProc"}),
               TailCall("prog_array", "lkm_seeker_kset_tail", {"TailHiddenKernelModuleKset"}),
               TailCall("prog_array", "lkm_seeker_mod_tree_tail", {"TailHiddenKernelModuleModTree"}),
               TailCall("prog_array", "lkm_seeker_new_mod_only_tail", {"TailHiddenKernelModuleNewModOnly"}),
               TailCall("prog_array", "lkm_seeker_modtree_loop", {"TailHiddenKernelModuleModTreeLoop"})>>,
             <<>>, {Sym("modules"), Sym("module_kset"), Sym("mod_tree")}),
   HookedSyscall |-> Event(<<>>, <<"SyscallTableCheck", "DoInitModule">>),
   DebugfsCreateDir |-> Event(<<Need("DebugfsCreateDir")>>, <<>>),
   DeviceAdd |-> Event(<<Need("DeviceAdd")>>, <<>>)]

FromRegisterChrdev ==
  [RegisterChrdev |-> Event(<<Need("RegisterChrdev"), Need("RegisterChrdevRet")>>, <<>>),
   SharedObjectLoaded |-> Event(<<Need("SecurityMmapFile")>>, <<>>),
   SymbolsLoaded |-> Event(<<>>, <<"SharedObjectLoaded", "SchedProcessExec">>),
   SymbolsCollision |-> Event(<<>>, <<"SharedObjectLoaded", "SchedProcessExec">>),
   CaptureFileWrite |->
      EventK(<<Need("VfsWrite"), Need("VfsWriteRet"), Use("VfsWriteV"),
               Use("VfsWriteVRet"), Use("KernelWrite"), Use("KernelWriteRet"),
               Use("SecurityInodeUnlink"),
               TailCall("prog_array", "trace_ret_vfs_write_tail", {"TailVfsWrite"}),
               TailCall("prog_array", "trace_ret_vfs_writev_tail", {"TailVfsWritev"}),
               TailCall("prog_array", "trace_ret_kernel_write_tail", {"TailKernelWrite"}),
               TailCall("prog_array", "send_bin", {"TailSendBin"})>>,
             <<>>, {Sym("pipe_write")}),
   CaptureFileRead |->
      EventK(<<Need("VfsRead"), Need("VfsReadRet"), Use("VfsReadV"),
               Use("VfsReadVRet"), Use("SecurityInodeUnlink"),
               TailCall("prog_array", "trace_ret_vfs_read_tail", {"TailVfsRead"}),
               TailCall("prog_array", "trace_ret_vfs_readv_tail", {"TailVfsReadv"}),
               TailCall("prog_array", "send_bin", {"TailSendBin"})>>,
             <<>>, {Sym("pipe_write")})]

FromCaptureExec ==
  [CaptureExec |-> Event(<<>>, <<"SchedProcessExec">>),
   CaptureModule |->
      Event(<<Need("SyscallEnter__Internal"), Need("SyscallExit__Internal"),
              Need("SecurityKernelPostReadFile"),
              TailCall("sys_enter_tails", "syscall__init_module", {"InitModule"}),
              TailCall("prog_array_tp", "send_bin_tp", {"TailSendBinTP"}),
              TailCall("prog_array", "send_bin", {"TailSendBin"})>>,
            <<"SchedProcessExec">>),
   CaptureMem |->
      Event(<<Need("SecurityFileMProtect"),
              TailCall("prog_array", "send_bin", {"TailSendBin"})>>,
            <<>>),
   CaptureBpf |->
      Event(<<Need("SecurityBPF"), TailCall("prog_array", "send_bin", {"TailSendBin"})>>,
            <<>>),
   DoInitModule |-> Event(<<Need("DoInitModule"), Need("DoInitModuleRet")>>, <<>>),
   ModuleLoad |-> Event(<<Need("ModuleLoad")>>, <<>>),
   ModuleFree |-> Event(<<Need("ModuleFree")>>, <<>>)]

FromSocketAccept ==
  [SocketAccept |->
      Event(<<Need("SyscallEnter__Internal"), Need("SyscallExit__Internal"),
              TailCall("sys_exit_tails", "syscall__accept4", {"Accept", "Accept4"}),
              TailCall("sys_exit_init_tail", "sys_exit_init", {"Accept", "Accept4"})>>,
            <<"SecuritySocketAccept">>),
   LoadElfPhdrs |-> Event(<<Need("LoadElfPhdrs")>>, <<>>),
   HookedProcFops |->
      EventK(<<Need("SecurityFilePermission")>>,
             <<"DoInitModule">>, {Sym("_stext"), Sym("_etext")}),
   PrintNetSeqOps |->
      EventK(<<Need("PrintNetSeqOps")>>,
             <<>>,
             {Sym("tcp4_seq_ops"), Sym("tcp6_seq_ops"), Sym("udp_seq_ops"),
              Sym("udp6_seq_ops"), Sym("raw_seq_ops"), Sym("raw6_seq_ops")}),
   HookedSeqOps |->
      EventK(<<>>, <<"PrintNetSeqOps", "DoInitModule">>, {Sym("_stext"), Sym("_etext")}),
   TaskRename |-> Event(<<Need("TaskRename")>>, <<>>)]

FromSecurityInodeRename ==
  [SecurityInodeRename |-> Event(<<Need("SecurityInodeRename")>>, <<>>),
   DoSigaction |-> Event(<<Need("DoSigaction")>>, <<>>),
   BpfAttach |->
      Event(<<Need("SecurityFileIoctl"), Need("SecurityBpfProg"), Need("SecurityBPF"),
              Need("TpProbeRegPrioMayExist"), Use("CheckHelperCall"),
              Use("CheckMapFuncCompatibility")>>,
            <<>>),
   KallsymsLookupName |->
      Event(<<Need("KallsymsLookupName"), Need("KallsymsLookupNameRet")>>, <<>>),
   PrintMemDump |-> EventK(<<Need("PrintMemDump")>>, <<"DoInitModule">>, {Sym("_stext")})]

FromVfsRead ==
  [VfsRead |-> Event(<<Need("VfsRead"), Need("VfsReadRet")>>, <<>>),
   VfsReadv |-> Event(<<Need("VfsReadV"), Need("VfsReadVRet")>>, <<>>),
   VfsUtimes |-> Event(<<Use("VfsUtimes"), Use("UtimesCommon")>>, <<>>),
   DoTruncate |-> Event(<<Need("DoTruncate")>>, <<>>),
   FileModification |->
      Event(<<Need("FdInstall"), Need("FilpClose"), Need("FileUpdateTime"),
              Need("FileUpdateTimeRet"), Use("FileModified"), Use("FileModifiedRet")>>,
            <<>>),
   InotifyWatch |-> Event(<<Need("InotifyFindInode"), Need("InotifyFindInodeRet")>>, <<>>)]

FromSecurityBpfProg ==
  [SecurityBpfProg |->
      Event(<<Need("SecurityBpfProg"), Need("BpfCheck"), Use("CheckHelperCall"),
              Use("CheckMapFuncCompatibility")>>,
            <<>>),
   ExecuteFinished |->
      Event(<<Use("ExecuteFinishedX86"), Use("ExecuteAtFinishedX86"),
              Use("ExecuteFinishedCompatX86"), Use("ExecuteAtFinishedCompatX86"),
              Use("ExecuteFinishedARM"), Use("ExecuteAtFinishedARM"),
              Use("ExecuteFinishedCompatARM"), Use("ExecuteAtFinishedCompatARM")>>,
            <<>>),
   ProcessExecuteFailedInternal |->
      Event(<<Use("ExecBinprm"), Use("SecurityBprmCredsForExec"),
              TailCall("prog_array", "process_execute_failed_tail", {"TailProcessExecuteFailed"})>>,
            <<"ExecuteFinished">>),
   ProcessExecuteFailed |-> Event(<<>>, <<"ProcessExecuteFailedInternal">>),
   FtraceHook |-> Event(<<>>, <<"DoInitModule">>)]

FromSecurityPathNotify ==
  [SecurityPathNotify |-> Event(<<Need("SecurityPathNotify")>>, <<>>),
   SetFsPwd |-> Event(<<Need("SetFsPwd")>>, <<>>),
   SecurityTaskSetrlimit |-> Event(<<Need("SecurityTaskSetrlimit")>>, <<>>),
   SecuritySettime64 |-> Event(<<Need("SecuritySettime64")>>, <<>>),
   ChmodCommon |-> Event(<<Need("ChmodCommon")>>, <<>>),
   SuspiciousSyscallSource |->
      Event(<<Use("SchedProcessFork"), Use("SchedProcessExec")>>, <<>>),
   StackPivot |-> Event(<<Use("SchedProcessFork"), Use("SchedProcessExec")>>, <<>>)]

FromSecurityTaskPrctl ==
  [SecurityTaskPrctl |-> Event(<<Need("SecurityTaskPrctl")>>, <<>>),
   SignalCgroupMkdir |-> Event(<<Need("SignalCgroupMkdir")>>, <<>>),
   SignalCgroupRmdir |-> Event(<<Need("SignalCgroupRmdir")>>, <<>>),
   SignalSchedProcessFork |-> Event(<<Need("SignalSchedProcessFork")>>, <<>>)]

FromSignalSchedProcessExec ==
  [SignalSchedProcessExec |->
      Event(<<Need("SignalSchedProcessExec"), Need("SchedProcessFork"),
              Need("SchedProcessFree"), Use("LoadElfPhdrs")>>,
            <<>>),
   SignalSchedProcessExit |-> Event(<<Need("SignalSchedProcessExit")>>, <<>>),
   SignalHeartbeat |-> Event(<<Need("SignalHeartbeat")>>, <<>>),
   NetPacketBase |->
      Event(<<Need("CgroupSKBIngress"), Need("CgroupSKBEgress"), Need("SockAllocFile"),
              Need("SockAllocFileRet"), Need("CgroupBPFRunFilterSKB"),
              Need("SecuritySocketRecvmsg"), Need("SecuritySocketSendmsg"),
              Need("SecuritySkClone")>>,
            <<>>),
   NetPacketRaw |-> Event(<<>>, <<"NetPacketBase">>),
   NetPacketIPBase |-> Event(<<>>, <<"NetPacketBase">>)]

FromNetPacketIPv4 ==
  [NetPacketIPv4 |-> Event(<<>>, <<"NetPacketIPBase">>),
   NetPacketIPv6 |-> Event(<<>>, <<"NetPacketIPBase">>),
   NetPacketTCPBase |-> Event(<<>>, <<"NetPacketBase">>),
   NetPacketTCP |-> Event(<<>>, <<"NetPacketTCPBase">>),
   NetPacketUDPBase |-> Event(<<>>, <<"NetPacketBase">>),
   NetPacketUDP |-> Event(<<>>, <<"NetPacketUDPBase">>),
   NetPacketICMPBase |-> Event(<<>>, <<"NetPacketBase">>)]

FromNetPacketICMP ==
  [NetPacketICMP |-> Event(<<>>, <<"NetPacketICMPBase">>),
   NetPacketICMPv6Base |-> Event(<<>>, <<"NetPacketBase">>),
   NetPacketICMPv6 |-> Event(<<>>, <<"NetPacketICMPv6Base">>),
   NetPacketDNSBase |-> Event(<<>>, <<"NetPacketBase">>),
   NetPacketDNS |-> Event(<<>>, <<"NetPacketDNSBase">>),
   NetPacketDNSRequest |-> Event(<<>>, <<"NetPacketDNSBase">>),
   NetPacketDNSResponse |-> Event(<<>>, <<"NetPacketDNSBase">>)]

FromNetPacketHTTPBase ==
  [NetPacketHTTPBase |-> Event(<<>>, <<"NetPacketBase">>),
   NetPacketHTTP |-> Event(<<>>, <<"NetPacketHTTPBase">>),
   NetPacketHTTPRequest |-> Event(<<>>, <<"NetPacketHTTPBase">>),
   NetPacketHTTPResponse |-> Event(<<>>, <<"NetPacketHTTPBase">>),
   NetPacketCapture |-> Event(<<>>, <<"NetPacketBase">>),
   CaptureNetPacket |-> Event(<<>>, <<"NetPacketCapture">>),
   NetPacketFlowBase |-> Event(<<>>, <<"NetPacketBase">>)]

FromNetFlowTCPBegin ==
  [NetFlowTCPBegin |-> Event(<<>>, <<"NetPacketFlowBase">>),
   NetFlowTCPEnd |-> Event(<<>>, <<"NetPacketFlowBase">>),
   ExecTest |-> Event(<<Need("ExecTest"), Need("EmptyKprobe")>>, <<>>),
   MissingKsymbol |-> EventK(<<Need("ExecTest")>>, <<>>, {Sym("non_existing_symbol")}),
   FailedAttach |-> Event(<<Need("TestUnavailableHook"), Need("ExecTest")>>, <<>>),
   IncompatibleProbeTest |-> Event(<<Need("IncompatibleProbe")>>, <<>>),
   IncompatibleProbeWithFallbackTest |-> Fallback(<<
      Deps(<<Need("IncompatibleProbe"), Need("ExecTest")>>, <<>>),
      Deps(<<Need("ExecTest"), Need("EmptyKprobe")>>, <<>>)>>)]

FromFailedEventDependencyTest ==
  [FailedEventDependencyTest |-> Event(<<>>, <<"IncompatibleProbeTest", "ExecTest">>),
   MultipleFallbacksTest |-> Fallback(<<
      Deps(<<>>, <<"IncompatibleProbeTest", "ExecTest">>),
      Deps(<<>>, <<"FailedEventDependencyTest", "ExecTest">>),
      DepsK(<<>>, <<"ExecTest">>, {Sym("non_existing_symbol")}),
      Deps(<<>>, <<"ExecTest">>)>>),
   SharedProbeEventA |-> Fallback(<<
      Deps(<<Need("IncompatibleProbe"), Need("ExecTest")>>, <<>>),
      Deps(<<Need("IncompatibleProbe"), Need("ExecTest")>>, <<>>),
      Deps(<<Need("ExecTest"), Need("EmptyKprobe")>>, <<"ExecTest">>)>>),
   SharedProbeEventB |-> Fallback(<<
      Deps(<<Need("IncompatibleProbe"), Need("ExecTest")>>, <<>>),
      Deps(<<Need("IncompatibleProbe"), Need("ExecTest")>>, <<>>),
      Deps(<<Need("ExecTest"), Need("EmptyKprobe")>>, <<>>)>>),
   LsmTest |-> Event(<<Need("LsmTest")>>, <<>>)]

FromFeaturesFallbackTest ==
  [FeaturesFallbackTest |-> Fallback(<<
      Deps(<<Need("FeaturesFallbackArena"),
             TailCall("prog_array", "uprobe__features_fallback_arena_tailcall", {"TailFeaturesFallback"})>>,
           <<>>),
      Deps(<<Need("FeaturesFallbackHelper"),
             TailCall("prog_array", "uprobe__features_fallback_helper_tailcall", {"TailFeaturesFallback"})>>,
           <<>>),
      Deps(<<Need("FeaturesFallbackMinimal"),
             TailCall("prog_array", "uprobe__features_fallback_minimal_tailcall", {"TailFeaturesFallback"})>>,
           <<>>)>>)]

-----------------------------------------------------------------------------
CoreEvents ==
  FromRead @@ FromFstat @@ FromMprotect @@ FromRtSigreturn @@ FromWritev @@
  FromMremap @@ FromShmat @@ FromGetitimer @@ FromSocket @@ FromSendmsg @@
  FromGetsockname @@ FromClone @@ FromWait4 @@ FromSemctl @@ FromMsgctl @@
  FromTruncate @@ FromFchdir @@ FromLink @@ FromFchmod @@ FromGettimeofday @@
  FromPtrace @@ FromSetgid @@ FromGetpgrp @@ FromSetgroups @@ FromGetpgid @@
  FromCapset @@ FromSigaltstack @@ FromUstat @@ FromSetpriority @@
  FromSchedGetPriorityMax @@ FromMlockall @@ FromSysctl @@ FromChroot @@
  FromUmount2 @@ FromSetdomainname @@ FromDeleteModule @@ FromGetpmsg @@
  FromReadahead @@ FromLgetxattr @@ FromRemovexattr @@ FromFutex @@
  FromIoDestroy @@ FromLookupDcookie @@ FromGetdents64 @@ FromTimerCreate @@
  FromClockSettime @@ FromEpollWait @@ FromMbind @@ FromMqTimedsend @@
  FromWaitid @@ FromIoprioGet @@ FromOpenat @@ FromNewfstatat @@
  FromReadlinkat @@ FromUnshare @@ FromSyncFileRange @@ FromSignalfd @@
  FromTimerfdGettime @@ FromDup3 @@ FromRtTgsigqueueinfo @@ FromPrlimit64 @@
  FromSendmmsg @@ FromKcmp @@ FromSeccomp @@ FromExecveat @@ FromPreadv2 @@
  FromStatx @@ FromIoUringEnter @@ FromFsconfig @@ FromCloseRange @@
  FromEpollPwait2 @@ FromLandlockRestrictSelf @@ FromBreak @@ FromGtty @@
  FromLock @@ FromSgetmask @@ FromReaddir @@ FromVm86old @@ FromAfs_syscall @@
  FromMmap2 @@ FromFstat64 @@ FromGetegid16 @@ FromFchown16 @@ FromChown16 @@
  FromFcntl64 @@ FromClockGettime32 @@ FromTimerGettime32 @@
  FromPselect6Time32 @@ FromMqTimedreceiveTime32 @@ FromSysExit @@
  FromSchedSwitch @@ FromSwitchTaskNS @@ FromSecurityFileOpen @@
  FromSecuritySocketBind @@ FromSecurityKernelPostReadFile @@
  FromInitNamespaces @@ FromContainerCreate @@ FromSyscallTableCheck @@
  FromRegisterChrdev @@ FromCaptureExec @@ FromSocketAccept @@
  FromSecurityInodeRename @@ FromVfsRead @@ FromSecurityBpfProg @@
  FromSecurityPathNotify @@ FromSecurityTaskPrctl @@
  FromSignalSchedProcessExec @@ FromNetPacketIPv4 @@ FromNetPacketICMP @@
  FromNetPacketHTTPBase @@ FromNetFlowTCPBegin @@
  FromFailedEventDependencyTest @@ FromFeaturesFallbackTest

AllStrategies(e) ==
  IF CoreEvents[e].strategies = <<>> THEN <<Deps(SyscallHooks(e), <<>>)>>
  ELSE CoreEvents[e].strategies
=============================================================================
