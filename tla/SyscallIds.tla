------------------------------ MODULE SyscallIds ------------------------------
(* The numbers of the syscalls on the two architectures, which are also    *)
(* the numbers of their events (src/pkg/events/core_amd64.go and           *)
(* core_arm64.go): from a number to the constant, from a number of the 32  *)
(* bit table to its constant, and from a number to the name of the kernel  *)
(* function that implements it, by kernel version.                         *)
(*                                                                         *)
(* A page holds at most 150 lines of a table and is named after its first  *)
(* number.                                                                 *)
EXTENDS Integers, Sequences, TLC

From(first, names) == [n \in first .. first + Len(names) - 1 |-> names[n - first + 1]]

Unsupported == 9000

(* A name that starts with SyscallNotImplemented.                          *)
NI == "NOT_IMPLEMENTED"

(* Kernel versions are pairs.                                              *)
Below(major, minor, name) == [below |-> <<major, minor>>, above |-> <<>>, name |-> name]
Above(major, minor, name) == [below |-> <<>>, above |-> <<major, minor>>, name |-> name]

-----------------------------------------------------------------------------
Amd64IdFrom0 ==
  From(0, <<"Read", "Write", "Open", "Close", "Stat", "Fstat", "Lstat", "Poll", "Lseek",
       "Mmap", "Mprotect", "Munmap", "Brk", "RtSigaction", "RtSigprocmask",
       "RtSigreturn", "Ioctl", "Pread64", "Pwrite64", "Readv", "Writev", "Access",
       "Pipe", "Select", "SchedYield", "Mremap", "Msync", "Mincore", "Madvise",
       "Shmget", "Shmat", "Shmctl", "Dup", "Dup2", "Pause", "Nanosleep", "Getitimer",
       "Alarm", "Setitimer", "Getpid", "Sendfile", "Socket", "Connect", "Accept",
       "Sendto", "Recvfrom", "Sendmsg", "Recvmsg", "Shutdown", "Bind", "Listen",
       "Getsockname", "Getpeername", "Socketpair", "Setsockopt", "Getsockopt", "Clone",
       "Fork", "Vfork", "Execve", "Exit", "Wait4", "Kill", "Uname", "Semget", "Semop",
       "Semctl", "Shmdt", "Msgget", "Msgsnd", "Msgrcv", "Msgctl", "Fcntl", "Flock",
       "Fsync", "Fdatasync", "Truncate", "Ftruncate", "Getdents", "Getcwd", "Chdir",
       "Fchdir", "Rename", "Mkdir", "Rmdir", "Creat", "Link", "Unlink", "Symlink",
       "Readlink", "Chmod", "Fchmod", "Chown", "Fchown", "Lchown", "Umask",
       "Gettimeofday", "Getrlimit", "Getrusage", "Sysinfo", "Times", "Ptrace", "Getuid",
       "Syslog", "Getgid", "Setuid", "Setgid", "Geteuid", "Getegid", "Setpgid",
       "Getppid", "Getpgrp", "Setsid", "Setreuid", "Setregid", "Getgroups", "Setgroups",
       "Setresuid", "Getresuid", "Setresgid", "Getresgid", "Getpgid", "Setfsuid",
       "Setfsgid", "Getsid", "Capget", "Capset", "RtSigpending", "RtSigtimedwait",
       "RtSigqueueinfo", "RtSigsuspend", "Sigaltstack", "Utime", "Mknod", "Uselib",
       "Personality", "Ustat", "Statfs", "Fstatfs", "Sysfs", "Getpriority",
       "Setpriority", "SchedSetparam", "SchedGetparam", "SchedSetscheduler",
       "SchedGetscheduler", "SchedGetPriorityMax", "SchedGetPriorityMin",
       "SchedRrGetInterval">>)

Amd64IdFrom149 ==
  From(149, <<"Mlock", "Munlock", "Mlockall", "Munlockall", "Vhangup", "ModifyLdt",
       "PivotRoot", "Sysctl", "Prctl", "ArchPrctl", "Adjtimex", "Setrlimit", "Chroot",
       "Sync", "Acct", "Settimeofday", "Mount", "Umount2", "Swapon", "Swapoff",
       "Reboot", "Sethostname", "Setdomainname", "Iopl", "Ioperm", "CreateModule",
       "InitModule", "DeleteModule", "GetKernelSyms", "QueryModule", "Quotactl",
       "Nfsservctl", "Getpmsg", "Putpmsg", "Afs", "Tuxcall", "Security", "Gettid",
       "Readahead", "Setxattr", "Lsetxattr", "Fsetxattr", "Getxattr", "Lgetxattr",
       "Fgetxattr", "Listxattr", "Llistxattr", "Flistxattr", "Removexattr",
       "Lremovexattr", "Fremovexattr", "Tkill", "Time", "Futex", "SchedSetaffinity",
       "SchedGetaffinity", "SetThreadArea", "IoSetup", "IoDestroy", "IoGetevents",
       "IoSubmit", "IoCancel", "GetThreadArea", "LookupDcookie", "EpollCreate",
       "EpollCtlOld", "EpollWaitOld", "RemapFilePages", "Getdents64", "SetTidAddress",
       "RestartSyscall", "Semtimedop", "Fadvise64", "TimerCreate", "TimerSettime",
       "TimerGettime", "TimerGetoverrun", "TimerDelete", "ClockSettime", "ClockGettime",
       "ClockGetres", "ClockNanosleep", "ExitGroup", "EpollWait", "EpollCtl", "Tgkill",
       "Utimes", "Vserver", "Mbind", "SetMempolicy", "GetMempolicy", "MqOpen",
       "MqUnlink", "MqTimedsend", "MqTimedreceive", "MqNotify", "MqGetsetattr",
       "KexecLoad", "Waitid", "AddKey", "RequestKey", "Keyctl", "IoprioSet",
       "IoprioGet", "InotifyInit", "InotifyAddWatch", "InotifyRmWatch", "MigratePages",
       "Openat", "Mkdirat", "Mknodat", "Fchownat", "Futimesat", "Newfstatat",
       "Unlinkat", "Renameat", "Linkat", "Symlinkat", "Readlinkat", "Fchmodat",
       "Faccessat", "Pselect6", "Ppoll", "Unshare", "SetRobustList", "GetRobustList",
       "Splice", "Tee", "SyncFileRange", "Vmsplice", "MovePages", "Utimensat",
       "EpollPwait", "Signalfd", "TimerfdCreate", "Eventfd", "Fallocate",
       "TimerfdSettime", "TimerfdGettime", "Accept4", "Signalfd4", "Eventfd2",
       "EpollCreate1", "Dup3", "Pipe2", "InotifyInit1", "Preadv", "Pwritev",
       "RtTgsigqueueinfo">>)

Amd64IdFrom298 ==
  From(298, <<"PerfEventOpen", "Recvmmsg", "FanotifyInit", "FanotifyMark", "Prlimit64",
       "NameToHandleAt", "OpenByHandleAt", "ClockAdjtime", "Syncfs", "Sendmmsg",
       "Setns", "Getcpu", "ProcessVmReadv", "ProcessVmWritev", "Kcmp", "FinitModule",
       "SchedSetattr", "SchedGetattr", "Renameat2", "Seccomp", "Getrandom",
       "MemfdCreate", "KexecFileLoad", "Bpf", "Execveat", "Userfaultfd", "Membarrier",
       "Mlock2", "CopyFileRange", "Preadv2", "Pwritev2", "PkeyMprotect", "PkeyAlloc",
       "PkeyFree", "Statx", "IoPgetevents", "Rseq", "Uretprobe">>) @@
  From(424, <<"PidfdSendSignal", "IoUringSetup", "IoUringEnter", "IoUringRegister",
       "OpenTree", "MoveMount", "Fsopen", "Fsconfig", "Fsmount", "Fspick", "PidfdOpen",
       "Clone3", "CloseRange", "Openat2", "PidfdGetfd", "Faccessat2", "ProcessMadvise",
       "EpollPwait2", "MountSetattr", "QuotactlFd", "LandlockCreateRuleset",
       "LandlockAddRule", "LandlockRestrictSelf", "MemfdSecret", "ProcessMrelease",
       "Waitpid", "Oldfstat", "Break", "Oldstat", "Umount", "Stime", "Stty", "Gtty",
       "Nice", "Ftime", "Prof", "Signal", "Lock", "Mpx", "Ulimit", "Oldolduname",
       "Sigaction", "Sgetmask", "Ssetmask", "Sigsuspend", "Sigpending", "Oldlstat",
       "Readdir", "Profil", "Socketcall", "Olduname", "Idle", "Vm86old", "Ipc",
       "Sigreturn", "Sigprocmask", "Bdflush", "Afs_syscall", "Llseek", "OldSelect",
       "Vm86", "OldGetrlimit", "Mmap2", "Truncate64", "Ftruncate64", "Stat64",
       "Lstat64", "Fstat64", "Lchown16", "Getuid16", "Getgid16", "Geteuid16",
       "Getegid16", "Setreuid16", "Setregid16", "Getgroups16", "Setgroups16",
       "Fchown16", "Setresuid16", "Getresuid16", "Setresgid16", "Getresgid16",
       "Chown16", "Setuid16", "Setgid16", "Setfsuid16", "Setfsgid16", "Fcntl64",
       "Sendfile32", "Statfs64", "Fstatfs64", "Fadvise64_64", "ClockGettime32",
       "ClockSettime32", "ClockAdjtime64", "ClockGetresTime32", "ClockNanosleepTime32",
       "TimerGettime32", "TimerSettime32", "TimerfdGettime32", "TimerfdSettime32",
       "UtimensatTime32", "Pselect6Time32", "PpollTime32", "IoPgeteventsTime32",
       "RecvmmsgTime32", "MqTimedsendTime32", "MqTimedreceiveTime32",
       "RtSigtimedwaitTime32">>)

Amd64IdFrom533 ==
  From(533, <<"FutexTime32", "SchedRrGetInterval32">>)

Amd64Sys32From0 ==
  From(0, <<"Sys32restart_syscall", "Sys32exit", "Sys32fork", "Sys32read", "Sys32write",
       "Sys32open", "Sys32close", "Sys32waitpid", "Sys32creat", "Sys32link",
       "Sys32unlink", "Sys32execve", "Sys32chdir", "Sys32time", "Sys32mknod",
       "Sys32chmod", "Sys32lchown", "Sys32break", "Sys32oldstat", "Sys32lseek",
       "Sys32getpid", "Sys32mount", "Sys32umount", "Sys32setuid", "Sys32getuid",
       "Sys32stime", "Sys32ptrace", "Sys32alarm", "Sys32oldfstat", "Sys32pause",
       "Sys32utime", "Sys32stty", "Sys32gtty", "Sys32access", "Sys32nice", "Sys32ftime",
       "Sys32sync", "Sys32kill", "Sys32rename", "Sys32mkdir", "Sys32rmdir", "Sys32dup",
       "Sys32pipe", "Sys32times", "Sys32prof", "Sys32brk", "Sys32setgid", "Sys32getgid",
       "Sys32signal", "Sys32geteuid", "Sys32getegid", "Sys32acct", "Sys32umount2",
       "Sys32lock", "Sys32ioctl", "Sys32fcntl", "Sys32mpx", "Sys32setpgid",
       "Sys32ulimit", "Sys32oldolduname", "Sys32umask", "Sys32chroot", "Sys32ustat",
       "Sys32dup2", "Sys32getppid", "Sys32getpgrp", "Sys32setsid", "Sys32sigaction",
       "Sys32sgetmask", "Sys32ssetmask", "Sys32setreuid", "Sys32setregid",
       "Sys32sigsuspend", "Sys32sigpending", "Sys32sethostname", "Sys32setrlimit",
       "Sys32getrlimit", "Sys32getrusage", "Sys32gettimeofday", "Sys32settimeofday",
       "Sys32getgroups", "Sys32setgroups", "Sys32select", "Sys32symlink",
       "Sys32oldlstat", "Sys32readlink", "Sys32uselib", "Sys32swapon", "Sys32reboot",
       "Sys32readdir", "Sys32mmap", "Sys32munmap", "Sys32truncate", "Sys32ftruncate",
       "Sys32fchmod", "Sys32fchown", "Sys32getpriority", "Sys32setpriority",
       "Sys32profil", "Sys32statfs", "Sys32fstatfs", "Sys32ioperm", "Sys32socketcall",
       "Sys32syslog", "Sys32setitimer", "Sys32getitimer", "Sys32stat", "Sys32lstat",
       "Sys32fstat", "Sys32olduname", "Sys32iopl", "Sys32vhangup", "Sys32idle",
       "Sys32vm86old", "Sys32wait4", "Sys32swapoff", "Sys32sysinfo", "Sys32ipc",
       "Sys32fsync", "Sys32sigreturn", "Sys32clone", "Sys32setdomainname", "Sys32uname",
       "Sys32modify_ldt", "Sys32adjtimex", "Sys32mprotect", "Sys32sigprocmask",
       "Sys32create_module", "Sys32init_module", "Sys32delete_module",
       "Sys32get_kernel_syms", "Sys32quotactl", "Sys32getpgid", "Sys32fchdir",
       "Sys32bdflush", "Sys32sysfs", "Sys32personality", "Sys32afs_syscall",
       "Sys32setfsuid", "Sys32setfsgid", "Sys32_llseek", "Sys32getdents",
       "Sys32_newselect", "Sys32flock", "Sys32msync", "Sys32readv", "Sys32writev",
       "Sys32getsid", "Sys32fdatasync">>)

Amd64Sys32From149 ==
  From(149, <<"Sys32_sysctl", "Sys32mlock", "Sys32munlock", "Sys32mlockall",
       "Sys32munlockall", "Sys32sched_setparam", "Sys32sched_getparam",
       "Sys32sched_setscheduler", "Sys32sched_getscheduler", "Sys32sched_yield",
       "Sys32sched_get_priority_max", "Sys32sched_get_priority_min",
       "Sys32sched_rr_get_interval", "Sys32nanosleep", "Sys32mremap", "Sys32setresuid",
       "Sys32getresuid", "Sys32vm86", "Sys32query_module", "Sys32poll",
       "Sys32nfsservctl", "Sys32setresgid", "Sys32getresgid", "Sys32prctl",
       "Sys32rt_sigreturn", "Sys32rt_sigaction", "Sys32rt_sigprocmask",
       "Sys32rt_sigpending", "Sys32rt_sigtimedwait", "Sys32rt_sigqueueinfo",
       "Sys32rt_sigsuspend", "Sys32pread64", "Sys32pwrite64", "Sys32chown",
       "Sys32getcwd", "Sys32capget", "Sys32capset", "Sys32sigaltstack", "Sys32sendfile",
       "Sys32getpmsg", "Sys32putpmsg", "Sys32vfork", "Sys32ugetrlimit", "Sys32mmap2",
       "Sys32truncate64", "Sys32ftruncate64", "Sys32stat64", "Sys32lstat64",
       "Sys32fstat64", "Sys32lchown32", "Sys32getuid32", "Sys32getgid32",
       "Sys32geteuid32", "Sys32getegid32", "Sys32setreuid32", "Sys32setregid32",
       "Sys32getgroups32", "Sys32setgroups32", "Sys32fchown32", "Sys32setresuid32",
       "Sys32getresuid32", "Sys32setresgid32", "Sys32getresgid32", "Sys32chown32",
       "Sys32setuid32", "Sys32setgid32", "Sys32setfsuid32", "Sys32setfsgid32",
       "Sys32pivot_root", "Sys32mincore", "Sys32madvise", "Sys32getdents64",
       "Sys32fcntl64">>) @@
  From(224, <<"Sys32gettid", "Sys32readahead", "Sys32setxattr", "Sys32lsetxattr",
       "Sys32fsetxattr", "Sys32getxattr", "Sys32lgetxattr", "Sys32fgetxattr",
       "Sys32listxattr", "Sys32llistxattr", "Sys32flistxattr", "Sys32removexattr",
       "Sys32lremovexattr", "Sys32fremovexattr", "Sys32tkill", "Sys32sendfile64",
       "Sys32futex", "Sys32sched_setaffinity", "Sys32sched_getaffinity",
       "Sys32set_thread_area", "Sys32get_thread_area", "Sys32io_setup",
       "Sys32io_destroy", "Sys32io_getevents", "Sys32io_submit", "Sys32io_cancel",
       "Sys32fadvise64">>) @@
  From(252, <<"Sys32exit_group", "Sys32lookup_dcookie", "Sys32epoll_create",
       "Sys32epoll_ctl", "Sys32epoll_wait", "Sys32remap_file_pages",
       "Sys32set_tid_address", "Sys32timer_create", "Sys32timer_settime",
       "Sys32timer_gettime", "Sys32timer_getoverrun", "Sys32timer_delete",
       "Sys32clock_settime", "Sys32clock_gettime", "Sys32clock_getres",
       "Sys32clock_nanosleep", "Sys32statfs64", "Sys32fstatfs64", "Sys32tgkill",
       "Sys32utimes", "Sys32fadvise64_64", "Sys32vserver", "Sys32mbind",
       "Sys32get_mempolicy", "Sys32set_mempolicy", "Sys32mq_open", "Sys32mq_unlink",
       "Sys32mq_timedsend", "Sys32mq_timedreceive", "Sys32mq_notify",
       "Sys32mq_getsetattr", "Sys32kexec_load", "Sys32waitid">>) @@
  From(286, <<"Sys32add_key", "Sys32request_key", "Sys32keyctl", "Sys32ioprio_set",
       "Sys32ioprio_get", "Sys32inotify_init", "Sys32inotify_add_watch",
       "Sys32inotify_rm_watch", "Sys32migrate_pages", "Sys32openat", "Sys32mkdirat",
       "Sys32mknodat", "Sys32fchownat", "Sys32futimesat", "Sys32fstatat64",
       "Sys32unlinkat">>)

Amd64Sys32From302 ==
  From(302, <<"Sys32renameat", "Sys32linkat", "Sys32symlinkat", "Sys32readlinkat",
       "Sys32fchmodat", "Sys32faccessat", "Sys32pselect6", "Sys32ppoll", "Sys32unshare",
       "Sys32set_robust_list", "Sys32get_robust_list", "Sys32splice",
       "Sys32sync_file_range", "Sys32tee", "Sys32vmsplice", "Sys32move_pages",
       "Sys32getcpu", "Sys32epoll_pwait", "Sys32utimensat", "Sys32signalfd",
       "Sys32timerfd_create", "Sys32eventfd", "Sys32fallocate", "Sys32timerfd_settime",
       "Sys32timerfd_gettime", "Sys32signalfd4", "Sys32eventfd2", "Sys32epoll_create1",
       "Sys32dup3", "Sys32pipe2", "Sys32inotify_init1", "Sys32preadv", "Sys32pwritev",
       "Sys32rt_tgsigqueueinfo", "Sys32perf_event_open", "Sys32recvmmsg",
       "Sys32fanotify_init", "Sys32fanotify_mark", "Sys32prlimit64",
       "Sys32name_to_handle_at", "Sys32open_by_handle_at", "Sys32clock_adjtime",
       "Sys32syncfs", "Sys32sendmmsg", "Sys32setns", "Sys32process_vm_readv",
       "Sys32process_vm_writev", "Sys32kcmp", "Sys32finit_module", "Sys32sched_setattr",
       "Sys32sched_getattr", "Sys32renameat2", "Sys32seccomp", "Sys32getrandom",
       "Sys32memfd_create", "Sys32bpf", "Sys32execveat", "Sys32socket",
       "Sys32socketpair", "Sys32bind", "Sys32connect", "Sys32listen", "Sys32accept4",
       "Sys32getsockopt", "Sys32setsockopt", "Sys32getsockname", "Sys32getpeername",
       "Sys32sendto", "Sys32sendmsg", "Sys32recvfrom", "Sys32recvmsg", "Sys32shutdown",
       "Sys32userfaultfd", "Sys32membarrier", "Sys32mlock2", "Sys32copy_file_range",
       "Sys32preadv2", "Sys32pwritev2", "Sys32pkey_mprotect", "Sys32pkey_alloc",
       "Sys32pkey_free", "Sys32statx", "Sys32arch_prctl", "Sys32io_pgetevents",
       "Sys32rseq">>) @@
  From(393, <<"Sys32semget", "Sys32semctl", "Sys32shmget", "Sys32shmctl", "Sys32shmat",
       "Sys32shmdt", "Sys32msgget", "Sys32msgsnd", "Sys32msgrcv", "Sys32msgctl",
       "Sys32clock_gettime64", "Sys32clock_settime64", "Sys32clock_adjtime64",
       "Sys32clock_getres_time64", "Sys32clock_nanosleep_time64",
       "Sys32timer_gettime64", "Sys32timer_settime64", "Sys32timerfd_gettime64",
       "Sys32timerfd_settime64", "Sys32utimensat_time64", "Sys32pselect6_time64",
       "Sys32ppoll_time64">>) @@
  From(416, <<"Sys32io_pgetevents_time64", "Sys32recvmmsg_time64",
       "Sys32mq_timedsend_time64", "Sys32mq_timedreceive_time64",
       "Sys32semtimedop_time64", "Sys32rt_sigtimedwait_time64", "Sys32futex_time64",
       "Sys32sched_rr_get_interval_time64", "Sys32pidfd_send_signal",
       "Sys32io_uring_setup", "Sys32io_uring_enter", "Sys32io_uring_register",
       "Sys32open_tree", "Sys32move_mount", "Sys32fsopen", "Sys32fsconfig",
       "Sys32fsmount", "Sys32fspick", "Sys32pidfd_open", "Sys32clone3",
       "Sys32close_range", "Sys32openat2", "Sys32pidfd_getfd", "Sys32faccessat2",
       "Sys32process_madvise", "Sys32epoll_pwait2", "Sys32mount_setattr",
       "Sys32quotactl_fd", "Sys32landlock_create_ruleset", "Sys32landlock_add_rule",
       "Sys32landlock_restrict_self", "Sys32memfd_secret", "Sys32process_mrelease">>)

Amd64NameFrom0 ==
  From(0, <<"read", "write", "open", "close", "newstat", "newfstat", "newlstat", "poll",
       "lseek", "mmap", "mprotect", "munmap", "brk", "rt_sigaction", "rt_sigprocmask",
       "rt_sigreturn", "ioctl", "pread64", "pwrite64", "readv", "writev", "access",
       "pipe", "select", "sched_yield", "mremap", "msync", "mincore", "madvise",
       "shmget", "shmat", "shmctl", "dup", "dup2", "pause", "nanosleep", "getitimer",
       "alarm", "setitimer", "getpid", "sendfile64", "socket", "connect", "accept",
       "sendto", "recvfrom", "sendmsg", "recvmsg", "shutdown", "bind", "listen",
       "getsockname", "getpeername", "socketpair", "setsockopt", "getsockopt", "clone",
       "fork", "vfork", "execve", "exit", "wait4", "kill", "newuname", "semget",
       "semop", "semctl", "shmdt", "msgget", "msgsnd", "msgrcv", "msgctl", "fcntl",
       "flock", "fsync", "fdatasync", "truncate", "ftruncate", "getdents", "getcwd",
       "chdir", "fchdir", "rename", "mkdir", "rmdir", "creat", "link", "unlink",
       "symlink", "readlink", "chmod", "fchmod", "chown", "fchown", "lchown", "umask",
       "gettimeofday", "getrlimit", "getrusage", "sysinfo", "times", "ptrace", "getuid",
       "syslog", "getgid", "setuid", "setgid", "geteuid", "getegid", "setpgid",
       "getppid", "getpgrp", "setsid", "setreuid", "setregid", "getgroups", "setgroups",
       "setresuid", "getresuid", "setresgid", "getresgid", "getpgid", "setfsuid",
       "setfsgid", "getsid", "capget", "capset", "rt_sigpending", "rt_sigtimedwait",
       "rt_sigqueueinfo", "rt_sigsuspend", "sigaltstack", "utime", "mknod", NI,
       "personality", "ustat", "statfs", "fstatfs", "sysfs", "getpriority",
       "setpriority", "sched_setparam", "sched_getparam", "sched_setscheduler",
       "sched_getscheduler", "sched_get_priority_max", "sched_get_priority_min",
       "sched_rr_get_interval">>)

Amd64NameFrom149 ==
  From(149, <<"mlock", "munlock", "mlockall", "munlockall", "vhangup", "modify_ldt",
       "pivot_root">>) @@
  From(157, <<"prctl", "arch_prctl", "adjtimex", "setrlimit", "chroot", "sync", "acct",
       "settimeofday", "mount", "umount", "swapon", "swapoff", "reboot", "sethostname",
       "setdomainname", "iopl", "ioperm", NI, "init_module", "delete_module", NI, NI,
       "quotactl", NI, NI, NI, NI, NI, NI, "gettid", "readahead", "setxattr",
       "lsetxattr", "fsetxattr", "getxattr", "lgetxattr", "fgetxattr", "listxattr",
       "llistxattr", "flistxattr", "removexattr", "lremovexattr", "fremovexattr",
       "tkill", "time", "futex", "sched_setaffinity", "sched_getaffinity", NI,
       "io_setup", "io_destroy", "io_getevents", "io_submit", "io_cancel", NI>>) @@
  From(213, <<"epoll_create", NI, NI, "remap_file_pages", "getdents64",
       "set_tid_address", "restart_syscall", "semtimedop", "fadvise64", "timer_create",
       "timer_settime", "timer_gettime", "timer_getoverrun", "timer_delete",
       "clock_settime", "clock_gettime", "clock_getres", "clock_nanosleep",
       "exit_group", "epoll_wait", "epoll_ctl", "tgkill", "utimes", NI, "mbind",
       "set_mempolicy", "get_mempolicy", "mq_open", "mq_unlink", "mq_timedsend",
       "mq_timedreceive", "mq_notify", "mq_getsetattr", "kexec_load", "waitid",
       "add_key", "request_key", "keyctl", "ioprio_set", "ioprio_get", "inotify_init",
       "inotify_add_watch", "inotify_rm_watch", "migrate_pages", "openat", "mkdirat",
       "mknodat", "fchownat", "futimesat", "newfstatat", "unlinkat", "renameat",
       "linkat", "symlinkat", "readlinkat", "fchmodat", "faccessat", "pselect6",
       "ppoll", "unshare", "set_robust_list", "get_robust_list", "splice", "tee",
       "sync_file_range", "vmsplice", "move_pages", "utimensat", "epoll_pwait",
       "signalfd", "timerfd_create", "eventfd", "fallocate", "timerfd_settime",
       "timerfd_gettime", "accept4", "signalfd4", "eventfd2", "epoll_create1", "dup3",
       "pipe2", "inotify_init1", "preadv", "pwritev", "rt_tgsigqueueinfo">>)

Amd64NameFrom298 ==
  From(298, <<"perf_event_open", "recvmmsg", "fanotify_init", "fanotify_mark",
       "prlimit64", "name_to_handle_at", "open_by_handle_at", "clock_adjtime", "syncfs",
       "sendmmsg", "setns", "getcpu", "process_vm_readv", "process_vm_writev", "kcmp",
       "finit_module", "sched_setattr", "sched_getattr", "renameat2", "seccomp",
       "getrandom", "memfd_create", "kexec_file_load", "bpf", "execveat", "userfaultfd",
       "membarrier", "mlock2", "copy_file_range", "preadv2", "pwritev2",
       "pkey_mprotect", "pkey_alloc", "pkey_free", "statx", "io_pgetevents", "rseq">>) @@
  From(387, <<NI, NI, NI, NI, NI, NI, NI, NI, NI, NI, NI, NI, NI, NI, NI, NI>>) @@
  From(424, <<"pidfd_send_signal", "io_uring_setup", "io_uring_enter",
       "io_uring_register", "open_tree", "move_mount", "fsopen", "fsconfig", "fsmount",
       "fspick">>)

Amd64Versions ==
  (156 :> <<Below(5, 9, "sysctl"), Above(5, 9, NI)>>) @@
  (212 :> <<Below(6, 7, "lookup_dcookie")>>) @@
  (335 :> <<Below(6, 11, NI), Above(6, 11, "uretprobe")>>) @@
  (434 :> <<Above(5, 2, "pidfd_open")>>) @@
  (435 :> <<Above(5, 2, "clone3")>>) @@
  (436 :> <<Above(5, 9, "close_range")>>) @@
  (437 :> <<Above(5, 6, "openat2")>>) @@
  (438 :> <<Above(5, 6, "pidfd_getfd")>>) @@
  (439 :> <<Above(5, 8, "faccessat2")>>) @@
  (440 :> <<Above(5, 10, "process_madvise")>>) @@
  (441 :> <<Above(5, 12, "epoll_pwait2")>>) @@
  (442 :> <<Above(5, 12, "mount_setattr")>>) @@
  (443 :> <<Above(5, 14, "quotactl_fd")>>) @@
  (444 :> <<Above(5, 13, "landlock_create_ruleset")>>) @@
  (445 :> <<Above(5, 13, "landlock_add_rule")>>) @@
  (446 :> <<Above(5, 13, "landlock_restrict_self")>>) @@
  (447 :> <<Above(5, 14, "memfd_secret")>>) @@
  (448 :> <<Above(5, 15, "process_mrelease")>>) @@
  (449 :> <<Above(5, 16, "futex_waitv")>>) @@
  (450 :> <<Above(5, 17, "set_mempolicy_home_node")>>) @@
  (451 :> <<Above(6, 5, "cachestat")>>)

Arm64IdFrom0 ==
  From(0, <<"IoSetup", "IoDestroy", "IoSubmit", "IoCancel", "IoGetevents", "Setxattr",
       "Lsetxattr", "Fsetxattr", "Getxattr", "Lgetxattr", "Fgetxattr", "Listxattr",
       "Llistxattr", "Flistxattr", "Removexattr", "Lremovexattr", "Fremovexattr",
       "Getcwd", "LookupDcookie", "Eventfd2", "EpollCreate1", "EpollCtl", "EpollPwait",
       "Dup", "Dup3", "Fcntl", "InotifyInit1", "InotifyAddWatch", "InotifyRmWatch",
       "Ioctl", "IoprioSet", "IoprioGet", "Flock", "Mknodat", "Mkdirat", "Unlinkat",
       "Symlinkat", "Linkat", "Renameat", "Umount2", "Mount", "PivotRoot", "Nfsservctl",
       "Statfs", "Fstatfs", "Truncate", "Ftruncate", "Fallocate", "Faccessat", "Chdir",
       "Fchdir", "Chroot", "Fchmod", "Fchmodat", "Fchownat", "Fchown", "Openat",
       "Close", "Vhangup", "Pipe2", "Quotactl", "Getdents64", "Lseek", "Read", "Write",
       "Readv", "Writev", "Pread64", "Pwrite64", "Preadv", "Pwritev", "Sendfile",
       "Pselect6", "Ppoll", "Signalfd4", "Vmsplice", "Splice", "Tee", "Readlinkat",
       "Newfstatat", "Fstat", "Sync", "Fsync", "Fdatasync", "SyncFileRange",
       "TimerfdCreate", "TimerfdSettime", "TimerfdGettime", "Utimensat", "Acct",
       "Capget", "Capset", "Personality", "Exit", "ExitGroup", "Waitid",
       "SetTidAddress", "Unshare", "Futex", "SetRobustList", "GetRobustList",
       "Nanosleep", "Getitimer", "Setitimer", "KexecLoad", "InitModule", "DeleteModule",
       "TimerCreate", "TimerGettime", "TimerGetoverrun", "TimerSettime", "TimerDelete",
       "ClockSettime", "ClockGettime", "ClockGetres", "ClockNanosleep", "Syslog",
       "Ptrace", "SchedSetparam", "SchedSetscheduler", "SchedGetscheduler",
       "SchedGetparam", "SchedSetaffinity", "SchedGetaffinity", "SchedYield",
       "SchedGetPriorityMax", "SchedGetPriorityMin", "SchedRrGetInterval",
       "RestartSyscall", "Kill", "Tkill", "Tgkill", "Sigaltstack", "RtSigsuspend",
       "RtSigaction", "RtSigprocmask", "RtSigpending", "RtSigtimedwait",
       "RtSigqueueinfo", "RtSigreturn", "Setpriority", "Getpriority", "Reboot",
       "Setregid", "Setgid", "Setreuid", "Setuid", "Setresuid", "Getresuid">>)

Arm64IdFrom149 ==
  From(149, <<"Setresgid", "Getresgid", "Setfsuid", "Setfsgid", "Times", "Setpgid",
       "Getpgid", "Getsid", "Setsid", "Getgroups", "Setgroups", "Uname", "Sethostname",
       "Setdomainname", "Getrlimit", "Setrlimit", "Getrusage", "Umask", "Prctl",
       "Getcpu", "Gettimeofday", "Settimeofday", "Adjtimex", "Getpid", "Getppid",
       "Getuid", "Geteuid", "Getgid", "Getegid", "Gettid", "Sysinfo", "MqOpen",
       "MqUnlink", "MqTimedsend", "MqTimedreceive", "MqNotify", "MqGetsetattr",
       "Msgget", "Msgctl", "Msgrcv", "Msgsnd", "Semget", "Semctl", "Semtimedop",
       "Semop", "Shmget", "Shmctl", "Shmat", "Shmdt", "Socket", "Socketpair", "Bind",
       "Listen", "Accept", "Connect", "Getsockname", "Getpeername", "Sendto",
       "Recvfrom", "Setsockopt", "Getsockopt", "Shutdown", "Sendmsg", "Recvmsg",
       "Readahead", "Brk", "Munmap", "Mremap", "AddKey", "RequestKey", "Keyctl",
       "Clone", "Execve", "Mmap", "Fadvise64", "Swapon", "Swapoff", "Mprotect", "Msync",
       "Mlock", "Munlock", "Mlockall", "Munlockall", "Mincore", "Madvise",
       "RemapFilePages", "Mbind", "GetMempolicy", "SetMempolicy", "MigratePages",
       "MovePages", "RtTgsigqueueinfo", "PerfEventOpen", "Accept4", "Recvmmsg",
       "Sys244", "Sys245", "Sys246", "Sys247", "Sys248", "Sys249", "Sys250", "Sys251",
       "Sys252", "Sys253", "Sys254", "Sys255", "Sys256", "Sys257", "Sys258", "Sys259",
       "Wait4", "Prlimit64", "FanotifyInit", "FanotifyMark", "NameToHandleAt",
       "OpenByHandleAt", "ClockAdjtime", "Syncfs", "Setns", "Sendmmsg",
       "ProcessVmReadv", "ProcessVmWritev", "Kcmp", "FinitModule", "SchedSetattr",
       "SchedGetattr", "Renameat2", "Seccomp", "Getrandom", "MemfdCreate", "Bpf",
       "Execveat", "Userfaultfd", "Membarrier", "Mlock2", "CopyFileRange", "Preadv2",
       "Pwritev2", "PkeyMprotect", "PkeyAlloc", "PkeyFree", "Statx", "IoPgetevents",
       "Rseq", "KexecFileLoad">>) @@
  From(403, <<"ClockGettime64", "ClockSettime64", "ClockAdjtime64">>)

Arm64IdFrom406 ==
  From(406, <<"ClockGetresTime64", "ClockNanosleepTime64", "TimerGettime64",
       "TimerSettime64", "TimerfdGettime64", "TimerfdSettime64", "UtimensatTime64",
       "Pselect6Time64", "PpollTime64">>) @@
  From(416, <<"IoPgeteventsTime64", "RecvmmsgTime64", "MqTimedsendTime64",
       "MqTimedreceiveTime64", "SemtimedopTime64", "RtSigtimedwaitTime64",
       "FutexTime64", "SchedRrGetIntervalTime64", "PidfdSendSignal", "IoUringSetup",
       "IoUringEnter", "IoUringRegister", "OpenTree", "MoveMount", "Fsopen", "Fsconfig",
       "Fsmount", "Fspick", "PidfdOpen", "Clone3", "CloseRange", "Openat2",
       "PidfdGetfd", "Faccessat2", "ProcessMadvise", "EpollPwait2", "MountSetattr",
       "QuotactlFd", "LandlockCreateRuleset", "LandlockAddRule", "LandlockRestrictSelf",
       "MemfdSecret", "ProcessMrelease">>) @@
  From(9000, <<"Open", "Stat", "Lstat", "Poll", "Access", "Pipe", "Select", "Dup2",
       "Pause", "Alarm", "Fork", "Vfork", "Getdents", "Rename", "Mkdir", "Rmdir",
       "Creat", "Link", "Unlink", "Symlink", "Readlink", "Chmod", "Chown", "Lchown",
       "Getpgrp", "Utime", "Mknod", "Uselib", "Ustat", "Sysfs", "ModifyLdt", "Sysctl",
       "ArchPrctl", "Umount", "Iopl", "Ioperm", "CreateModule", "GetKernelSyms",
       "QueryModule", "Getpmsg", "Putpmsg", "Afs", "Tuxcall", "Security", "Time",
       "SetThreadArea", "GetThreadArea", "EpollCreate", "EpollCtlOld", "EpollWaitOld",
       "EpollWait", "Utimes", "Vserver", "InotifyInit", "Futimesat", "Signalfd",
       "Eventfd", "Waitpid", "Oldfstat", "Break", "Oldstat", "Stime", "Stty", "Gtty",
       "Nice", "Ftime", "Prof", "Signal", "Lock", "Mpx", "Ulimit", "Oldolduname",
       "Sigaction", "Sgetmask", "Ssetmask", "Sigsuspend", "Sigpending", "Oldlstat",
       "Readdir", "Profil", "Socketcall", "Olduname", "Idle", "Vm86old", "Ipc",
       "Sigreturn", "Sigprocmask", "Bdflush", "Afs_syscall", "Llseek", "OldSelect",
       "Vm86", "OldGetrlimit", "Mmap2", "Truncate64", "Ftruncate64", "Stat64",
       "Lstat64", "Fstat64", "Lchown16", "Getuid16", "Getgid16">>)

Arm64IdFrom9102 ==
  From(9102, <<"Geteuid16", "Getegid16", "Setreuid16", "Setregid16", "Getgroups16",
       "Setgroups16", "Fchown16", "Setresuid16", "Getresuid16", "Setresgid16",
       "Getresgid16", "Chown16", "Setuid16", "Setgid16", "Setfsuid16", "Setfsgid16",
       "Fcntl64", "Sendfile32", "Statfs64", "Fstatfs64", "Fadvise64_64",
       "ClockGettime32", "ClockSettime32", "ClockGetresTime32", "ClockNanosleepTime32",
       "TimerGettime32", "TimerSettime32", "TimerfdGettime32", "TimerfdSettime32",
       "UtimensatTime32", "Pselect6Time32", "PpollTime32", "IoPgeteventsTime32",
       "RecvmmsgTime32", "MqTimedsendTime32", "MqTimedreceiveTime32",
       "RtSigtimedwaitTime32", "FutexTime32", "SchedRrGetInterval32">>)

Arm64Sys32From0 ==
  From(0, <<"Sys32restart_syscall", "Sys32exit", "Sys32fork", "Sys32read", "Sys32write",
       "Sys32open", "Sys32close", "Sys32waitpid", "Sys32creat", "Sys32link",
       "Sys32unlink", "Sys32execve", "Sys32chdir", "Sys32time", "Sys32mknod",
       "Sys32chmod", "Sys32lchown", "Sys32break", "Sys32oldstat", "Sys32lseek",
       "Sys32getpid", "Sys32mount", "Sys32umount", "Sys32setuid", "Sys32getuid",
       "Sys32stime", "Sys32ptrace", "Sys32alarm", "Sys32oldfstat", "Sys32pause",
       "Sys32utime", "Sys32stty", "Sys32gtty", "Sys32access", "Sys32nice", "Sys32ftime",
       "Sys32sync", "Sys32kill", "Sys32rename", "Sys32mkdir", "Sys32rmdir", "Sys32dup",
       "Sys32pipe", "Sys32times", "Sys32prof", "Sys32brk", "Sys32setgid", "Sys32getgid",
       "Sys32signal", "Sys32geteuid", "Sys32getegid", "Sys32acct", "Sys32umount2",
       "Sys32lock", "Sys32ioctl", "Sys32fcntl", "Sys32mpx", "Sys32setpgid",
       "Sys32ulimit", "Sys32oldolduname", "Sys32umask", "Sys32chroot", "Sys32ustat",
       "Sys32dup2", "Sys32getppid", "Sys32getpgrp", "Sys32setsid", "Sys32sigaction",
       "Sys32sgetmask", "Sys32ssetmask", "Sys32setreuid", "Sys32setregid",
       "Sys32sigsuspend", "Sys32sigpending", "Sys32sethostname", "Sys32setrlimit",
       "Sys32getrlimit", "Sys32getrusage", "Sys32gettimeofday", "Sys32settimeofday",
       "Sys32getgroups", "Sys32setgroups", "Sys32select", "Sys32symlink",
       "Sys32oldlstat", "Sys32readlink", "Sys32uselib", "Sys32swapon", "Sys32reboot",
       "Sys32readdir", "Sys32mmap", "Sys32munmap", "Sys32truncate", "Sys32ftruncate",
       "Sys32fchmod", "Sys32fchown", "Sys32getpriority", "Sys32setpriority",
       "Sys32profil", "Sys32statfs", "Sys32fstatfs", "Sys32ioperm", "Sys32socketcall",
       "Sys32syslog", "Sys32setitimer", "Sys32getitimer", "Sys32stat", "Sys32lstat",
       "Sys32fstat", "Sys32olduname", "Sys32iopl", "Sys32vhangup", "Sys32idle",
       "Sys32syscall", "Sys32wait4", "Sys32swapoff", "Sys32sysinfo", "Sys32ipc",
       "Sys32fsync", "Sys32sigreturn", "Sys32clone", "Sys32setdomainname", "Sys32uname",
       "Sys32modify_ldt", "Sys32adjtimex", "Sys32mprotect", "Sys32sigprocmask",
       "Sys32create_module", "Sys32init_module", "Sys32delete_module",
       "Sys32get_kernel_syms", "Sys32quotactl", "Sys32getpgid", "Sys32fchdir",
       "Sys32bdflush", "Sys32sysfs", "Sys32personality", "Sys32afs_syscall",
       "Sys32setfsuid", "Sys32setfsgid", "Sys32_llseek", "Sys32getdents",
       "Sys32_newselect", "Sys32flock", "Sys32msync", "Sys32readv", "Sys32writev",
       "Sys32getsid", "Sys32fdatasync">>)

Arm64Sys32From149 ==
  From(149, <<"Sys32_sysctl", "Sys32mlock", "Sys32munlock", "Sys32mlockall",
       "Sys32munlockall", "Sys32sched_setparam", "Sys32sched_getparam",
       "Sys32sched_setscheduler", "Sys32sched_getscheduler", "Sys32sched_yield",
       "Sys32sched_get_priority_max", "Sys32sched_get_priority_min",
       "Sys32sched_rr_get_interval", "Sys32nanosleep", "Sys32mremap", "Sys32setresuid",
       "Sys32getresuid", "Sys32vm86", "Sys32query_module", "Sys32poll",
       "Sys32nfsservctl", "Sys32setresgid", "Sys32getresgid", "Sys32prctl",
       "Sys32rt_sigreturn", "Sys32rt_sigaction", "Sys32rt_sigprocmask",
       "Sys32rt_sigpending", "Sys32rt_sigtimedwait", "Sys32rt_sigqueueinfo",
       "Sys32rt_sigsuspend", "Sys32pread64", "Sys32pwrite64", "Sys32chown",
       "Sys32getcwd", "Sys32capget", "Sys32capset", "Sys32sigaltstack", "Sys32sendfile",
       "Sys32_188Res", "Sys32_189Res", "Sys32vfork", "Sys32ugetrlimit", "Sys32mmap2",
       "Sys32truncate64", "Sys32ftruncate64", "Sys32stat64", "Sys32lstat64",
       "Sys32fstat64", "Sys32lchown32", "Sys32getuid32", "Sys32getgid32",
       "Sys32geteuid32", "Sys32getegid32", "Sys32setreuid32", "Sys32setregid32",
       "Sys32getgroups32", "Sys32setgroups32", "Sys32fchown32", "Sys32setresuid32",
       "Sys32getresuid32", "Sys32setresgid32", "Sys32getresgid32", "Sys32chown32",
       "Sys32setuid32", "Sys32setgid32", "Sys32setfsuid32", "Sys32setfsgid32",
       "Sys32pivot_root", "Sys32mincore", "Sys32madvise", "Sys32getdents64",
       "Sys32fcntl64", "Sys32_222Res", "Sys32_223Res", "Sys32gettid", "Sys32readahead",
       "Sys32setxattr", "Sys32lsetxattr", "Sys32fsetxattr", "Sys32getxattr",
       "Sys32lgetxattr", "Sys32fgetxattr", "Sys32listxattr", "Sys32llistxattr",
       "Sys32flistxattr", "Sys32removexattr", "Sys32lremovexattr", "Sys32fremovexattr",
       "Sys32tkill", "Sys32sendfile64", "Sys32futex", "Sys32sched_setaffinity",
       "Sys32sched_getaffinity", "Sys32io_setup", "Sys32io_destroy",
       "Sys32io_getevents", "Sys32io_submit", "Sys32io_cancel", "Sys32exit_group",
       "Sys32lookup_dcookie", "Sys32epoll_create", "Sys32epoll_ctl", "Sys32epoll_wait",
       "Sys32remap_file_pages", "Sys32_254Res", "Sys32_255Res", "Sys32set_tid_address",
       "Sys32timer_create", "Sys32timer_settime", "Sys32timer_gettime",
       "Sys32timer_getoverrun", "Sys32timer_delete", "Sys32clock_settime",
       "Sys32clock_gettime", "Sys32clock_getres", "Sys32clock_nanosleep",
       "Sys32statfs64", "Sys32fstatfs64", "Sys32tgkill", "Sys32utimes",
       "Sys32arm_fadvise64_64", "Sys32pciconfig_iobase", "Sys32pciconfig_read",
       "Sys32pciconfig_write", "Sys32mq_open", "Sys32mq_unlink", "Sys32mq_timedsend",
       "Sys32mq_timedreceive", "Sys32mq_notify", "Sys32mq_getsetattr", "Sys32waitid",
       "Sys32socket", "Sys32bind", "Sys32connect", "Sys32listen", "Sys32accept",
       "Sys32getsockname", "Sys32getpeername", "Sys32socketpair", "Sys32send",
       "Sys32sendto", "Sys32recv", "Sys32recvfrom", "Sys32shutdown", "Sys32setsockopt",
       "Sys32getsockopt", "Sys32sendmsg", "Sys32recvmsg">>)

Arm64Sys32From298 ==
  From(298, <<"Sys32semop", "Sys32semget", "Sys32semctl", "Sys32msgsnd", "Sys32msgrcv",
       "Sys32msgget", "Sys32msgctl", "Sys32shmat", "Sys32shmdt", "Sys32shmget",
       "Sys32shmctl", "Sys32add_key", "Sys32request_key", "Sys32keyctl",
       "Sys32semtimedop", "Sys32vserver", "Sys32ioprio_set", "Sys32ioprio_get",
       "Sys32inotify_init", "Sys32inotify_add_watch", "Sys32inotify_rm_watch",
       "Sys32mbind", "Sys32get_mempolicy", "Sys32set_mempolicy", "Sys32openat",
       "Sys32mkdirat", "Sys32mknodat", "Sys32fchownat", "Sys32futimesat",
       "Sys32fstatat64", "Sys32unlinkat", "Sys32renameat", "Sys32linkat",
       "Sys32symlinkat", "Sys32readlinkat", "Sys32fchmodat", "Sys32faccessat",
       "Sys32pselect6", "Sys32ppoll", "Sys32unshare", "Sys32set_robust_list",
       "Sys32get_robust_list", "Sys32splice", "Sys32arm_sync_file_range", "Sys32tee",
       "Sys32vmsplice", "Sys32move_pages", "Sys32getcpu", "Sys32epoll_pwait",
       "Sys32kexec_load", "Sys32utimensat", "Sys32signalfd", "Sys32timerfd_create",
       "Sys32eventfd", "Sys32fallocate", "Sys32timerfd_settime", "Sys32timerfd_gettime",
       "Sys32signalfd4", "Sys32eventfd2", "Sys32epoll_create1", "Sys32dup3",
       "Sys32pipe2", "Sys32inotify_init1", "Sys32preadv", "Sys32pwritev",
       "Sys32rt_tgsigqueueinfo", "Sys32perf_event_open", "Sys32recvmmsg",
       "Sys32accept4", "Sys32fanotify_init", "Sys32fanotify_mark", "Sys32prlimit64",
       "Sys32name_to_handle_at", "Sys32open_by_handle_at", "Sys32clock_adjtime",
       "Sys32syncfs", "Sys32sendmmsg", "Sys32setns", "Sys32process_vm_readv",
       "Sys32process_vm_writev", "Sys32kcmp", "Sys32finit_module", "Sys32sched_setattr",
       "Sys32sched_getattr", "Sys32renameat2", "Sys32seccomp", "Sys32getrandom",
       "Sys32memfd_create", "Sys32bpf", "Sys32execveat", "Sys32userfaultfd",
       "Sys32membarrier", "Sys32mlock2", "Sys32copy_file_range", "Sys32preadv2",
       "Sys32pwritev2", "Sys32pkey_mprotect", "Sys32pkey_alloc", "Sys32pkey_free",
       "Sys32statx", "Sys32rseq", "Sys32io_pgetevents", "Sys32migrate_pages",
       "Sys32kexec_file_load", "Sys32_402Res", "Sys32clock_gettime64",
       "Sys32clock_settime64", "Sys32clock_adjtime64", "Sys32clock_getres_time64",
       "Sys32clock_nanosleep_time64", "Sys32timer_gettime64", "Sys32timer_settime64",
       "Sys32timerfd_gettime64", "Sys32timerfd_settime64", "Sys32utimensat_time64",
       "Sys32pselect6_time64", "Sys32ppoll_time64">>) @@
  From(416, <<"Sys32io_pgetevents_time64", "Sys32recvmmsg_time64",
       "Sys32mq_timedsend_time64", "Sys32mq_timedreceive_time64",
       "Sys32semtimedop_time64", "Sys32rt_sigtimedwait_time64", "Sys32futex_time64",
       "Sys32sched_rr_get_interval_time64", "Sys32pidfd_send_signal",
       "Sys32io_uring_setup", "Sys32io_uring_enter", "Sys32io_uring_register",
       "Sys32open_tree", "Sys32move_mount", "Sys32fsopen", "Sys32fsconfig",
       "Sys32fsmount", "Sys32fspick", "Sys32pidfd_open", "Sys32clone3",
       "Sys32close_range", "Sys32openat2", "Sys32pidfd_getfd", "Sys32faccessat2",
       "Sys32process_madvise", "Sys32epoll_pwait2", "Sys32mount_setattr",
       "Sys32quotactl_fd", "Sys32landlock_create_ruleset", "Sys32landlock_add_rule",
       "Sys32landlock_restrict_self", "Sys32memfd_secret">>)

Arm64Sys32From448 ==
  From(448, <<"Sys32process_mrelease">>)

Arm64NameFrom0 ==
  From(0, <<"io_setup", "io_destroy", "io_submit", "io_cancel", "io_getevents",
       "setxattr", "lsetxattr", "fsetxattr", "getxattr", "lgetxattr", "fgetxattr",
       "listxattr", "llistxattr", "flistxattr", "removexattr", "lremovexattr",
       "fremovexattr", "getcwd">>) @@
  From(19, <<"eventfd2", "epoll_create1", "epoll_ctl", "epoll_pwait", "dup", "dup3",
       "fcntl", "inotify_init1", "inotify_add_watch", "inotify_rm_watch", "ioctl",
       "ioprio_set", "ioprio_get", "flock", "mknodat", "mkdirat", "unlinkat",
       "symlinkat", "linkat", "renameat", "umount", "mount", "pivot_root", NI, "statfs",
       "fstatfs", "truncate", "ftruncate", "fallocate", "faccessat", "chdir", "fchdir",
       "chroot", "fchmod", "fchmodat", "fchownat", "fchown", "openat", "close",
       "vhangup", "pipe2", "quotactl", "getdents64", "lseek", "read", "write", "readv",
       "writev", "pread64", "pwrite64", "preadv", "pwritev", "sendfile64", "pselect6",
       "ppoll", "signalfd4", "vmsplice", "splice", "tee", "readlinkat", "newfstatat",
       "newfstat", "sync", "fsync", "fdatasync", "sync_file_range", "timerfd_create",
       "timerfd_settime", "timerfd_gettime", "utimensat", "acct", "capget", "capset",
       "arm64_personality", "exit", "exit_group", "waitid", "set_tid_address",
       "unshare", "futex", "set_robust_list", "get_robust_list", "nanosleep",
       "getitimer", "setitimer", "kexec_load", "init_module", "delete_module",
       "timer_create", "timer_gettime", "timer_getoverrun", "timer_settime",
       "timer_delete", "clock_settime", "clock_gettime", "clock_getres",
       "clock_nanosleep", "syslog", "ptrace", "sched_setparam", "sched_setscheduler",
       "sched_getscheduler", "sched_getparam", "sched_setaffinity", "sched_getaffinity",
       "sched_yield", "sched_get_priority_max", "sched_get_priority_min",
       "sched_rr_get_interval", "restart_syscall", "kill", "tkill", "tgkill",
       "sigaltstack", "rt_sigsuspend", "rt_sigaction", "rt_sigprocmask",
       "rt_sigpending", "rt_sigtimedwait", "rt_sigqueueinfo", "rt_sigreturn",
       "setpriority", "getpriority", "reboot", "setregid", "setgid", "setreuid",
       "setuid", "setresuid", "getresuid">>)

Arm64NameFrom149 ==
  From(149, <<"setresgid", "getresgid", "setfsuid", "setfsgid", "times", "setpgid",
       "getpgid", "getsid", "setsid", "getgroups", "setgroups", "newuname",
       "sethostname", "setdomainname", "getrlimit", "setrlimit", "getrusage", "umask",
       "prctl", "getcpu", "gettimeofday", "settimeofday", "adjtimex", "getpid",
       "getppid", "getuid", "geteuid", "getgid", "getegid", "gettid", "sysinfo",
       "mq_open", "mq_unlink", "mq_timedsend", "mq_timedreceive", "mq_notify",
       "mq_getsetattr", "msgget", "msgctl", "msgrcv", "msgsnd", "semget", "semctl",
       "semtimedop", "semop", "shmget", "shmctl", "shmat", "shmdt", "socket",
       "socketpair", "bind", "listen", "accept", "connect", "getsockname",
       "getpeername", "sendto", "recvfrom", "setsockopt", "getsockopt", "shutdown",
       "sendmsg", "recvmsg", "readahead", "brk", "munmap", "mremap", "add_key",
       "request_key", "keyctl", "clone", "execve", "mmap", "fadvise64_64", "swapon",
       "swapoff", "mprotect", "msync", "mlock", "munlock", "mlockall", "munlockall",
       "mincore", "madvise", "remap_file_pages", "mbind", "get_mempolicy",
       "set_mempolicy", "migrate_pages", "move_pages", "rt_tgsigqueueinfo",
       "perf_event_open", "accept4", "recvmmsg", NI, NI, NI, NI, NI, NI, NI, NI, NI, NI,
       NI, NI, NI, NI, NI, NI, "wait4", "prlimit64", "fanotify_init", "fanotify_mark",
       "name_to_handle_at", "open_by_handle_at", "clock_adjtime", "syncfs", "setns",
       "sendmmsg", "process_vm_readv", "process_vm_writev", "kcmp", "finit_module",
       "sched_setattr", "sched_getattr", "renameat2", "seccomp", "getrandom",
       "memfd_create", "bpf", "execveat", "userfaultfd", "membarrier", "mlock2",
       "copy_file_range", "preadv2", "pwritev2", "pkey_mprotect", "pkey_alloc",
       "pkey_free", "statx", "io_pgetevents", "rseq", "kexec_file_load", NI, NI, NI>>)

Arm64NameFrom298 ==
  From(298, <<NI, NI, NI, NI, NI, NI, NI, NI, NI, NI, NI, NI, NI, NI, NI, NI, NI, NI,
       NI, NI, NI, NI, NI, NI, NI, NI, NI, NI, NI, NI, NI, NI, NI, NI, NI, NI, NI, NI,
       NI, NI, NI, NI, NI, NI, NI, NI, NI, NI, NI, NI, NI, NI, NI, NI, NI, NI, NI, NI,
       NI, NI, NI, NI, NI, NI, NI, NI, NI, NI, NI, NI, NI, NI, NI, NI, NI, NI, NI, NI,
       NI, NI, NI, NI, NI, NI, NI, NI, NI, NI, NI, NI, NI, NI, NI, NI, NI, NI, NI, NI,
       NI, NI, NI, NI, NI, NI, NI>>) @@
  From(424, <<"pidfd_send_signal", "io_uring_setup", "io_uring_enter",
       "io_uring_register", "open_tree", "move_mount", "fsopen", "fsconfig", "fsmount",
       "fspick">>)

Arm64Versions ==
  (18 :> <<Below(6, 7, "lookup_dcookie")>>) @@
  (434 :> <<Above(5, 2, "pidfd_open")>>) @@
  (435 :> <<Above(5, 2, "clone3")>>) @@
  (436 :> <<Above(5, 9, "close_range")>>) @@
  (437 :> <<Above(5, 7, "openat2")>>) @@
  (438 :> <<Above(5, 7, "pidfd_getfd")>>) @@
  (439 :> <<Above(5, 8, "faccessat2")>>) @@
  (440 :> <<Above(5, 10, "process_madvise")>>) @@
  (441 :> <<Above(5, 11, "epoll_pwait2")>>) @@
  (442 :> <<Above(5, 12, "mount_setattr")>>) @@
  (443 :> <<Above(5, 14, "quotactl_fd")>>) @@
  (444 :> <<Above(5, 13, "landlock_create_ruleset")>>) @@
  (445 :> <<Above(5, 13, "landlock_add_rule")>>) @@
  (446 :> <<Above(5, 13, "landlock_restrict_self")>>) @@
  (447 :> <<Above(5, 14, "memfd_secret")>>) @@
  (448 :> <<Above(5, 15, "process_mrelease")>>) @@
  (449 :> <<Above(5, 16, "futex_waitv")>>) @@
  (450 :> <<Above(5, 17, "set_mempolicy_home_node")>>) @@
  (451 :> <<Above(6, 5, "cachestat")>>)

-----------------------------------------------------------------------------
Amd64Ids ==
  Amd64IdFrom0 @@ Amd64IdFrom149 @@ Amd64IdFrom298 @@ Amd64IdFrom533

Amd64Sys32s ==
  Amd64Sys32From0 @@ Amd64Sys32From149 @@ Amd64Sys32From302

Amd64Names ==
  Amd64NameFrom0 @@ Amd64NameFrom149 @@ Amd64NameFrom298

Arm64Ids ==
  Arm64IdFrom0 @@ Arm64IdFrom149 @@ Arm64IdFrom406 @@ Arm64IdFrom9102

Arm64Sys32s ==
  Arm64Sys32From0 @@ Arm64Sys32From149 @@ Arm64Sys32From298 @@ Arm64Sys32From448

Arm64Names ==
  Arm64NameFrom0 @@ Arm64NameFrom149 @@ Arm64NameFrom298

(* From the number of a syscall to the constant of its event.              *)
IdTable(arch) == IF arch = "amd64" THEN Amd64Ids ELSE Arm64Ids

Sys32Table(arch) == IF arch = "amd64" THEN Amd64Sys32s ELSE Arm64Sys32s

NameTable(arch) == IF arch = "amd64" THEN Amd64Names ELSE Arm64Names

VersionTable(arch) == IF arch = "amd64" THEN Amd64Versions ELSE Arm64Versions
=============================================================================
