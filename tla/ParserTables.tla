---------------------------- MODULE ParserTables ----------------------------
(* The tables src/common/parsers/data_parsers.go and its files for the two *)
(* architectures parse the arguments of events with.  Each definition      *)
(* stands for a block of constants and the list or map made of them, in    *)
(* the order of the list; a constant is its value and its string.          *)
(*                                                                         *)
(* A flag is the set of its bits, so that a mask holds a flag when the     *)
(* flag's bits are a subset of the mask's; an enumeration's value is a     *)
(* number.  Values the code takes from the unix package are Linux's.       *)
EXTENDS Integers, Sequences

Mask(bits, name) == [bits |-> bits, name |-> name]
Bit(bit, name) == Mask({bit}, name)
Num(number, name) == [number |-> number, name |-> name]

-----------------------------------------------------------------------------
cloneFlagsValues ==
  <<Bit(8, "CLONE_VM"), Bit(9, "CLONE_FS"), Bit(10, "CLONE_FILES"),
    Bit(11, "CLONE_SIGHAND"), Bit(12, "CLONE_PIDFD"), Bit(13, "CLONE_PTRACE"),
    Bit(14, "CLONE_VFORK"), Bit(15, "CLONE_PARENT"), Bit(16, "CLONE_THREAD"),
    Bit(17, "CLONE_NEWNS"), Bit(18, "CLONE_SYSVSEM"), Bit(19, "CLONE_SETTLS"),
    Bit(20, "CLONE_PARENT_SETTID"), Bit(21, "CLONE_CHILD_CLEARTID"),
    Bit(22, "CLONE_DETACHED"), Bit(23, "CLONE_UNTRACED"),
    Bit(24, "CLONE_CHILD_SETTID"), Bit(25, "CLONE_NEWCGROUP"),
    Bit(26, "CLONE_NEWUTS"), Bit(27, "CLONE_NEWIPC"), Bit(28, "CLONE_NEWUSER"),
    Bit(29, "CLONE_NEWPID"), Bit(30, "CLONE_NEWNET"), Bit(31, "CLONE_IO")>>

openAccessModes ==
  <<Mask({}, "O_RDONLY"), Bit(0, "O_WRONLY"), Bit(1, "O_RDWR")>>

openFlagsValuesAmd64 ==
  <<Bit(6, "O_CREAT"), Bit(7, "O_EXCL"), Bit(8, "O_NOCTTY"), Bit(9, "O_TRUNC"),
    Bit(10, "O_APPEND"), Bit(11, "O_NONBLOCK"), Bit(12, "O_DSYNC"),
    Mask({12, 20}, "O_SYNC"), Bit(13, "FASYNC"), Bit(14, "O_DIRECT"),
    Bit(15, "O_LARGEFILE"), Bit(16, "O_DIRECTORY"), Bit(17, "O_NOFOLLOW"),
    Bit(18, "O_NOATIME"), Bit(19, "O_CLOEXEC"), Bit(23, "O_PATH"),
    Bit(22, "O_TMPFILE")>>

openFlagsValuesArm64 ==
  <<Bit(6, "O_CREAT"), Bit(7, "O_EXCL"), Bit(8, "O_NOCTTY"), Bit(9, "O_TRUNC"),
    Bit(10, "O_APPEND"), Bit(11, "O_NONBLOCK"), Bit(12, "O_DSYNC"),
    Mask({12, 20}, "O_SYNC"), Bit(13, "FASYNC"), Bit(17, "O_LARGEFILE"),
    Bit(14, "O_DIRECTORY"), Bit(15, "O_NOFOLLOW"), Bit(16, "O_DIRECT"),
    Bit(18, "O_NOATIME"), Bit(19, "O_CLOEXEC"), Bit(23, "O_PATH"),
    Bit(22, "O_TMPFILE")>>

accessModeValues ==
  <<Bit(0, "X_OK"), Bit(1, "W_OK"), Bit(2, "R_OK")>>

faccessatFlagsValues ==
  <<Bit(9, "AT_EACCESS"), Bit(12, "AT_EMPTY_PATH"),
    Bit(8, "AT_SYMLINK_NOFOLLOW")>>

fchmodatFlagsValues ==
  <<Bit(8, "AT_SYMLINK_NOFOLLOW")>>

execveAtFlagsValues ==
  <<Bit(8, "AT_SYMLINK_NOFOLLOW"), Bit(12, "AT_EMPTY_PATH")>>

capabilityValues ==
  <<Num(0, "CAP_CHOWN"), Num(1, "CAP_DAC_OVERRIDE"),
    Num(2, "CAP_DAC_READ_SEARCH"), Num(3, "CAP_FOWNER"), Num(4, "CAP_FSETID"),
    Num(5, "CAP_KILL"), Num(6, "CAP_SETGID"), Num(7, "CAP_SETUID"),
    Num(8, "CAP_SETPCAP"), Num(9, "CAP_LINUX_IMMUTABLE"),
    Num(10, "CAP_NET_BIND_SERVICE"), Num(11, "CAP_NET_BROADCAST"),
    Num(12, "CAP_NET_ADMIN"), Num(13, "CAP_NET_RAW"), Num(14, "CAP_IPC_LOCK"),
    Num(15, "CAP_IPC_OWNER"), Num(16, "CAP_SYS_MODULE"),
    Num(17, "CAP_SYS_RAWIO"), Num(18, "CAP_SYS_CHROOT"),
    Num(19, "CAP_SYS_PTRACE"), Num(20, "CAP_SYS_PACCT"),
    Num(21, "CAP_SYS_ADMIN"), Num(22, "CAP_SYS_BOOT"), Num(23, "CAP_SYS_NICE"),
    Num(24, "CAP_SYS_RESOURCE"), Num(25, "CAP_SYS_TIME"),
    Num(26, "CAP_SYS_TTY_CONFIG"), Num(27, "CAP_MKNOD"), Num(28, "CAP_LEASE"),
    Num(29, "CAP_AUDIT_WRITE"), Num(30, "CAP_AUDIT_CONTROL"),
    Num(31, "CAP_SETFCAP"), Num(32, "CAP_MAC_OVERRIDE"),
    Num(33, "CAP_MAC_ADMIN"), Num(34, "CAP_SYSLOG"), Num(35, "CAP_WAKE_ALARM"),
    Num(36, "CAP_BLOCK_SUSPEND"), Num(37, "CAP_AUDIT_READ"),
    Num(38, "CAP_PERFMON"), Num(39, "CAP_BPF"),
    Num(40, "CAP_CHECKPOINT_RESTORE")>>

prctlOptionValues ==
  <<Num(1, "PR_SET_PDEATHSIG"), Num(2, "PR_GET_PDEATHSIG"),
    Num(3, "PR_GET_DUMPABLE"), Num(4, "PR_SET_DUMPABLE"),
    Num(5, "PR_GET_UNALIGN"), Num(6, "PR_SET_UNALIGN"),
    Num(7, "PR_GET_KEEPCAPS"), Num(8, "PR_SET_KEEPCAPS"),
    Num(9, "PR_GET_FPEMU"), Num(10, "PR_SET_FPEMU"), Num(11, "PR_GET_FPEXC"),
    Num(12, "PR_SET_FPEXC"), Num(13, "PR_GET_TIMING"), Num(14, "PR_SET_TIMING"),
    Num(15, "PR_SET_NAME"), Num(16, "PR_GET_NAME"), Num(19, "PR_GET_ENDIAN"),
    Num(20, "PR_SET_ENDIAN"), Num(21, "PR_GET_SECCOMP"),
    Num(22, "PR_SET_SECCOMP"), Num(23, "PR_CAPBSET_READ"),
    Num(24, "PR_CAPBSET_DROP"), Num(25, "PR_GET_TSC"), Num(26, "PR_SET_TSC"),
    Num(27, "PR_GET_SECUREBITS"), Num(28, "PR_SET_SECUREBITS"),
    Num(29, "PR_SET_TIMERSLACK"), Num(30, "PR_GET_TIMERSLACK"),
    Num(31, "PR_TASK_PERF_EVENTS_DISABLE"),
    Num(32, "PR_TASK_PERF_EVENTS_ENABLE"), Num(33, "PR_MCE_KILL"),
    Num(34, "PR_MCE_KILL_GET"), Num(35, "PR_SET_MM"),
    Num(1499557217, "PR_SET_PTRACER"), Num(36, "PR_SET_CHILD_SUBREAPER"),
    Num(37, "PR_GET_CHILD_SUBREAPER"), Num(38, "PR_SET_NO_NEW_PRIVS"),
    Num(39, "PR_GET_NO_NEW_PRIVS"), Num(40, "PR_GET_TID_ADDRESS"),
    Num(41, "PR_SET_THP_DISABLE"), Num(42, "PR_GET_THP_DISABLE"),
    Num(43, "PR_MPX_ENABLE_MANAGEMENT"), Num(44, "PR_MPX_DISABLE_MANAGEMENT"),
    Num(45, "PR_SET_FP_MODE"), Num(46, "PR_GET_FP_MODE"),
    Num(47, "PR_CAP_AMBIENT"), Num(50, "PR_SVE_SET_VL"),
    Num(51, "PR_SVE_GET_VL"), Num(52, "PR_GET_SPECULATION_CTRL"),
    Num(53, "PR_SET_SPECULATION_CTRL"), Num(54, "PR_PAC_RESET_KEYS"),
    Num(55, "PR_SET_TAGGED_ADDR_CTRL"), Num(56, "PR_GET_TAGGED_ADDR_CTRL"),
    Num(57, "PR_SET_IO_FLUSHER"), Num(58, "PR_GET_IO_FLUSHER"),
    Num(59, "PR_SET_SYSCALL_USER_DISPATCH"), Num(60, "PR_PAC_SET_ENABLED_KEYS"),
    Num(61, "PR_PAC_GET_ENABLED_KEYS"), Num(62, "PR_SCHED_CORE"),
    Num(63, "PR_SME_SET_VL"), Num(64, "PR_SME_GET_VL"), Num(65, "PR_SET_MDWE"),
    Num(66, "PR_GET_MDWE"), Num(1398164801, "PR_SET_VMA"),
    Num(1096112214, "PR_GET_AUXV"), Num(67, "PR_SET_MEMORY_MERGE"),
    Num(68, "PR_GET_MEMORY_MERGE")>>

bpfCmdValues ==
  <<Num(0, "BPF_MAP_CREATE"), Num(1, "BPF_MAP_LOOKUP_ELEM"),
    Num(2, "BPF_MAP_UPDATE_ELEM"), Num(3, "BPF_MAP_DELETE_ELEM"),
    Num(4, "BPF_MAP_GET_NEXT_KEY"), Num(5, "BPF_PROG_LOAD"),
    Num(6, "BPF_OBJ_PIN"), Num(7, "BPF_OBJ_GET"), Num(8, "BPF_PROG_ATTACH"),
    Num(9, "BPF_PROG_DETACH"), Num(10, "BPF_PROG_TEST_RUN"),
    Num(11, "BPF_PROG_GET_NEXT_ID"), Num(12, "BPF_MAP_GET_NEXT_ID"),
    Num(13, "BPF_PROG_GET_FD_BY_ID"), Num(14, "BPF_MAP_GET_FD_BY_ID"),
    Num(15, "BPF_OBJ_GET_INFO_BY_FD"), Num(16, "BPF_PROG_QUERY"),
    Num(17, "BPF_RAW_TRACEPOINT_OPEN"), Num(18, "BPF_BTF_LOAD"),
    Num(19, "BPF_BTF_GET_FD_BY_ID"), Num(20, "BPF_TASK_FD_QUERY"),
    Num(21, "BPF_MAP_LOOKUP_AND_DELETE_ELEM"), Num(22, "BPF_MAP_FREEZE"),
    Num(23, "BPF_BTF_GET_NEXT_ID"), Num(24, "BPF_MAP_LOOKUP_BATCH"),
    Num(25, "BPF_MAP_LOOKUP_AND_DELETE_BATCH"), Num(26, "BPF_MAP_UPDATE_BATCH"),
    Num(27, "BPF_MAP_DELETE_BATCH"), Num(28, "BPF_LINK_CREATE"),
    Num(29, "BPF_LINK_UPDATE"), Num(30, "BPF_LINK_GET_FD_BY_ID"),
    Num(31, "BPF_LINK_GET_NEXT_ID"), Num(32, "BPF_ENABLE_STATS"),
    Num(33, "BPF_ITER_CREATE"), Num(34, "BPF_LINK_DETACH"),
    Num(35, "BPF_PROG_BIND_MAP"), Num(36, "BPF_TOKEN_CREATE")>>

ptraceRequestValuesAmd64 ==
  <<Num(0, "PTRACE_TRACEME"), Num(1, "PTRACE_PEEKTEXT"),
    Num(2, "PTRACE_PEEKDATA"), Num(3, "PTRACE_PEEKUSER"),
    Num(4, "PTRACE_POKETEXT"), Num(5, "PTRACE_POKEDATA"),
    Num(6, "PTRACE_POKEUSER"), Num(7, "PTRACE_CONT"), Num(8, "PTRACE_KILL"),
    Num(9, "PTRACE_SINGLESTEP"), Num(12, "PTRACE_GETREGS"),
    Num(13, "PTRACE_SETREGS"), Num(14, "PTRACE_GETFPREGS"),
    Num(15, "PTRACE_SETFPREGS"), Num(16, "PTRACE_ATTACH"),
    Num(17, "PTRACE_DETACH"), Num(18, "PTRACE_GETFPXREGS"),
    Num(19, "PTRACE_SETFPXREGS"), Num(24, "PTRACE_SYSCALL"),
    Num(25, "PTRACE_GET_THREAD_AREA"), Num(26, "PTRACE_SET_THREAD_AREA"),
    Num(30, "PTRACE_ARCH_PRCTL"), Num(31, "PTRACE_SYSEMU"),
    Num(32, "PTRACE_SYSEMU_SINGLESTEP"), Num(33, "PTRACE_SINGLEBLOCK"),
    Num(16896, "PTRACE_SETOPTIONS"), Num(16897, "PTRACE_GETEVENTMSG"),
    Num(16898, "PTRACE_GETSIGINFO"), Num(16899, "PTRACE_SETSIGINFO"),
    Num(16900, "PTRACE_GETREGSET"), Num(16901, "PTRACE_SETREGSET"),
    Num(16902, "PTRACE_SEIZE"), Num(16903, "PTRACE_INTERRUPT"),
    Num(16904, "PTRACE_LISTEN"), Num(16905, "PTRACE_PEEKSIGINFO"),
    Num(16906, "PTRACE_GETSIGMASK"), Num(16907, "PTRACE_SETSIGMASK"),
    Num(16908, "PTRACE_SECCOMP_GET_FILTER"),
    Num(16909, "PTRACE_SECCOMP_GET_METADATA"),
    Num(16910, "PTRACE_GET_SYSCALL_INFO"),
    Num(16911, "PTRACE_GET_RSEQ_CONFIGURATION"),
    Num(16912, "PTRACE_SET_SYSCALL_USER_DISPATCH_CONFIG"),
    Num(16913, "PTRACE_GET_SYSCALL_USER_DISPATCH_CONFIG")>>

ptraceRequestValuesArm64 ==
  <<Num(0, "PTRACE_TRACEME"), Num(1, "PTRACE_PEEKTEXT"),
    Num(2, "PTRACE_PEEKDATA"), Num(3, "PTRACE_PEEKUSER"),
    Num(4, "PTRACE_POKETEXT"), Num(5, "PTRACE_POKEDATA"),
    Num(6, "PTRACE_POKEUSER"), Num(7, "PTRACE_CONT"), Num(8, "PTRACE_KILL"),
    Num(9, "PTRACE_SINGLESTEP"), Num(16, "PTRACE_ATTACH"),
    Num(17, "PTRACE_DETACH"), Num(24, "PTRACE_SYSCALL"),
    Num(31, "PTRACE_SYSEMU"), Num(32, "PTRACE_SYSEMU_SINGLESTEP"),
    Num(33, "PTRACE_PEEKMTETAGS"), Num(34, "PTRACE_POKEMTETAGS"),
    Num(16896, "PTRACE_SETOPTIONS"), Num(16897, "PTRACE_GETEVENTMSG"),
    Num(16898, "PTRACE_GETSIGINFO"), Num(16899, "PTRACE_SETSIGINFO"),
    Num(16900, "PTRACE_GETREGSET"), Num(16901, "PTRACE_SETREGSET"),
    Num(16902, "PTRACE_SEIZE"), Num(16903, "PTRACE_INTERRUPT"),
    Num(16904, "PTRACE_LISTEN"), Num(16905, "PTRACE_PEEKSIGINFO"),
    Num(16906, "PTRACE_GETSIGMASK"), Num(16907, "PTRACE_SETSIGMASK"),
    Num(16908, "PTRACE_SECCOMP_GET_FILTER"),
    Num(16909, "PTRACE_SECCOMP_GET_METADATA"),
    Num(16910, "PTRACE_GET_SYSCALL_INFO"),
    Num(16911, "PTRACE_GET_RSEQ_CONFIGURATION")>>

sysNetValues ==
  <<Num(1, "SYS_SOCKET"), Num(2, "SYS_BIND"), Num(3, "SYS_CONNECT"),
    Num(4, "SYS_LISTEN"), Num(5, "SYS_ACCEPT"), Num(6, "SYS_GETSOCKNAME"),
    Num(7, "SYS_GETPEERNAME"), Num(8, "SYS_SOCKETPAIR"), Num(9, "SYS_SEND"),
    Num(10, "SYS_RECV"), Num(11, "SYS_SENDTO"), Num(12, "SYS_RECVFROM"),
    Num(13, "SYS_SHUTDOWN"), Num(14, "SYS_SETSOCKOPT"),
    Num(15, "SYS_GETSOCKOPT"), Num(16, "SYS_SENDMSG"), Num(17, "SYS_RECVMSG"),
    Num(18, "SYS_ACCEPT4"), Num(19, "SYS_RECVMMSG"), Num(20, "SYS_SENDMMSG")>>

socketDomainValues ==
  <<Num(0, "AF_UNSPEC"), Num(1, "AF_UNIX"), Num(2, "AF_INET"),
    Num(3, "AF_AX25"), Num(4, "AF_IPX"), Num(5, "AF_APPLETALK"),
    Num(6, "AF_NETROM"), Num(7, "AF_BRIDGE"), Num(8, "AF_ATMPVC"),
    Num(9, "AF_X25"), Num(10, "AF_INET6"), Num(11, "AF_ROSE"),
    Num(12, "AF_DECnet"), Num(13, "AF_NETBEUI"), Num(14, "AF_SECURITY"),
    Num(15, "AF_KEY"), Num(16, "AF_NETLINK"), Num(17, "AF_PACKET"),
    Num(18, "AF_ASH"), Num(19, "AF_ECONET"), Num(20, "AF_ATMSVC"),
    Num(21, "AF_RDS"), Num(22, "AF_SNA"), Num(23, "AF_IRDA"),
    Num(24, "AF_PPPOX"), Num(25, "AF_WANPIPE"), Num(26, "AF_LLC"),
    Num(27, "AF_IB"), Num(28, "AF_MPLS"), Num(29, "AF_CAN"), Num(30, "AF_TIPC"),
    Num(31, "AF_BLUETOOTH"), Num(32, "AF_IUCV"), Num(33, "AF_RXRPC"),
    Num(34, "AF_ISDN"), Num(35, "AF_PHONET"), Num(36, "AF_IEEE802154"),
    Num(37, "AF_CAIF"), Num(38, "AF_ALG"), Num(39, "AF_NFC"),
    Num(40, "AF_VSOCK"), Num(41, "AF_KCM"), Num(42, "AF_QIPCRTR"),
    Num(43, "AF_SMC"), Num(44, "AF_XDP"), Num(45, "AF_MCTP")>>

socketTypeMap ==
  <<Bit(0, "SOCK_STREAM"), Bit(1, "SOCK_DGRAM"), Mask({0, 1}, "SOCK_RAW"),
    Bit(2, "SOCK_RDM"), Mask({0, 2}, "SOCK_SEQPACKET"),
    Mask({1, 2}, "SOCK_DCCP"), Mask({1, 3}, "SOCK_PACKET")>>

socketTypeFlags ==
  <<Bit(11, "SOCK_NONBLOCK"), Bit(19, "SOCK_CLOEXEC")>>

inodeTypes ==
  <<Mask({14, 15}, "S_IFSOCK"), Mask({13, 15}, "S_IFLNK"), Bit(15, "S_IFREG"),
    Mask({13, 14}, "S_IFBLK"), Bit(14, "S_IFDIR"), Bit(13, "S_IFCHR"),
    Bit(12, "S_IFIFO")>>

inodeAll ==
  <<Mask({6, 7, 8}, "S_IRWXU"), Mask({3, 4, 5}, "S_IRWXG"),
    Mask({0, 1, 2}, "S_IRWXO")>>

inodePermissions ==
  <<Bit(8, "S_IRUSR"), Bit(7, "S_IWUSR"), Bit(6, "S_IXUSR"), Bit(5, "S_IRGRP"),
    Bit(4, "S_IWGRP"), Bit(3, "S_IXGRP"), Bit(2, "S_IROTH"), Bit(1, "S_IWOTH"),
    Bit(0, "S_IXOTH")>>

mmapProtArgs ==
  <<Bit(0, "PROT_READ"), Bit(1, "PROT_WRITE"), Bit(2, "PROT_EXEC"),
    Bit(3, "PROT_SEM"), Bit(24, "PROT_GROWSDOWN"), Bit(25, "PROT_GROWSUP")>>

socketLevelMap ==
  <<Num(1, "SOL_SOCKET"), Num(265, "SOL_AAL"), Num(279, "SOL_ALG"),
    Num(264, "SOL_ATM"), Num(278, "SOL_CAIF"), Num(100, "SOL_CAN_BASE"),
    Num(101, "SOL_CAN_RAW"), Num(269, "SOL_DCCP"), Num(261, "SOL_DECNET"),
    Num(58, "SOL_ICMPV6"), Num(0, "SOL_IP"), Num(41, "SOL_IPV6"),
    Num(266, "SOL_IRDA"), Num(277, "SOL_IUCV"), Num(281, "SOL_KCM"),
    Num(268, "SOL_LLC"), Num(267, "SOL_NETBEUI"), Num(270, "SOL_NETLINK"),
    Num(280, "SOL_NFC"), Num(263, "SOL_PACKET"), Num(275, "SOL_PNPIPE"),
    Num(273, "SOL_PPPOL2TP"), Num(255, "SOL_RAW"), Num(276, "SOL_RDS"),
    Num(272, "SOL_RXRPC"), Num(6, "SOL_TCP"), Num(271, "SOL_TIPC"),
    Num(282, "SOL_TLS"), Num(262, "SOL_X25"), Num(283, "SOL_XDP"),
    Num(284, "SOL_MCTCP"), Num(285, "SOL_MCTP"), Num(286, "SOL_SMC")>>

socketOptions ==
  <<Num(1, "SO_DEBUG"), Num(2, "SO_REUSEADDR"), Num(3, "SO_TYPE"),
    Num(4, "SO_ERROR"), Num(5, "SO_DONTROUTE"), Num(6, "SO_BROADCAST"),
    Num(7, "SO_SNDBUF"), Num(8, "SO_RCVBUF"), Num(32, "SO_SNDBUFFORCE"),
    Num(33, "SO_RCVBUFFORCE"), Num(9, "SO_KEEPALIVE"), Num(10, "SO_OOBINLINE"),
    Num(11, "SO_NO_CHECK"), Num(12, "SO_PRIORITY"), Num(13, "SO_LINGER"),
    Num(14, "SO_BSDCOMPAT"), Num(15, "SO_REUSEPORT"), Num(16, "SO_PASSCRED"),
    Num(17, "SO_PEERCRED"), Num(18, "SO_RCVLOWAT"), Num(19, "SO_SNDLOWAT"),
    Num(22, "SO_SECURITY_AUTHENTICATION"),
    Num(23, "SO_SECURITY_ENCRYPTION_TRANSPORT"),
    Num(24, "SO_SECURITY_ENCRYPTION_NETWORK"), Num(25, "SO_BINDTODEVICE"),
    Num(26, "SO_ATTACH_FILTER"), Num(26, "SO_GET_FILTER"),
    Num(27, "SO_DETACH_FILTER"), Num(28, "SO_PEERNAME"),
    Num(30, "SO_ACCEPTCONN"), Num(31, "SO_PEERSEC"), Num(34, "SO_PASSSEC"),
    Num(36, "SO_MARK"), Num(38, "SO_PROTOCOL"), Num(39, "SO_DOMAIN"),
    Num(40, "SO_RXQ_OVFL"), Num(41, "SO_WIFI_STATUS"), Num(42, "SO_PEEK_OFF"),
    Num(43, "SO_NOFCS"), Num(44, "SO_LOCK_FILTER"),
    Num(45, "SO_SELECT_ERR_QUEUE"), Num(46, "SO_BUSY_POLL"),
    Num(47, "SO_MAX_PACING_RATE"), Num(48, "SO_BPF_EXTENSIONS"),
    Num(49, "SO_INCOMING_CPU"), Num(50, "SO_ATTACH_BPF"),
    Num(51, "SO_ATTACH_REUSEPORT_CBPF"), Num(52, "SO_ATTACH_REUSEPORT_EBPF"),
    Num(53, "SO_CNX_ADVICE"), Num(54, "SCM_TIMESTAMPING_OPT_STATS"),
    Num(55, "SO_MEMINFO"), Num(56, "SO_INCOMING_NAPI_ID"), Num(57, "SO_COOKIE"),
    Num(58, "SCM_TIMESTAMPING_PKTINFO"), Num(59, "SO_PEERGROUPS"),
    Num(60, "SO_ZEROCOPY"), Num(61, "SO_TXTIME"), Num(62, "SO_BINDTOIFINDEX"),
    Num(63, "SO_TIMESTAMP_NEW"), Num(64, "SO_TIMESTAMPNS_NEW"),
    Num(65, "SO_TIMESTAMPING_NEW"), Num(66, "SO_RCVTIMEO_NEW"),
    Num(67, "SO_SNDTIMEO_NEW"), Num(68, "SO_DETACH_REUSEPORT_BPF"),
    Num(69, "SO_PREFER_BUSY_POLL"), Num(70, "SO_BUSY_POLL_BUDGET"),
    Num(29, "SO_TIMESTAMP"), Num(35, "SO_TIMESTAMPNS"),
    Num(37, "SO_TIMESTAMPING"), Num(20, "SO_RCVTIMEO"), Num(21, "SO_SNDTIMEO"),
    Num(71, "SO_NETNS_COOKIE"), Num(72, "SO_BUF_LOCK"),
    Num(73, "SO_RESERVE_MEM"), Num(74, "SO_TXREHASH")>>

bpfProgTypeMap ==
  <<Num(0, "BPF_PROG_TYPE_UNSPEC"), Num(1, "BPF_PROG_TYPE_SOCKET_FILTER"),
    Num(2, "BPF_PROG_TYPE_KPROBE"), Num(3, "BPF_PROG_TYPE_SCHED_CLS"),
    Num(4, "BPF_PROG_TYPE_SCHED_ACT"), Num(5, "BPF_PROG_TYPE_TRACEPOINT"),
    Num(6, "BPF_PROG_TYPE_XDP"), Num(7, "BPF_PROG_TYPE_PERF_EVENT"),
    Num(8, "BPF_PROG_TYPE_CGROUP_SKB"), Num(9, "BPF_PROG_TYPE_CGROUP_SOCK"),
    Num(10, "BPF_PROG_TYPE_LWT_IN"), Num(11, "BPF_PROG_TYPE_LWT_OUT"),
    Num(12, "BPF_PROG_TYPE_LWT_XMIT"), Num(13, "BPF_PROG_TYPE_SOCK_OPS"),
    Num(14, "BPF_PROG_TYPE_SK_SKB"), Num(15, "BPF_PROG_TYPE_CGROUP_DEVICE"),
    Num(16, "BPF_PROG_TYPE_SK_MSG"), Num(17, "BPF_PROG_TYPE_RAW_TRACEPOINT"),
    Num(18, "BPF_PROG_TYPE_CGROUP_SOCK_ADDR"),
    Num(19, "BPF_PROG_TYPE_LWT_SEG6LOCAL"), Num(20, "BPF_PROG_TYPE_LIRC_MODE2"),
    Num(21, "BPF_PROG_TYPE_SK_REUSEPORT"),
    Num(22, "BPF_PROG_TYPE_FLOW_DISSECTOR"),
    Num(23, "BPF_PROG_TYPE_CGROUP_SYSCTL"),
    Num(24, "BPF_PROG_TYPE_RAW_TRACEPOINT_WRITABLE"),
    Num(25, "BPF_PROG_TYPE_CGROUP_SOCKOPT"), Num(26, "BPF_PROG_TYPE_TRACING"),
    Num(27, "BPF_PROG_TYPE_STRUCT_OPS"), Num(28, "BPF_PROG_TYPE_EXT"),
    Num(29, "BPF_PROG_TYPE_LSM"), Num(30, "BPF_PROG_TYPE_SK_LOOKUP"),
    Num(31, "BPF_PROG_TYPE_SYSCALL")>>

bpfFuncsFrom0 ==
  <<Num(0, "unspec"), Num(1, "map_lookup_elem"), Num(2, "map_update_elem"),
    Num(3, "map_delete_elem"), Num(4, "probe_read"), Num(5, "ktime_get_ns"),
    Num(6, "trace_printk"), Num(7, "get_prandom_u32"),
    Num(8, "get_smp_processor_id"), Num(9, "skb_store_bytes"),
    Num(10, "l3_csum_replace"), Num(11, "l4_csum_replace"),
    Num(12, "tail_call"), Num(13, "clone_redirect"),
    Num(14, "get_current_pid_tgid"), Num(15, "get_current_uid_gid"),
    Num(16, "get_current_comm"), Num(17, "get_cgroup_classid"),
    Num(18, "skb_vlan_push"), Num(19, "skb_vlan_pop"),
    Num(20, "skb_get_tunnel_key"), Num(21, "skb_set_tunnel_key"),
    Num(22, "perf_event_read"), Num(23, "redirect"), Num(24, "get_route_realm"),
    Num(25, "perf_event_output"), Num(26, "skb_load_bytes"),
    Num(27, "get_stackid"), Num(28, "csum_diff"), Num(29, "skb_get_tunnel_opt"),
    Num(30, "skb_set_tunnel_opt"), Num(31, "skb_change_proto"),
    Num(32, "skb_change_type"), Num(33, "skb_under_cgroup"),
    Num(34, "get_hash_recalc"), Num(35, "get_current_task"),
    Num(36, "probe_write_user"), Num(37, "current_task_under_cgroup"),
    Num(38, "skb_change_tail"), Num(39, "skb_pull_data"),
    Num(40, "csum_update"), Num(41, "set_hash_invalid"),
    Num(42, "get_numa_node_id"), Num(43, "skb_change_head"),
    Num(44, "xdp_adjust_head"), Num(45, "probe_read_str"),
    Num(46, "get_socket_cookie"), Num(47, "get_socket_uid"),
    Num(48, "set_hash"), Num(49, "setsockopt"), Num(50, "skb_adjust_room"),
    Num(51, "redirect_map"), Num(52, "sk_redirect_map"),
    Num(53, "sock_map_update"), Num(54, "xdp_adjust_meta"),
    Num(55, "perf_event_read_value"), Num(56, "perf_prog_read_value"),
    Num(57, "getsockopt"), Num(58, "override_return"),
    Num(59, "sock_ops_cb_flags_set"), Num(60, "msg_redirect_map"),
    Num(61, "msg_apply_bytes"), Num(62, "msg_cork_bytes"),
    Num(63, "msg_pull_data"), Num(64, "bind"), Num(65, "xdp_adjust_tail"),
    Num(66, "skb_get_xfrm_state"), Num(67, "get_stack"),
    Num(68, "skb_load_bytes_relative"), Num(69, "fib_lookup"),
    Num(70, "sock_hash_update"), Num(71, "msg_redirect_hash"),
    Num(72, "sk_redirect_hash"), Num(73, "lwt_push_encap"),
    Num(74, "lwt_seg6_store_bytes"), Num(75, "lwt_seg6_adjust_srh"),
    Num(76, "lwt_seg6_action"), Num(77, "rc_repeat"), Num(78, "rc_keydown"),
    Num(79, "skb_cgroup_id"), Num(80, "get_current_cgroup_id"),
    Num(81, "get_local_storage"), Num(82, "sk_select_reuseport"),
    Num(83, "skb_ancestor_cgroup_id"), Num(84, "sk_lookup_tcp"),
    Num(85, "sk_lookup_udp"), Num(86, "sk_release"), Num(87, "map_push_elem"),
    Num(88, "map_pop_elem"), Num(89, "map_peek_elem"), Num(90, "msg_push_data"),
    Num(91, "msg_pop_data"), Num(92, "rc_pointer_rel"), Num(93, "spin_lock"),
    Num(94, "spin_unlock"), Num(95, "sk_fullsock"), Num(96, "tcp_sock"),
    Num(97, "skb_ecn_set_ce"), Num(98, "get_listener_sock"),
    Num(99, "skc_lookup_tcp"), Num(100, "tcp_check_syncookie"),
    Num(101, "sysctl_get_name"), Num(102, "sysctl_get_current_value"),
    Num(103, "sysctl_get_new_value"), Num(104, "sysctl_set_new_value"),
    Num(105, "strtol")>>

bpfFuncsFrom106 ==
  <<Num(106, "strtoul"), Num(107, "sk_storage_get"),
    Num(108, "sk_storage_delete"), Num(109, "send_signal"),
    Num(110, "tcp_gen_syncookie"), Num(111, "skb_output"),
    Num(112, "probe_read_user"), Num(113, "probe_read_kernel"),
    Num(114, "probe_read_user_str"), Num(115, "probe_read_kernel_str"),
    Num(116, "tcp_send_ack"), Num(117, "send_signal_thread"),
    Num(118, "jiffies64"), Num(119, "read_branch_records"),
    Num(120, "get_ns_current_pid_tgid"), Num(121, "xdp_output"),
    Num(122, "get_netns_cookie"), Num(123, "get_current_ancestor_cgroup_id"),
    Num(124, "sk_assign"), Num(125, "ktime_get_boot_ns"),
    Num(126, "seq_printf"), Num(127, "seq_write"), Num(128, "sk_cgroup_id"),
    Num(129, "sk_ancestor_cgroup_id"), Num(130, "ringbuf_output"),
    Num(131, "ringbuf_reserve"), Num(132, "ringbuf_submit"),
    Num(133, "ringbuf_discard"), Num(134, "ringbuf_query"),
    Num(135, "csum_level"), Num(136, "skc_to_tcp6_sock"),
    Num(137, "skc_to_tcp_sock"), Num(138, "skc_to_tcp_timewait_sock"),
    Num(139, "skc_to_tcp_request_sock"), Num(140, "skc_to_udp6_sock"),
    Num(141, "get_task_stack"), Num(142, "load_hdr_opt"),
    Num(143, "store_hdr_opt"), Num(144, "reserve_hdr_opt"),
    Num(145, "inode_storage_get"), Num(146, "inode_storage_delete"),
    Num(147, "d_path"), Num(148, "copy_from_user"), Num(149, "snprintf_btf"),
    Num(150, "seq_printf_btf"), Num(151, "skb_cgroup_classid"),
    Num(152, "redirect_neigh"), Num(153, "per_cpu_ptr"),
    Num(154, "this_cpu_ptr"), Num(155, "redirect_peer"),
    Num(156, "task_storage_get"), Num(157, "task_storage_delete"),
    Num(158, "get_current_task_btf"), Num(159, "bprm_opts_set"),
    Num(160, "ktime_get_coarse_ns"), Num(161, "ima_inode_hash"),
    Num(162, "sock_from_file"), Num(163, "check_mtu"),
    Num(164, "for_each_map_elem"), Num(165, "snprintf"), Num(166, "sys_bpf"),
    Num(167, "btf_find_by_name_kind"), Num(168, "sys_close"),
    Num(169, "timer_init"), Num(170, "timer_set_callback"),
    Num(171, "timer_start"), Num(172, "timer_cancel"), Num(173, "get_func_ip"),
    Num(174, "get_attach_cookie"), Num(175, "task_pt_regs"),
    Num(176, "get_branch_snapshot"), Num(177, "trace_vprintk"),
    Num(178, "skc_to_unix_sock"), Num(179, "kallsyms_lookup_name"),
    Num(180, "find_vma"), Num(181, "loop"), Num(182, "strncmp"),
    Num(183, "get_func_arg"), Num(184, "get_func_ret"),
    Num(185, "get_func_arg_cnt"), Num(186, "get_retval"),
    Num(187, "set_retval"), Num(188, "xdp_get_buff_len"),
    Num(189, "xdp_load_bytes"), Num(190, "xdp_store_bytes"),
    Num(191, "copy_from_user_task"), Num(192, "skb_set_tstamp"),
    Num(193, "ima_file_hash"), Num(194, "kptr_xchg"),
    Num(195, "map_lookup_percpu_elem"), Num(196, "skc_to_mptcp_sock"),
    Num(197, "dynptr_from_mem"), Num(198, "ringbuf_reserve_dynptr"),
    Num(199, "ringbuf_submit_dynptr"), Num(200, "ringbuf_discard_dynptr"),
    Num(201, "dynptr_read"), Num(202, "dynptr_write"), Num(203, "dynptr_data"),
    Num(204, "tcp_raw_gen_syncookie_ipv4"),
    Num(205, "tcp_raw_gen_syncookie_ipv6"),
    Num(206, "tcp_raw_check_syncookie_ipv4"),
    Num(207, "tcp_raw_check_syncookie_ipv6"), Num(208, "ktime_get_tai_ns"),
    Num(209, "user_ringbuf_drain"), Num(210, "cgrp_storage_get"),
    Num(211, "cgrp_storage_delete")>>

mmapFlagMap ==
  <<Bit(0, "MAP_SHARED"), Bit(1, "MAP_PRIVATE"),
    Mask({0, 1}, "MAP_SHARED_VALIDATE"), Mask({0, 1, 2, 3}, "MAP_TYPE"),
    Bit(4, "MAP_FIXED"), Bit(5, "MAP_ANONYMOUS"), Bit(15, "MAP_POPULATE"),
    Bit(16, "MAP_NONBLOCK"), Bit(17, "MAP_STACK"), Bit(18, "MAP_HUGETLB"),
    Bit(19, "MAP_SYNC"), Bit(20, "MAP_FIXED_NOREPLACE"),
    Bit(8, "MAP_GROWSDOWN"), Bit(11, "MAP_DENYWRITE"),
    Bit(12, "MAP_EXECUTABLE"), Bit(13, "MAP_LOCKED"), Bit(14, "MAP_NORESERVE"),
    Mask({}, "MAP_FILE"), Mask({26, 28, 30}, "MAP_HUGE_2MB"),
    Mask({27, 28, 29, 30}, "MAP_HUGE_1GB"), Bit(19, "MAP_SYNC"),
    Bit(6, "MAP_32BIT")>>

namespaceTypeValues ==
  <<Bit(17, "CLONE_NEWNS"), Bit(26, "CLONE_NEWUTS"), Bit(27, "CLONE_NEWIPC"),
    Bit(28, "CLONE_NEWUSER"), Bit(29, "CLONE_NEWPID"), Bit(30, "CLONE_NEWNET"),
    Bit(25, "CLONE_NEWCGROUP")>>

ioUringSetupFlagMap ==
  <<Bit(0, "IORING_SETUP_IOPOLL"), Bit(1, "IORING_SETUP_SQPOLL"),
    Bit(2, "IORING_SETUP_SQ_AFF"), Bit(3, "IORING_SETUP_CQSIZE"),
    Bit(4, "IORING_SETUP_CLAMP"), Bit(5, "IORING_SETUP_ATTACH_WQ"),
    Bit(6, "IORING_SETUP_R_DISABLED"), Bit(7, "IORING_SETUP_SUBMIT_ALL"),
    Bit(8, "IORING_SETUP_COOP_TASKRUN"), Bit(9, "IORING_SETUP_TASKRUN_FLAG"),
    Bit(10, "IORING_SETUP_SQE128"), Bit(11, "IORING_SETUP_CQE32"),
    Bit(12, "IORING_SETUP_SINGLE_ISSUER"),
    Bit(13, "IORING_SETUP_DEFER_TASKRUN"), Bit(14, "IORING_SETUP_NO_MMAP"),
    Bit(15, "IORING_SETUP_REGISTERED_FD_ONLY")>>

ioUringOpMap ==
  <<Num(0, "IORING_OP_NOP"), Num(1, "IORING_OP_READV"),
    Num(2, "IORING_OP_WRITEV"), Num(3, "IORING_OP_FSYNC"),
    Num(4, "IORING_OP_READ_FIXED"), Num(5, "IORING_OP_WRITE_FIXED"),
    Num(6, "IORING_OP_POLL_ADD"), Num(7, "IORING_OP_POLL_REMOVE"),
    Num(8, "IORING_OP_SYNC_FILE_RANGE"), Num(9, "IORING_OP_SENDMSG"),
    Num(10, "IORING_OP_RECVMSG"), Num(11, "IORING_OP_TIMEOUT"),
    Num(12, "IORING_OP_TIMEOUT_REMOVE"), Num(13, "IORING_OP_ACCEPT"),
    Num(14, "IORING_OP_ASYNC_CANCEL"), Num(15, "IORING_OP_LINK_TIMEOUT"),
    Num(16, "IORING_OP_CONNECT"), Num(17, "IORING_OP_FALLOCATE"),
    Num(18, "IORING_OP_OPENAT"), Num(19, "IORING_OP_CLOSE"),
    Num(20, "IORING_OP_FILES_UPDATE"), Num(21, "IORING_OP_STATX"),
    Num(22, "IORING_OP_READ"), Num(23, "IORING_OP_WRITE"),
    Num(24, "IORING_OP_FADVISE"), Num(25, "IORING_OP_MADVISE"),
    Num(26, "IORING_OP_SEND"), Num(27, "IORING_OP_RECV"),
    Num(28, "IORING_OP_OPENAT2"), Num(29, "IORING_OP_EPOLL_CTL"),
    Num(30, "IORING_OP_SPLICE"), Num(31, "IORING_OP_PROVIDE_BUFFERS"),
    Num(32, "IORING_OP_REMOVE_BUFFERS"), Num(33, "IORING_OP_TEE"),
    Num(34, "IORING_OP_SHUTDOWN"), Num(35, "IORING_OP_RENAMEAT"),
    Num(36, "IORING_OP_UNLINKAT"), Num(37, "IORING_OP_MKDIRAT"),
    Num(38, "IORING_OP_SYMLINKAT"), Num(39, "IORING_OP_LINKAT"),
    Num(40, "IORING_OP_MSG_RING"), Num(41, "IORING_OP_FSETXATTR"),
    Num(42, "IORING_OP_SETXATTR"), Num(43, "IORING_OP_FGETXATTR"),
    Num(44, "IORING_OP_GETXATTR"), Num(45, "IORING_OP_SOCKET"),
    Num(46, "IORING_OP_URING_CMD"), Num(47, "IORING_OP_SEND_ZC"),
    Num(48, "IORING_OP_SENDMSG_ZC"), Num(49, "IORING_OP_LAST")>>

ioUringRequestFlagMap ==
  <<Bit(0, "REQ_F_FIXED_FILE"), Bit(1, "REQ_F_IO_DRAIN"), Bit(2, "REQ_F_LINK"),
    Bit(3, "REQ_F_HARDLINK"), Bit(4, "REQ_F_FORCE_ASYNC"),
    Bit(5, "REQ_F_BUFFER_SELECT"), Bit(6, "REQ_F_CQE_SKIP"),
    Bit(7, "REQ_F_FAIL"), Bit(8, "REQ_F_INFLIGHT"), Bit(9, "REQ_F_CUR_POS"),
    Bit(10, "REQ_F_NOWAIT"), Bit(11, "REQ_F_LINK_TIMEOUT"),
    Bit(12, "REQ_F_NEED_CLEANUP"), Bit(13, "REQ_F_POLLED"),
    Bit(14, "REQ_F_BUFFER_SELECTED"), Bit(15, "REQ_F_BUFFER_RING"),
    Bit(0, "REQ_F_REISSUE"), Bit(1, "REQ_F_SUPPORT_NOWAIT"),
    Bit(2, "REQ_F_ISREG"), Bit(3, "REQ_F_CREDS"), Bit(4, "REQ_F_REFCOUNT"),
    Bit(5, "REQ_F_ARM_LTIMEOUT"), Bit(6, "REQ_F_ASYNC_DATA"),
    Bit(7, "REQ_F_SKIP_LINK_CQES"), Bit(8, "REQ_F_SINGLE_POLL"),
    Bit(9, "REQ_F_DOUBLE_POLL"), Bit(10, "REQ_F_PARTIAL_IO"),
    Bit(11, "REQ_F_APOLL_MULTISHOT"), Bit(12, "REQ_F_CQE32_INIT"),
    Bit(13, "REQ_F_CLEAR_POLLIN"), Bit(14, "REQ_F_HASH_LOCKED")>>

GUPFlagMap ==
  <<Bit(0, "FOLL_WRITE"), Bit(1, "FOLL_GET"), Bit(2, "FOLL_DUMP"),
    Bit(3, "FOLL_FORCE"), Bit(4, "FOLL_NOWAIT"), Bit(5, "FOLL_NOFAULT"),
    Bit(6, "FOLL_HWPOISON"), Bit(7, "FOLL_ANON"), Bit(8, "FOLL_LONGTERM"),
    Bit(9, "FOLL_SPLIT_PMD"), Bit(10, "FOLL_PCI_P2PDMA"),
    Bit(11, "FOLL_INTERRUPTIBLE"), Bit(12, "FOLL_HONOR_NUMA_FAULT"),
    Bit(16, "FOLL_TOUCH"), Bit(17, "FOLL_TRIED"), Bit(18, "FOLL_REMOTE"),
    Bit(19, "FOLL_PIN"), Bit(20, "FOLL_FAST_ONLY"), Bit(21, "FOLL_UNLOCKABLE")>>

LegacyGUPFlagMap ==
  <<Bit(0, "FOLL_WRITE"), Bit(1, "FOLL_TOUCH"), Bit(2, "FOLL_GET"),
    Bit(3, "FOLL_DUMP"), Bit(4, "FOLL_FORCE"), Bit(5, "FOLL_NOWAIT"),
    Bit(6, "FOLL_POPULATE"), Bit(7, "FOLL_SPLIT"), Bit(8, "FOLL_HWPOISON"),
    Bit(9, "FOLL_NUMA"), Bit(10, "FOLL_MIGRATION"), Bit(11, "FOLL_TRIED"),
    Bit(12, "FOLL_MLOCK"), Bit(16, "FOLL_REMOTE"), Bit(17, "FOLL_COW"),
    Bit(18, "FOLL_ANON"), Bit(19, "FOLL_LONGTERM"), Bit(20, "FOLL_SPLIT_PMD"),
    Bit(21, "FOLL_PIN"), Bit(22, "FOLL_FAST_ONLY")>>

VmFlagMap ==
  <<Bit(0, "VM_READ"), Bit(1, "VM_WRITE"), Bit(2, "VM_EXEC"),
    Bit(3, "VM_SHARED"), Bit(4, "VM_MAYREAD"), Bit(5, "VM_MAYWRITE"),
    Bit(6, "VM_MAYEXEC"), Bit(7, "VM_MAYSHARE"), Bit(8, "VM_GROWSDOWN"),
    Bit(9, "VM_UFFD_MISSING"), Bit(10, "VM_PFNMAP"), Bit(12, "VM_UFFD_WP"),
    Bit(13, "VM_LOCKED"), Bit(14, "VM_IO"), Bit(15, "VM_SEQ_READ"),
    Bit(16, "VM_RAND_READ"), Bit(17, "VM_DONTCOPY"), Bit(18, "VM_DONTEXPAND"),
    Bit(19, "VM_LOCKONFAULT"), Bit(20, "VM_ACCOUNT"), Bit(21, "VM_NORESERVE"),
    Bit(22, "VM_HUGETLB"), Bit(23, "VM_SYNC"), Bit(24, "VM_PAT"),
    Bit(25, "VM_WIPEONFORK"), Bit(26, "VM_DONTDUMP"), Bit(27, "VM_SOFTDIRTY"),
    Bit(28, "VM_MIXEDMAP"), Bit(29, "VM_HUGEPAGE"), Bit(30, "VM_NOHUGEPAGE"),
    Bit(31, "VM_MERGEABLE"), Bit(32, "VM_PKEY_BIT0"), Bit(33, "VM_PKEY_BIT1"),
    Bit(34, "VM_PKEY_BIT3"), Bit(35, "VM_PKEY_BIT4"), Bit(37, "VM_UFFD_MINOR")>>

FsNotifyMaskMap ==
  <<Bit(0, "FS_ACCESS"), Bit(1, "FS_MODIFY"), Bit(2, "FS_ATTRIB"),
    Bit(3, "FS_CLOSE_WRITE"), Bit(4, "FS_CLOSE_NOWRITE"),
    Bit(5, "FS_CLOSE_OPEN"), Bit(6, "FS_MOVED_FROM"), Bit(7, "FS_MOVED_TO"),
    Bit(8, "FS_CREATE"), Bit(9, "FS_DELETE"), Bit(10, "FS_DELETE_SELF"),
    Bit(11, "FS_MOVE_SELF"), Bit(12, "FS_OPEN_EXEC"), Bit(13, "FS_UNMOUNT"),
    Bit(14, "FS_Q_OVERFLOW"), Bit(15, "FS_ERROR"), Bit(16, "FS_OPEN_PERM"),
    Bit(17, "FS_ACCESS_PERM"), Bit(18, "FS_OPEN_EXEC_PERM"),
    Bit(27, "FS_EVENT_ON_CHILD"), Bit(28, "FS_RENAME"),
    Bit(29, "FS_DN_MULTISHOT"), Bit(30, "FS_ISDIR")>>

fsNotifyObjTypeMap ==
  <<Num(0, "FSNOTIFY_OBJ_TYPE_INODE"), Num(1, "FSNOTIFY_OBJ_TYPE_VFSMOUNT"),
    Num(2, "FSNOTIFY_OBJ_TYPE_SB"), Num(3, "FSNOTIFY_OBJ_TYPE_DETACHED")>>

=============================================================================
