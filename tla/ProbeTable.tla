------------------------------ MODULE ProbeTable ------------------------------
(* The default probe group (NewDefaultProbeGroup in                        *)
(* src/pkg/ebpf/probes/probe_group.go): the type of each probe and the     *)
(* kernel function or tracepoint it is for.                                *)
EXTENDS TLC

KProbe(name) == [type |-> "kprobe", name |-> name]
KretProbe(name) == [type |-> "kretprobe", name |-> name]
RawTracepoint(name) == [type |-> "raw_tracepoint", name |-> name]
SyscallEnter(name) == [type |-> "syscall_enter", name |-> name]
SyscallExit(name) == [type |-> "syscall_exit", name |-> name]
Uprobe == [type |-> "uprobe", name |-> ""]
Cgroup == [type |-> "cgroup", name |-> ""]
Lsm == [type |-> "lsm", name |-> ""]

HandlesSysEnter ==
  [SysEnter |-> RawTracepoint("sys_enter"),
   SyscallEnter__Internal |-> RawTracepoint("sys_enter"),
   SysExit |-> RawTracepoint("sys_exit"),
   SyscallExit__Internal |-> RawTracepoint("sys_exit"),
   SchedProcessFork |-> RawTracepoint("sched_process_fork"),
   SchedProcessExec |-> RawTracepoint("sched_process_exec"),
   SchedProcessExit |-> RawTracepoint("sched_process_exit"),
   SchedProcessFree |-> RawTracepoint("sched_process_free"),
   SchedSwitch |-> RawTracepoint("sched_switch"), DoExit |-> KProbe("do_exit"),
   CapCapable |-> KProbe("cap_capable"), VfsWrite |-> KProbe("vfs_write"),
   VfsWriteRet |-> KretProbe("vfs_write"), VfsWriteV |-> KProbe("vfs_writev"),
   VfsWriteVRet |-> KretProbe("vfs_writev"), KernelWrite |-> KProbe("__kernel_write"),
   KernelWriteRet |-> KretProbe("__kernel_write"),
   VfsWriteMagic |-> KProbe("vfs_write"), VfsWriteMagicRet |-> KretProbe("vfs_write"),
   VfsWriteVMagic |-> KProbe("vfs_writev"),
   VfsWriteVMagicRet |-> KretProbe("vfs_writev"),
   KernelWriteMagic |-> KProbe("__kernel_write"),
   KernelWriteMagicRet |-> KretProbe("__kernel_write"),
   CgroupAttachTask |-> RawTracepoint("cgroup_attach_task"),
   CgroupMkdir |-> RawTracepoint("cgroup_mkdir"),
   CgroupRmdir |-> RawTracepoint("cgroup_rmdir"),
   SecurityBPRMCheck |-> KProbe("security_bprm_check"),
   SecurityFileOpen |-> KProbe("security_file_open"),
   SecurityFilePermission |-> KProbe("security_file_permission"),
   SecuritySocketCreate |-> KProbe("security_socket_create"),
   SecuritySocketListen |-> KProbe("security_socket_listen"),
   SecuritySocketConnect |-> KProbe("security_socket_connect"),
   SecuritySocketAccept |-> KProbe("security_socket_accept"),
   SecuritySocketBind |-> KProbe("security_socket_bind"),
   SecuritySocketSetsockopt |-> KProbe("security_socket_setsockopt"),
   SecuritySbMount |-> KProbe("security_sb_mount"),
   SecurityBPF |-> KProbe("security_bpf"),
   SecurityBPFMap |-> KProbe("security_bpf_map"),
   SecurityKernelReadFile |-> KProbe("security_kernel_read_file"),
   SecurityKernelPostReadFile |-> KProbe("security_kernel_post_read_file"),
   SecurityInodeMknod |-> KProbe("security_inode_mknod"),
   SecurityInodeSymlink |-> KProbe("security_inode_symlink"),
   SecurityInodeUnlink |-> KProbe("security_inode_unlink"),
   SecurityMmapAddr |-> KProbe("security_mmap_addr"),
   SecurityMmapFile |-> KProbe("security_mmap_file"), DoSplice |-> KProbe("do_splice"),
   DoSpliceRet |-> KretProbe("do_splice"), ProcCreate |-> KProbe("proc_create"),
   SecurityFileMProtect |-> KProbe("security_file_mprotect"),
   CommitCreds |-> KProbe("commit_creds"),
   SwitchTaskNS |-> KProbe("switch_task_namespaces"),
   RegisterKprobe |-> KProbe("register_kprobe"),
   RegisterKprobeRet |-> KretProbe("register_kprobe"),
   CallUsermodeHelper |-> KProbe("call_usermodehelper"),
   DebugfsCreateFile |-> KProbe("__debugfs_create_file"),
   DebugfsCreateDir |-> KProbe("debugfs_create_dir"),
   DeviceAdd |-> KProbe("device_add"), RegisterChrdev |-> KProbe("__register_chrdev"),
   RegisterChrdevRet |-> KretProbe("__register_chrdev"),
   DoInitModule |-> KProbe("do_init_module"),
   DoInitModuleRet |-> KretProbe("do_init_module"),
   LoadElfPhdrs |-> KProbe("load_elf_phdrs"), Filldir64 |-> KProbe("filldir64"),
   TaskRename |-> RawTracepoint("task_rename"), SyscallTableCheck |-> Uprobe,
   HiddenKernelModuleSeeker |-> Uprobe, HiddenKernelModuleVerifier |-> Uprobe,
   PrintNetSeqOps |-> Uprobe, PrintMemDump |-> Uprobe,
   SecurityInodeRename |-> KProbe("security_inode_rename"),
   DoSigaction |-> KProbe("do_sigaction"),
   SecurityBpfProg |-> KProbe("security_bpf_prog"),
   SecurityFileIoctl |-> KProbe("security_file_ioctl"),
   CheckHelperCall |-> KProbe("check_helper_call"),
   CheckMapFuncCompatibility |-> KProbe("check_map_func_compatibility"),
   KallsymsLookupName |-> KProbe("kallsyms_lookup_name"),
   KallsymsLookupNameRet |-> KretProbe("kallsyms_lookup_name"),
   SockAllocFile |-> KProbe("sock_alloc_file"),
   SockAllocFileRet |-> KretProbe("sock_alloc_file"),
   SecuritySkClone |-> KProbe("security_sk_clone"),
   SecuritySocketSendmsg |-> KProbe("security_socket_sendmsg"),
   SecuritySocketRecvmsg |-> KProbe("security_socket_recvmsg"),
   CgroupBPFRunFilterSKB |-> KProbe("__cgroup_bpf_run_filter_skb"),
   CgroupSKBIngress |-> Cgroup]

HandlesCgroupSKBEgress ==
  [CgroupSKBEgress |-> Cgroup, DoMmap |-> KProbe("do_mmap"),
   DoMmapRet |-> KretProbe("do_mmap"), VfsRead |-> KProbe("vfs_read"),
   VfsReadRet |-> KretProbe("vfs_read"), VfsReadV |-> KProbe("vfs_readv"),
   VfsReadVRet |-> KretProbe("vfs_readv"), VfsUtimes |-> KProbe("vfs_utimes"),
   UtimesCommon |-> KProbe("utimes_common"), DoTruncate |-> KProbe("do_truncate"),
   FileUpdateTime |-> KProbe("file_update_time"),
   FileUpdateTimeRet |-> KretProbe("file_update_time"),
   FileModified |-> KProbe("file_modified"),
   FileModifiedRet |-> KretProbe("file_modified"), FdInstall |-> KProbe("fd_install"),
   FilpClose |-> KProbe("filp_close"),
   InotifyFindInode |-> KProbe("inotify_find_inode"),
   InotifyFindInodeRet |-> KretProbe("inotify_find_inode"),
   BpfCheck |-> KProbe("bpf_check"), ExecBinprm |-> KProbe("exec_binprm"),
   SecurityPathNotify |-> KProbe("security_path_notify"),
   SecurityBprmCredsForExec |-> KProbe("security_bprm_creds_for_exec"),
   SetFsPwd |-> KProbe("set_fs_pwd"),
   TpProbeRegPrioMayExist |-> KProbe("tracepoint_probe_register_prio_may_exist"),
   ModuleLoad |-> RawTracepoint("module_load"),
   ModuleFree |-> RawTracepoint("module_free"),
   SignalCgroupMkdir |-> RawTracepoint("cgroup_mkdir"),
   SignalCgroupRmdir |-> RawTracepoint("cgroup_rmdir"),
   SignalSchedProcessFork |-> RawTracepoint("sched_process_fork"),
   SignalSchedProcessExec |-> RawTracepoint("sched_process_exec"),
   SignalSchedProcessExit |-> RawTracepoint("sched_process_exit"),
   SignalHeartbeat |-> Uprobe, ExecuteFinishedX86 |-> KretProbe("__x64_sys_execve"),
   ExecuteAtFinishedX86 |-> KretProbe("__x64_sys_execveat"),
   ExecuteFinishedCompatX86 |-> KretProbe("__ia32_compat_sys_execve"),
   ExecuteAtFinishedCompatX86 |-> KretProbe("__ia32_compat_sys_execveat"),
   ExecuteFinishedARM |-> KretProbe("__arm64_sys_execve"),
   ExecuteAtFinishedARM |-> KretProbe("__arm64_sys_execveat"),
   ExecuteFinishedCompatARM |-> KretProbe("__arm64_compat_sys_execve"),
   ExecuteAtFinishedCompatARM |-> KretProbe("__arm64_compat_sys_execveat"),
   SecurityTaskSetrlimit |-> KProbe("security_task_setrlimit"),
   SecuritySettime64 |-> KProbe("security_settime64"),
   Ptrace |-> SyscallEnter("ptrace"), PtraceRet |-> SyscallExit("ptrace"),
   ProcessVmWritev |-> SyscallEnter("process_vm_writev"),
   ProcessVmWritevRet |-> SyscallExit("process_vm_writev"),
   ArchPrctl |-> SyscallEnter("arch_prctl"),
   ArchPrctlRet |-> SyscallExit("arch_prctl"), Dup |-> SyscallEnter("dup"),
   DupRet |-> SyscallExit("dup"), Dup2 |-> SyscallEnter("dup2"),
   Dup2Ret |-> SyscallExit("dup2"), Dup3 |-> SyscallEnter("dup3"),
   Dup3Ret |-> SyscallExit("dup3"), ChmodCommon |-> KProbe("chmod_common"),
   SecuritySbUmount |-> KProbe("security_sb_umount"),
   SecurityTaskPrctl |-> KProbe("security_task_prctl"),
   TestUnavailableHook |-> KProbe("non_existing_func"),
   ExecTest |-> RawTracepoint("sched_process_exec"),
   EmptyKprobe |-> KProbe("security_bprm_check"),
   IncompatibleProbe |-> KProbe("security_bprm_check"), LsmTest |-> Lsm,
   FeaturesFallbackArena |-> Uprobe, FeaturesFallbackHelper |-> Uprobe,
   FeaturesFallbackMinimal |-> Uprobe]

DefaultProbes == HandlesSysEnter @@ HandlesCgroupSKBEgress

GetProbeType(h) == DefaultProbes[h].type

IsSyscallProbe(h) == GetProbeType(h) \in {"syscall_enter", "syscall_exit"}
IsKprobe(h) == GetProbeType(h) \in {"kprobe", "kretprobe"}
=============================================================================
