--------------------------- MODULE BuiltinDetectors ---------------------------
(* The detectors Tracee is built with (src/detectors): for each one its    *)
(* id, the event it produces, the events it requires with their filters,   *)
(* and what its OnEvent tests of an event it is given.  Descriptions,      *)
(* threats and the fields of the produced events are left out.             *)
(*                                                                         *)
(* A path is the sequence of its components, the flags of an open are its  *)
(* access mode, and a header, environment, address or process name is what *)
(* the tests tell apart.  What a pattern and a test mean is said by        *)
(* Matches and Holds of DetectorEngine.  OnEvent of the detectors that     *)
(* keep state is in Correlators; here they test nothing.                   *)
EXTENDS Sequences, TLC

(* String patterns: with no star, with a star at its end, at its start.    *)
Is(path) == [kind |-> "is", path |-> path]
Under(path) == [kind |-> "under", path |-> path]
EndsWith(path) == [kind |-> "ends", path |-> path]
Has(name) == [kind |-> "has", path |-> <<name>>]
AtOrUnder(path) == [kind |-> "at", path |-> path]

MemoryPaths ==
  {AtOrUnder(<<"memfd">>), Under(<<"/", "run", "shm">>), Under(<<"/", "dev", "shm">>)}

(* What OnEvent tests.                                                     *)
Reads(type) == [test |-> "flags", type |-> type, modes |-> {"O_RDONLY", "O_RDWR"}]
Writes(type) == [test |-> "flags", type |-> type, modes |-> {"O_WRONLY", "O_RDWR"}]
Path(field, patterns) == [test |-> "path", field |-> field, patterns |-> patterns]
Value(field, type, values) ==
  [test |-> "value", field |-> field, type |-> type, values |-> values]
Exe(names) == [test |-> "exe", names |-> names]
NotExe(names) == [test |-> "not_exe", names |-> names]
EnvSets(names) == [test |-> "env", names |-> names]

-----------------------------------------------------------------------------
Requires(event, filters) == [event |-> event, started |-> FALSE, filters |-> filters]
RequiresIn(event, filters) == [event |-> event, started |-> TRUE, filters |-> filters]
NoFilter == <<>>
Given(field, patterns) == field :> patterns

On(event, tests) == [event |-> event, tests |-> tests]

Detector(id, produces, requires, on) ==
  [id |-> id, produces |-> produces, requires |-> requires, on |-> on, needs |-> {}]

WithStores(d, stores) == [d EXCEPT !.needs = stores]
-----------------------------------------------------------------------------
(* Lists of paths.  An absolute path starts with "/"; the pattern of       *)
(* var/spool/anacron is written without one.  Of the decoys, two files and *)
(* two directories stand for all.                                          *)
isDecoyPath ==
  {Is(<<"/", "root", ".npmrc">>), Is(<<"/", "root", ".env">>),
   AtOrUnder(<<"/", "root", ".ssh">>), AtOrUnder(<<"/", "root", ".aws">>)}

procMemPath == {EndsWith(<<"proc", "1", "mem">>), EndsWith(<<"proc", "self", "mem">>)}

rcdPaths ==
  {Is(<<"/", "etc", "rc.local">>)}
    \cup {Under(<<"/", "etc", d>>) :
           d \in {"rc1.d", "rc2.d", "rc3.d", "rc4.d", "rc5.d", "rc6.d", "rcs.d",
                  "init.d", "rc.d"}}

cronPaths ==
  {Is(<<"/", "etc", f>>) : f \in {"crontab", "anacrontab", "cron.deny", "cron.allow"}}
    \cup {Under(<<"/", "etc", d>>) :
           d \in {"cron.hourly", "cron.daily", "cron.weekly", "cron.monthly", "cron.d"}}
    \cup {Under(<<"/", "var", "spool", "cron", "crontabs">>),
          Under(<<"var", "spool", "anacron">>)}

sudoersPaths ==
  {Is(<<"/", "etc", "sudoers">>), Is(<<"/", "private", "etc", "sudoers">>),
   Under(<<"/", "etc", "sudoers.d">>), Under(<<"/", "private", "etc", "sudoers.d">>)}

NotMemory == [test |-> "not_path", field |-> "pathname", patterns |-> MemoryPaths]
Remote == Value("remote_addr", "sockaddr", {"inet"})

-----------------------------------------------------------------------------
DecoyFileRead ==
  Detector("TRC-004", "decoy_file_read", <<Requires("security_file_open", NoFilter)>>,
    {On("security_file_open", {Path("pathname", isDecoyPath), Reads("int32")})})

DNSExfiltration ==
  Detector("TRC-005", "dns_exfiltration", <<Requires("net_packet_dns_request", NoFilter)>>, {})

SecondStagePayloadAfterBadDomain ==
  Detector("TRC-003", "second_stage_payload_after_bad_domain",
    <<Requires("security_file_open", NoFilter), Requires("sched_process_exec", NoFilter),
      Requires("magic_write", NoFilter)>>, {})

SensitiveReadDNSExfiltration ==
  Detector("TRC-006", "sensitive_read_dns_exfiltration",
    <<Requires("security_file_open", NoFilter), Requires("net_packet_dns_request", NoFilter),
      Requires("sched_process_exec", NoFilter)>>, {})

UnpackElfChmodExecute ==
  Detector("TRC-005", "unpack_elf_chmod_execute",
    <<Requires("magic_write", NoFilter), Requires("chmod", NoFilter), Requires("fchmodat", NoFilter),
      Requires("chmod_common", NoFilter), Requires("fchmod", NoFilter),
      Requires("sched_process_exec", NoFilter)>>, {})

NonWhitelistedDomainConnection ==
  Detector("TRC-002", "non_whitelisted_domain_connection",
    <<Requires("net_packet_dns_request", NoFilter)>>, {})

AntiDebugging ==
  Detector("TRC-102", "anti_debugging",
    <<Requires("ptrace", Given("request", {0}))>>, {On("ptrace", {})})

AslrInspection ==
  Detector("TRC-109", "aslr_inspection",
    <<Requires("security_file_open",
        Given("pathname", {Is(<<"/", "proc", "sys", "kernel", "randomize_va_space">>)}))>>,
    {On("security_file_open", {Reads("int64")})})

CgroupNotifyOnReleaseModification ==
  Detector("TRC-106", "cgroup_notify_on_release",
    <<RequiresIn("security_file_open",
        Given("pathname", {EndsWith(<<"notify_on_release">>)}))>>,
    {On("security_file_open", {Writes("int32")})})

CgroupReleaseAgentModification ==
  Detector("TRC-1010", "cgroup_release_agent",
    <<RequiresIn("security_file_open", NoFilter), RequiresIn("security_inode_rename", NoFilter)>>,
    {On("security_file_open",
        {Path("pathname", {EndsWith(<<"release_agent">>)}), Writes("int32")}),
     On("security_inode_rename", {Path("new_path", {EndsWith(<<"release_agent">>)})})})

CorePatternModification ==
  Detector("TRC-1011", "core_pattern_modification",
    <<RequiresIn("security_file_open",
        Given("pathname", {EndsWith(<<"proc", "sys", "kernel", "core_pattern">>)}))>>,
    {On("security_file_open", {Writes("int32")})})

DefaultLoaderModification ==
  Detector("TRC-1012", "default_loader_mod",
    <<Requires("security_file_open",
        Given("pathname", {Under(<<"/", "lib">>), Under(<<"/", "usr", "lib">>)})),
      Requires("security_inode_rename",
        Given("new_path", {Under(<<"/", "lib">>), Under(<<"/", "usr", "lib">>)}))>>,
    {On("security_file_open", {Writes("int32"), Path("pathname", {Has("ld.so")})}),
     On("security_inode_rename", {Path("new_path", {Has("ld.so")})})})

DiskMount ==
  Detector("TRC-1014", "disk_mount",
    <<RequiresIn("security_sb_mount", Given("dev_name", {Under(<<"/", "dev">>)}))>>,
    {On("security_sb_mount", {})})

DockerAbuse ==
  Detector("TRC-1019", "docker_abuse",
    <<RequiresIn("security_file_open", Given("pathname", {EndsWith(<<"docker.sock">>)})),
      RequiresIn("security_socket_connect", NoFilter)>>,
    {On("security_file_open", {Writes("int32")}),
     On("security_socket_connect",
        {Value("remote_addr", "sockaddr", {"unix docker.sock"})})})

DroppedExecutable ==
  Detector("TRC-1022", "dropped_executable", <<RequiresIn("magic_write", NoFilter)>>,
    {On("magic_write", {Value("bytes", "[]byte", {"elf"}), NotMemory})})

DynamicCodeLoading ==
  Detector("TRC-104", "dynamic_code_loading",
    <<Requires("mem_prot_alert", Given("alert", {4}))>>, {On("mem_prot_alert", {})})

FilelessExecution ==
  Detector("TRC-105", "fileless_execution",
    <<Requires("sched_process_exec", Given("pathname", MemoryPaths))>>,
    {On("sched_process_exec", {})})

HiddenFileCreated ==
  Detector("TRC-1015", "hidden_file_created", <<Requires("magic_write", NoFilter)>>,
    {On("magic_write", {Path("pathname", {Has(".hidden")}),
                        Value("bytes", "[]byte", {"elf"})})})

HookedSeqOps ==
  WithStores(Detector("DRV-003", "hooked_seq_ops_detector",
    <<Requires("print_net_seq_ops", NoFilter), Requires("do_init_module", NoFilter)>>, {}),
    {"symbol"})

HookedSyscall ==
  WithStores(Detector("DRV-002", "hooked_syscall_detector",
    <<Requires("syscall_table_check", NoFilter), Requires("do_init_module", NoFilter)>>, {}),
    {"symbol", "syscall"})

IllegitimateShell ==
  Detector("TRC-1016", "illegitimate_shell", <<Requires("sched_process_exec", NoFilter)>>,
    {On("sched_process_exec", {Exe({"sh"}), Value("prev_comm", "string", {"nginx"})})})

K8sServiceAccountToken ==
  Detector("TRC-108", "k8s_service_account_token",
    <<RequiresIn("security_file_open", NoFilter)>>,
    {On("security_file_open",
        {NotExe({"kube-proxy"}), Reads("int32"),
         Path("pathname",
              {EndsWith(<<"secrets", "kubernetes.io", "serviceaccount", "token">>)})})})

KernelModuleLoading ==
  Detector("TRC-1017", "kernel_module_loading", <<Requires("module_load", NoFilter)>>,
    {On("module_load", {})})

K8sApiConnection ==
  WithStores(Detector("TRC-1013", "k8s_api_connection",
    <<RequiresIn("sched_process_exec", NoFilter), RequiresIn("security_socket_connect", NoFilter)>>,
    {}), {"environment"})

K8sCertificateTheftAttempt ==
  Detector("TRC-1018", "k8s_cert_theft",
    <<Requires("security_file_open",
        Given("pathname", {Under(<<"/", "etc", "kubernetes", "pki">>)})),
      Requires("security_inode_rename",
        Given("old_path", {Under(<<"/", "etc", "kubernetes", "pki">>)}))>>,
    {On("security_file_open", {NotExe({"kubelet"}), Reads("int32")}),
     On("security_inode_rename", {})})

LdPreload ==
  WithStores(Detector("TRC-107", "ld_preload",
    <<Requires("sched_process_exec", NoFilter),
      Requires("security_file_open",
        Given("pathname", {EndsWith(<<"etc", "ld.so.preload">>)})),
      Requires("security_inode_rename",
        Given("new_path", {EndsWith(<<"etc", "ld.so.preload">>)}))>>,
    {On("sched_process_exec", {EnvSets({"LD_PRELOAD", "LD_LIBRARY_PATH"})}),
     On("security_file_open", {Writes("int32")}), On("security_inode_rename", {})}),
    {"environment"})

ProcFopsHooking ==
  Detector("TRC-1020", "proc_fops_hooking", <<Requires("hooked_proc_fops", NoFilter)>>,
    {On("hooked_proc_fops",
        {Value("hooked_fops_pointers", "hooked_symbols", {"some pointers"})})})

ProcKcoreRead ==
  Detector("TRC-1021", "proc_kcore_read",
    <<RequiresIn("security_file_open",
        Given("pathname", {EndsWith(<<"proc", "kcore">>)}))>>,
    {On("security_file_open", {Reads("int64")})})

ProcMemAccess ==
  Detector("TRC-1023", "proc_mem_access", <<Requires("security_file_open", NoFilter)>>,
    {On("security_file_open", {Reads("int32"), Path("pathname", procMemPath)})})

ProcMemCodeInjection ==
  Detector("TRC-1024", "proc_mem_code_injection", <<Requires("security_file_open", NoFilter)>>,
    {On("security_file_open", {Writes("int32"), Path("pathname", procMemPath)})})

ProcessVmWriteCodeInjection ==
  Detector("TRC-1025", "process_vm_write_inject", <<Requires("process_vm_writev", NoFilter)>>,
    {On("process_vm_writev", {Value("pid", "int32", {"other"})})})

PtraceCodeInjection ==
  Detector("TRC-103", "ptrace_code_injection",
    <<Requires("ptrace", Given("request", {4, 5}))>>, {On("ptrace", {})})

RcdModification ==
  Detector("TRC-1026", "rcd_modification",
    <<Requires("security_file_open", Given("pathname", rcdPaths)),
      Requires("security_inode_rename", Given("new_path", rcdPaths)),
      Requires("sched_process_exec", NoFilter)>>,
    {On("security_file_open", {Writes("int32")}), On("security_inode_rename", {}),
     On("sched_process_exec", {Exe({"update-rc.d"})})})

SchedDebugRecon ==
  Detector("TRC-1029", "sched_debug_recon", <<RequiresIn("security_file_open", NoFilter)>>,
    {On("security_file_open",
        {Path("pathname", {Is(<<"/", "proc", "sched_debug">>),
                           Is(<<"/", "sys", "kernel", "debug", "sched", "debug">>)}),
         Reads("int32")})})

ScheduledTaskModification ==
  Detector("TRC-1027", "scheduled_task_mod",
    <<Requires("security_file_open", Given("pathname", cronPaths)),
      Requires("security_inode_rename", Given("new_path", cronPaths)),
      Requires("sched_process_exec", NoFilter)>>,
    {On("security_file_open", {Writes("int32")}), On("security_inode_rename", {}),
     On("sched_process_exec", {Exe({"crontab", "at", "batch", "launchd"})})})

StdioOverSocket ==
  Detector("TRC-101", "stdio_over_socket",
    <<Requires("security_socket_connect", NoFilter), Requires("socket_dup", NoFilter)>>,
    {On("security_socket_connect", {Value("sockfd", "int32", {0, 1, 2}), Remote}),
     On("socket_dup", {Value("newfd", "int32", {0, 1, 2}), Remote})})

SudoersModification ==
  Detector("TRC-1028", "sudoers_modification",
    <<Requires("security_file_open", Given("pathname", sudoersPaths)),
      Requires("security_inode_rename", Given("new_path", sudoersPaths))>>,
    {On("security_file_open", {Writes("int32")}), On("security_inode_rename", {})})

SyscallTableHooking ==
  Detector("TRC-1030", "syscall_hooking", <<Requires("hooked_syscall", NoFilter)>>,
    {On("hooked_syscall", {})})

SystemRequestKeyConfigModification ==
  Detector("TRC-1031", "system_request_key_mod",
    <<RequiresIn("security_file_open", Given("pathname",
        {Is(<<"/", "proc", "sys", "kernel", "sysrq">>),
         Is(<<"/", "proc", "sysrq-trigger">>)}))>>,
    {On("security_file_open", {Writes("int32")})})

(* All of them, in the order in which the files' init functions register.  *)
GetAllDetectors ==
  <<DecoyFileRead, DNSExfiltration, SecondStagePayloadAfterBadDomain,
    SensitiveReadDNSExfiltration, UnpackElfChmodExecute,
    NonWhitelistedDomainConnection, AntiDebugging, AslrInspection,
    CgroupNotifyOnReleaseModification, CgroupReleaseAgentModification,
    CorePatternModification, DefaultLoaderModification, DiskMount,
    DockerAbuse, DroppedExecutable, DynamicCodeLoading, FilelessExecution,
    HiddenFileCreated, HookedSeqOps, HookedSyscall, IllegitimateShell,
    K8sServiceAccountToken, KernelModuleLoading, K8sApiConnection,
    K8sCertificateTheftAttempt, LdPreload, ProcFopsHooking, ProcKcoreRead,
    ProcMemAccess, ProcMemCodeInjection, ProcessVmWriteCodeInjection,
    PtraceCodeInjection, RcdModification, SchedDebugRecon,
    ScheduledTaskModification, StdioOverSocket, SudoersModification,
    SyscallTableHooking, SystemRequestKeyConfigModification>>
=============================================================================
