---------------------------- MODULE DaemonStart ----------------------------
(***************************************************************************)
(* How a daemon starts (argusd/src/main.rs, janusd/src/main.rs): it checks *)
(* its environment (common/src/environment.rs), its capabilities           *)
(* (common/src/capabilities.rs) and its limits (common/src/                *)
(* resource_limits.rs), chooses eBPF or the traditional mode (common/src/  *)
(* ebpf_support.rs), makes the service and serves.  A check that fails, or *)
(* an arithmetic overflow, ends the process, and the kubelet starts it     *)
(* again.  In eBPF mode the programs are loaded by the first request, and  *)
(* the loader tests the kernel once more (common/src/ebpf/mod.rs).         *)
(***************************************************************************)
EXTENDS Naturals, FiniteSets

CONSTANTS
    Kernels,         \* versions <<major, minor>>, <<>> unreadable
    FdLimits,        \* soft limits of open files
    Configured,      \* values of --max-watches and --max-guards
    Margin,          \* FD_SAFETY_MARGIN, per daemon
    PerGuard,        \* descriptors per guard: 100 in the code
    WordLimit        \* 2^64 in the code

VARIABLES
    daemon,          \* "argusd" or "janusd"
    config,          \* --mode, the session limit, the ebpf feature
    hostIs,          \* the node and the container the daemon runs in
    step,            \* the next step of main, "serving" or "exited"
    mode,            \* RuntimeMode, "none" before it is chosen
    audit,           \* janusd's audit logger
    loaded           \* the eBPF programs: "no", "yes", "failed"

vars == <<daemon, config, hostIs, step, mode, audit, loaded>>

Caps == {"SysAdmin", "SysPtrace", "Bpf", "Perfmon"}

ArgusdCaps == {"SysPtrace"}
ArgusdCapsEbpf == {"SysPtrace", "Bpf", "Perfmon"}
JanusdCaps == {"SysAdmin", "SysPtrace"}
JanusdCapsEbpf == {"SysAdmin", "SysPtrace", "Bpf", "Perfmon"}

\* check_required: capabilities that cannot be read count as missing.
CheckRequired(caps) == caps \subseteq hostIs.caps

\* check_kernel_version: an unreadable version is too old.
CheckKernelVersion(major, minor) ==
    /\ hostIs.kernel # <<>>
    /\ \/ hostIs.kernel[1] > major
       \/ hostIs.kernel[1] = major /\ hostIs.kernel[2] >= minor

\* is_bpf_lsm_enabled; a list that cannot be read has no bpf in it.
IsBpfLsmEnabled == "bpf" \in hostIs.lsm

\* ebpf::is_ebpf_supported, the loader's test, leaves the LSM to attaching.
LoaderSupported == CheckKernelVersion(5, 7) /\ hostIs.btf

\* ebpf_support::is_ebpf_supported, main's test.
IsEbpfSupported == CheckKernelVersion(5, 7) /\ hostIs.btf /\ IsBpfLsmEnabled

Configs == [mode : {"ebpf", "traditional", "auto"}, max : Configured, ebpf : BOOLEAN]
Hosts == [proc : BOOLEAN, kernel : Kernels, btf : BOOLEAN, lsm : {{}, {"bpf"}},
          caps : SUBSET Caps, fds : FdLimits]

Init ==
    /\ daemon \in {"argusd", "janusd"}
    /\ config \in Configs
    /\ hostIs \in Hosts
    /\ step = "environment"
    /\ mode = "none" /\ audit = "none" /\ loaded = "no"

-----------------------------------------------------------------------------
(* The steps of main                                                         *)

At(s) == step = s /\ UNCHANGED <<daemon, config, hostIs>>
PassTo(ok, s) == step' = (IF ok THEN s ELSE "exited") /\ UNCHANGED <<mode, audit, loaded>>

\* validate_for_feature: inotify and fanotify are taken to be there.
ValidateForFeature(feature) == feature = "ProcAccess" => hostIs.proc

ArgusdEnvironment == ValidateForFeature("Inotify") /\ ValidateForFeature("ProcAccess")
JanusdEnvironment == ValidateForFeature("Fanotify") /\ ValidateForFeature("ProcAccess")

\* validate_environment.
ValidateEnvironment ==
    /\ At("environment")
    /\ PassTo(IF daemon = "argusd" THEN ArgusdEnvironment ELSE JanusdEnvironment, "capabilities")

\* validate_capabilities.
ValidateCapabilities ==
    /\ At("capabilities")
    /\ PassTo(CheckRequired(IF daemon = "argusd" THEN ArgusdCaps ELSE JanusdCaps), "limits")

\* The descriptors the two daemons ask for.
ArgusdFds == config.max
JanusdFds == config.max * PerGuard
RequiredFds == IF daemon = "argusd" THEN ArgusdFds ELSE JanusdFds

\* check_fd_limit: the sum saturates.
CheckFdLimit(required) ==
    LET sum == required + Margin[daemon]
        total == IF sum >= WordLimit THEN WordLimit - 1 ELSE sum
    IN hostIs.fds >= total

ValidateResourceLimitsWrapping ==
    At("limits") /\ PassTo(CheckFdLimit(RequiredFds % WordLimit), "mode")

\* validate_resource_limits: the product is checked for overflow (a panic);
\* the limits of inotify and fanotify only warn.
ValidateResourceLimits ==
    At("limits") /\ PassTo(RequiredFds < WordLimit /\ CheckFdLimit(RequiredFds), "mode")

ArgusdDetectsAsLoader ==
    /\ config.ebpf /\ config.mode # "traditional"
    /\ LoaderSupported /\ CheckRequired(ArgusdCapsEbpf)

\* detect_runtime_mode of the two daemons: "ebpf" and "auto" ask for the same.
ArgusdDetectsEbpf ==
    /\ config.ebpf /\ config.mode # "traditional"
    /\ IsEbpfSupported /\ CheckRequired(ArgusdCapsEbpf)

JanusdDetectsEbpf ==
    /\ config.ebpf /\ config.mode # "traditional"
    /\ IsEbpfSupported /\ CheckRequired(JanusdCapsEbpf)

DetectRuntimeMode ==
    LET ebpf == IF daemon = "argusd" THEN ArgusdDetectsEbpf ELSE JanusdDetectsEbpf
    IN /\ At("mode")
       /\ mode' = IF ebpf THEN "ebpf" ELSE "traditional"
       /\ step' = "audit"
       /\ UNCHANGED <<audit, loaded>>

\* create_audit_logger, of janusd only: netlink, or nothing if the socket
\* cannot be had.
CreateAuditLogger ==
    /\ At("audit")
    /\ audit' \in (IF daemon = "janusd" THEN {"netlink", "null"} ELSE {"none"})
    /\ step' = "serve"
    /\ UNCHANGED <<mode, loaded>>

\* The service is made, the health service says serving, the port is bound,
\* or is in use.
Serve == At("serve") /\ \E free \in BOOLEAN : PassTo(free, "serving")

\* The first request: load and attach.
LoadPrograms ==
    /\ At("serving") /\ mode = "ebpf" /\ loaded # "yes"
    /\ loaded' = IF LoaderSupported /\ IsBpfLsmEnabled /\ {"Bpf", "Perfmon"} \subseteq hostIs.caps
                 THEN "yes" ELSE "failed"
    /\ UNCHANGED <<step, mode, audit>>

Crash == At("serving") /\ PassTo(FALSE, "exited")

Restart ==
    /\ At("exited")
    /\ step' = "environment"
    /\ mode' = "none" /\ audit' = "none" /\ loaded' = "no"

Next ==
    \/ ValidateEnvironment \/ ValidateCapabilities \/ ValidateResourceLimits
    \/ DetectRuntimeMode \/ CreateAuditLogger \/ Serve \/ LoadPrograms \/ Crash \/ Restart

Spec == Init /\ [][Next]_vars

-----------------------------------------------------------------------------
(* Properties                                                                *)

TypeOK ==
    /\ step \in {"environment", "capabilities", "limits", "mode", "audit", "serve", "serving",
                 "exited"}
    /\ mode \in {"none", "ebpf", "traditional"}
    /\ audit \in {"none", "netlink", "null"}
    /\ loaded \in {"no", "yes", "failed"}
    /\ step = "serving" => mode # "none" /\ (audit = "none" <=> daemon = "argusd")

\* A daemon that chose eBPF can load its programs on the first request: the
\* two tests of the kernel and the two of the capabilities agree in the
\* direction that matters, there being no way back to the traditional mode.
EbpfLoads == loaded # "failed"

\* A daemon that serves has open files enough for all the sessions it is
\* configured for, whatever the numbers: neither the product nor the sum of
\* the test goes wrong at the end of the word, where the largest limit is
\* RLIM_INFINITY and means none.
FilesSuffice ==
    step = "serving" =>
        \/ hostIs.fds = WordLimit - 1
        \/ hostIs.fds >= RequiredFds + Margin[daemon]
=============================================================================
