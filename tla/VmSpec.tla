-------------------------------- MODULE VmSpec ---------------------------------
(***************************************************************************)
(* containment/vmspec.py: the declarative description of one contained     *)
(* execution and the validator in front of it; and the machine config that *)
(* containment/backend.py builds from a validated description.             *)
(*                                                                         *)
(* Paths and run ids are opaque; kernel_args is the set of its words, for  *)
(* the validator looks for whole words only.                               *)
(***************************************************************************)
EXTENDS Naturals

CONSTANT RunIds                \* the run ids _RUN_ID_RE matches

MAX_RUNTIME_SECONDS == 3600
MAX_VCPUS == 8
MAX_MEM_MIB == 16384

BannedArgs == {"init=/bin/sh", "rw", "single"}

\* DiskSpec.__post_init__: no other disk can be constructed.
DiskSpecs(paths) ==
    {disk \in [path : paths, read_only : BOOLEAN, is_ephemeral_overlay : BOOLEAN] :
        disk.read_only \/ disk.is_ephemeral_overlay}

validate_AnyOverlay(spec) ==
    /\ ~spec.allow_network_device /\ ~spec.allow_host_filesystem_share
    /\ ~spec.allow_persistent_state
    /\ spec.run_id \in RunIds
    /\ spec.rootfs.read_only /\ ~spec.rootfs.is_ephemeral_overlay
    /\ spec.overlay.is_ephemeral_overlay /\ ~spec.overlay.read_only
    /\ spec.vcpus \in 1..MAX_VCPUS
    /\ spec.mem_mib \in 128..MAX_MEM_MIB
    /\ spec.timeout_seconds \in 1..MAX_RUNTIME_SECONDS
    /\ spec.kernel_args \cap BannedArgs = {}
    /\ spec.vsock_cid >= 3
validate(spec) ==
    /\ ~spec.allow_network_device /\ ~spec.allow_host_filesystem_share
    /\ ~spec.allow_persistent_state
    /\ spec.run_id \in RunIds
    /\ spec.rootfs.read_only /\ ~spec.rootfs.is_ephemeral_overlay
    /\ spec.overlay.is_ephemeral_overlay /\ ~spec.overlay.read_only
    /\ spec.rootfs.path # spec.overlay.path
    /\ spec.vcpus \in 1..MAX_VCPUS
    /\ spec.mem_mib \in 128..MAX_MEM_MIB
    /\ spec.timeout_seconds \in 1..MAX_RUNTIME_SECONDS
    /\ spec.kernel_args \cap BannedArgs = {}
    /\ spec.vsock_cid >= 3

\* The disks' flags are written down here, not taken from the spec, and there
\* is no key for a network interface.
build_firecracker_config(spec) ==
    [kernel_image_path |-> spec.kernel_image,
     boot_args |-> spec.kernel_args,
     drives |-> [rootfs  |-> [path_on_host |-> spec.rootfs.path, is_read_only |-> TRUE],
                 overlay |-> [path_on_host |-> spec.overlay.path, is_read_only |-> FALSE]],
     vcpu_count |-> spec.vcpus,
     mem_size_mib |-> spec.mem_mib,
     guest_cid |-> spec.vsock_cid]
===============================================================================
