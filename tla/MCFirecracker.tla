----------------------------- MODULE MCFirecracker ------------------------------
(***************************************************************************)
(* Callers that hand in two good specs, under one run id and under two,    *)
(* with different images and one overlay path, and specs that differ from  *)
(* a good one in one field each.                                           *)
(***************************************************************************)
EXTENDS FirecrackerRun

Good ==
    [run_id |-> "run-0001", kernel_image |-> "kernel",
     rootfs |-> [path |-> "rootfs", read_only |-> TRUE, is_ephemeral_overlay |-> FALSE],
     overlay |-> [path |-> "overlay", read_only |-> FALSE, is_ephemeral_overlay |-> TRUE],
     vcpus |-> 8, mem_mib |-> 128, timeout_seconds |-> 3600, vsock_cid |-> 3,
     kernel_args |-> {"console=none", "rwx"},
     allow_host_filesystem_share |-> FALSE, allow_network_device |-> FALSE,
     allow_persistent_state |-> FALSE]

Accepted ==
    {Good,
     [Good EXCEPT !.rootfs.path = "newer"],
     [Good EXCEPT !.run_id = "run-0002", !.rootfs.path = "newer", !.vcpus = 1,
                  !.mem_mib = 16384, !.timeout_seconds = 1]}

\* Accepted too: the validator compares the overlay with the rootfs only.
OverKernel == [Good EXCEPT !.overlay.path = "kernel"]

Refused ==
    {[Good EXCEPT !.allow_network_device = TRUE],
     [Good EXCEPT !.allow_host_filesystem_share = TRUE],
     [Good EXCEPT !.allow_persistent_state = TRUE],
     [Good EXCEPT !.run_id = "r1"],
     [Good EXCEPT !.rootfs.is_ephemeral_overlay = TRUE],
     [Good EXCEPT !.rootfs.is_ephemeral_overlay = TRUE, !.rootfs.read_only = FALSE],
     [Good EXCEPT !.overlay.is_ephemeral_overlay = FALSE, !.overlay.read_only = TRUE],
     [Good EXCEPT !.overlay.read_only = TRUE],
     [Good EXCEPT !.overlay.path = "rootfs"],
     [Good EXCEPT !.vcpus = 0], [Good EXCEPT !.vcpus = 9],
     [Good EXCEPT !.mem_mib = 127], [Good EXCEPT !.mem_mib = 16385],
     [Good EXCEPT !.timeout_seconds = 0], [Good EXCEPT !.timeout_seconds = 3601],
     [Good EXCEPT !.kernel_args = {"init=/bin/sh"}], [Good EXCEPT !.kernel_args = {"rw"}],
     [Good EXCEPT !.kernel_args = {"console=none", "single"}],
     [Good EXCEPT !.vsock_cid = 2]}

MCSpecs == Accepted \cup {OverKernel} \cup Refused
MCImages == <<"kernel", "rootfs", "newer">>
===============================================================================
