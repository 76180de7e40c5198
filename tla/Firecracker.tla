------------------------------ MODULE Firecracker ------------------------------
(***************************************************************************)
(* containment/backend.py: FirecrackerBackend, with the two things of the  *)
(* host it works on, files and processes.                                  *)
(*                                                                         *)
(* A path names an inode, and a VM holds the inode of its overlay, not the *)
(* path: unlinking the path takes nothing from a VM that still runs.  A    *)
(* killed process is dead when the kernel gets to it, not when kill()      *)
(* returns.  A VM ends by itself, or never; one that writes more to its    *)
(* console than the two pipes hold stands still, because nobody reads them.*)
(***************************************************************************)
EXTENDS Naturals, Sequences, VmSpec

CONSTANTS
    Paths,                     \* of disks and images
    Images                     \* the paths that hold an image at the start

ASSUME FirecrackerAssumption ==
    /\ Images \in Seq(Paths)
    /\ \A j, k \in DOMAIN Images : Images[j] = Images[k] => j = k

VARIABLES
    files,                     \* path -> inode, 0 if there is no such file
    inodes,                    \* the data of every inode ever created
    configs,                   \* <<directory, run id>> -> config file, or NoConfig
    processes,                 \* every process ever started
    _procs                     \* run id -> index of its process, 0 if none

fcVars == <<files, inodes, configs, processes, _procs>>

\* The directory a caller may pass, and the one the code falls back on.
Directories == {"/run", "/tmp"}
NoConfig == [missing |-> TRUE]

Image(path) == [image |-> path]
Zeros == [zeros |-> TRUE]
WrittenBy(p) == [guest |-> p]

exists(path) == files[path] # 0
data(path) == IF exists(path) THEN inodes[files[path]] ELSE [nothing |-> TRUE]

FirecrackerInit ==
    /\ files = [path \in Paths |->
                   IF \E k \in DOMAIN Images : Images[k] = path
                   THEN CHOOSE k \in DOMAIN Images : Images[k] = path ELSE 0]
    /\ inodes = [k \in DOMAIN Images |-> Image(Images[k])]
    /\ configs = [place \in Directories \X RunIds |-> NoConfig]
    /\ processes = <<>>
    /\ _procs = [id \in RunIds |-> 0]

-------------------------------------------------------------------------------
\* The backend's methods.  measure_image needs the file.
measure_image(path, digest) == exists(path) /\ digest = data(path)

unlink(path) == files' = [files EXCEPT ![path] = 0]

\* A new file, also where there was one: the old inode is no longer named.
prepare_overlay_Truncates(overlay) ==
    IF exists(overlay)
    THEN inodes' = [inodes EXCEPT ![files[overlay]] = Zeros] /\ UNCHANGED files
    ELSE /\ inodes' = Append(inodes, Zeros)
         /\ files' = [files EXCEPT ![overlay] = Len(inodes) + 1]
prepare_overlay(overlay) ==
    /\ inodes' = Append(inodes, Zeros)
    /\ files' = [files EXCEPT ![overlay] = Len(inodes) + 1]

\* The process opens what its config names; without a config, or without one
\* of those files, it ends at once with an error.
Bootable(config) ==
    /\ config # NoConfig
    /\ data(config.kernel_image_path) \in {Image(path) : path \in Paths}
    /\ \A drive \in {"rootfs", "overlay"} : exists(config.drives[drive].path_on_host)

Machine(config) ==
    IF Bootable(config)
    THEN [state |-> "running", signalled |-> FALSE, blocked |-> FALSE, config |-> config,
          kernel |-> data(config.kernel_image_path),
          rootfs |-> data(config.drives["rootfs"].path_on_host),
          overlay |-> files[config.drives["overlay"].path_on_host]]
    ELSE [state |-> "exited", signalled |-> FALSE, blocked |-> FALSE, config |-> config,
          kernel |-> Zeros, rootfs |-> Zeros, overlay |-> 0]

boot_Unregistered(run_id, place) ==
    processes' = Append(processes, Machine(configs[place])) /\ UNCHANGED _procs
boot(run_id, place) ==
    /\ processes' = Append(processes, Machine(configs[place]))
    /\ _procs' = [_procs EXCEPT ![run_id] = Len(processes) + 1]

\* Popen.poll, kill and wait.
Alive(p) == processes[p].state = "running"
kill(p) == processes' = [processes EXCEPT ![p].signalled = TRUE]
reap(p) == processes' = [processes EXCEPT ![p].state = IF Alive(p) THEN @ ELSE "reaped"]

-------------------------------------------------------------------------------
\* What the VM and the kernel do in the meantime.
GuestWrites(p) ==
    /\ Alive(p) /\ ~processes[p].blocked
    /\ inodes[processes[p].overlay] # WrittenBy(p)
    /\ inodes' = [inodes EXCEPT ![processes[p].overlay] = WrittenBy(p)]
    /\ UNCHANGED <<files, configs, processes, _procs>>

ConsoleFills(p) ==
    /\ Alive(p) /\ ~processes[p].blocked
    /\ processes' = [processes EXCEPT ![p].blocked = TRUE]
    /\ UNCHANGED <<files, inodes, configs, _procs>>

GuestHalts(p) ==
    /\ Alive(p) /\ ~processes[p].blocked
    /\ processes' = [processes EXCEPT ![p].state = "exited"]
    /\ UNCHANGED <<files, inodes, configs, _procs>>

KernelKills(p) ==
    /\ Alive(p) /\ processes[p].signalled
    /\ processes' = [processes EXCEPT ![p].state = "exited"]
    /\ UNCHANGED <<files, inodes, configs, _procs>>

VmStep(p) == GuestWrites(p) \/ ConsoleFills(p) \/ GuestHalts(p) \/ KernelKills(p)
===============================================================================
