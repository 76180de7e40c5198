---------------------------- MODULE FirecrackerProofs ----------------------------
(***************************************************************************)
(* For every set of specs, every set of paths and images, and any number   *)
(* of runs on one backend: what FirecrackerRun.tla says of files, inodes,  *)
(* processes and configs, and that a run on Firecracker is a run of        *)
(* Supervisor.tla.                                                         *)
(***************************************************************************)
EXTENDS FirecrackerRun, TLAPS

\* The phases of run().  Until the overlay is made the files are the ones the
\* run found; until boot it has no process; destroy() ends the try block.
Untouched == {"validate", "run_begin", "spawn_host", "measure_image", "record_images",
              "prepare_overlay"}
Measured == {"record_images", "prepare_overlay", "write_config", "spawn_vm", "boot"}
Prepared == {"write_config", "spawn_vm", "boot"}
Booted == {"hook", "wait"}
After == {"exit_vm", "record_timeout", "exit_host", "run_end", "seal", "report", "reraise"}

Datum == {Image(path) : path \in Paths} \cup {Zeros} \cup {WrittenBy(p) : p \in Nat}
Config == {NoConfig} \cup {build_firecracker_config(s) : s \in {t \in Specs : validate(t)}}
Process == [state : {"running", "exited", "reaped"}, signalled : BOOLEAN, blocked : BOOLEAN,
            config : Config, kernel : Datum, rootfs : Datum, overlay : Nat]

ov == spec.overlay.path
IsImage(k) == k \in 1..Len(Images)

TypeOK ==
    /\ files \in [Paths -> Nat] /\ before \in [Paths -> Nat]
    /\ inodes \in Seq(Datum) /\ processes \in Seq(Process)
    /\ configs \in [Directories \X RunIds -> Config]
    /\ _procs \in [RunIds -> Nat]
    /\ spec \in Specs /\ config_dir \in ConfigDirs
    /\ proc \in 0..Len(processes)
    /\ killing \in BOOLEAN /\ failed \in BOOLEAN
    /\ pc \in Untouched \cup Prepared \cup Booted \cup {"destroy"} \cup After

\* Only a validated spec gets beyond the first statement.
Validated == pc \notin {"validate", "reraise"} => validate(spec)

\* The inodes of the images stay what they are, no other inode is an image,
\* and only overlay paths name another inode.
ImagesIntact ==
    /\ Len(Images) <= Len(inodes)
    /\ \A k \in DOMAIN inodes : IsImage(k) => inodes[k] = Image(Images[k])
    /\ \A k \in DOMAIN inodes : Len(Images) < k =>
          inodes[k] \in {Zeros} \cup {WrittenBy(p) : p \in Nat}
    /\ \A path \in Paths : files[path] <= Len(inodes) /\ before[path] <= Len(inodes)
    /\ \A path \in Paths : Len(Images) < files[path] =>
          \E s \in Specs : validate(s) /\ s.overlay.path = path

\* A config that exists has an overlay whose path names no image.
ConfigsSpareImages ==
    \A place \in Directories \X RunIds : configs[place] # NoConfig =>
        ~IsImage(files[configs[place].drives["overlay"].path_on_host])

\* From prepare_overlay to boot the overlay is new, empty and nobody's.
OverlayFresh ==
    pc \in Prepared =>
        /\ Len(Images) < files[ov]
        /\ inodes[files[ov]] = Zeros
        /\ \A p \in DOMAIN processes : Alive(p) => processes[p].overlay # files[ov]

ConfigInPlace ==
    pc \in {"spawn_vm", "boot"} /\ config_dir # None =>
        configs[cfg_path] = build_firecracker_config(spec)

\* A VM alive was booted from a config, on an inode that is no image; the VM of
\* this run shares its inode with no other.
MachinesApart ==
    /\ \A p \in DOMAIN processes : Alive(p) =>
          /\ processes[p].config # NoConfig
          /\ Len(Images) < processes[p].overlay /\ processes[p].overlay <= Len(inodes)
    /\ config_dir # None /\ proc # 0 /\ Alive(proc) =>
          \A p \in DOMAIN processes :
              Alive(p) /\ p # proc => processes[p].overlay # processes[proc].overlay

\* The digests are those of the images the spec names, as far as it still
\* names images.
DigestsHold ==
    pc \in Measured =>
        /\ IsImage(files[spec.kernel_image]) => kernel_digest = data(spec.kernel_image)
        /\ IsImage(files[spec.rootfs.path]) => rootfs_digest = data(spec.rootfs.path)

\* No run's overlay lies where another run's rootfs does.
RootfsApart ==
    \A s, t \in Specs : validate(s) /\ validate(t) => s.rootfs.path # t.overlay.path

DigestsOfBooted ==
    config_dir # None /\ proc # 0 /\ Alive(proc) =>
        /\ processes[proc].kernel = kernel_digest
        /\ RootfsApart => processes[proc].rootfs = rootfs_digest

\* Between boot and destroy() the backend knows the process of this run.
HandleKnown ==
    /\ pc \in Untouched \cup Prepared => proc = 0
    /\ pc \in Booted => proc # 0 /\ handle = proc

\* What a run has changed among the files, and what it started from.
FilesFramed ==
    /\ pc \in Untouched => files = before
    /\ pc \in Untouched \cup Prepared \cup Booted \cup {"destroy"} => destroys = 0
    /\ pc \in Prepared \cup Booted \cup {"destroy"} =>
          \A path \in Paths : path # ov => files[path] = before[path]
    /\ pc \in After /\ ~failed =>
          \/ destroys = 0 /\ files = before
          \/ destroys = 1 /\ files = [before EXCEPT ![ov] = 0]
    /\ ~failed => \A path \in Paths : before[path] <= Len(Images)

Inv ==
    /\ TypeOK /\ Validated /\ ImagesIntact /\ ConfigsSpareImages /\ OverlayFresh
    /\ ConfigInPlace /\ MachinesApart /\ NoStateCarried /\ DigestsHold /\ DigestsOfBooted
    /\ HandleKnown /\ AliveIsOwned /\ FilesFramed

-------------------------------------------------------------------------------
\* Image files, empty overlays and written ones are told apart.
LEMMA DataApart ==
    ASSUME NEW path, NEW p
    PROVE  Image(path) # Zeros /\ Image(path) # WrittenBy(p)
           /\ [nothing |-> TRUE] # Image(path) /\ [nothing |-> TRUE] # WrittenBy(p)
  BY DEF Image, Zeros, WrittenBy

\* What a validated spec is, and what its config says.
LEMMA SpecIs ==
    ASSUME NEW s \in Specs, validate(s)
    PROVE  /\ s.run_id \in RunIds
           /\ s.kernel_image \in Paths /\ s.rootfs.path \in Paths /\ s.overlay.path \in Paths
           /\ s.rootfs.path # s.overlay.path
  BY FirecrackerRunAssumption DEF validate, DiskSpecs

\* The overlay of a spec is a path, also of a spec that is refused.
LEMMA OverlayIsPath ==
    ASSUME NEW s \in Specs
    PROVE  s.overlay.path \in Paths
  BY FirecrackerRunAssumption DEF DiskSpecs

\* What a config that was built says.
LEMMA BuildIs ==
    ASSUME NEW s
    PROVE  /\ build_firecracker_config(s) # NoConfig
           /\ build_firecracker_config(s).kernel_image_path = s.kernel_image
           /\ build_firecracker_config(s).drives["rootfs"].path_on_host = s.rootfs.path
           /\ build_firecracker_config(s).drives["rootfs"].is_read_only
           /\ build_firecracker_config(s).drives["overlay"].path_on_host = s.overlay.path
           /\ build_firecracker_config(s).vcpu_count = s.vcpus
           /\ build_firecracker_config(s).mem_size_mib = s.mem_mib
           /\ build_firecracker_config(s).boot_args = s.kernel_args
  BY DEF build_firecracker_config, NoConfig

\* A config was built from a validated spec.
LEMMA ConfigIs ==
    ASSUME NEW c \in Config, c # NoConfig
    PROVE  \E s \in Specs : validate(s) /\ c = build_firecracker_config(s)
  BY DEF Config
-------------------------------------------------------------------------------
\* Everything the invariant speaks of holds of the first run.
LEMMA InitInv == Init => Inv
  <1> SUFFICES ASSUME Init PROVE Inv
    OBVIOUS
  <1> USE DEF Init, FirecrackerInit
  <1>1. Len(Images) \in Nat /\ DOMAIN Images = 1..Len(Images)
        /\ \A k \in DOMAIN Images : Images[k] \in Paths
    BY FirecrackerAssumption
  <1>2. ASSUME NEW path \in Paths PROVE files[path] \in 0..Len(Images)
    <2>1. CASE \E k \in DOMAIN Images : Images[k] = path
      <3>1. files[path] = CHOOSE k \in DOMAIN Images : Images[k] = path
        BY <2>1
      <3>2. (CHOOSE k \in DOMAIN Images : Images[k] = path) \in DOMAIN Images
        BY <2>1
      <3> QED  BY <1>1, <3>1, <3>2
    <2>2. CASE ~\E k \in DOMAIN Images : Images[k] = path
      <3>1. files[path] = 0
        BY <2>2
      <3> QED  BY <1>1, <3>1
    <2> QED  BY <2>1, <2>2
  <1>3. inodes \in Seq(Datum) /\ Len(inodes) = Len(Images)
        /\ \A k \in DOMAIN inodes : k \in 1..Len(Images) /\ inodes[k] = Image(Images[k])
    <2>1. inodes \in [1..Len(Images) -> Datum]
      BY <1>1 DEF Datum
    <2> QED  BY <1>1, <2>1
  <1>4. TypeOK
    <2>1. files \in [Paths -> Nat]
      BY <1>1, <1>2
    <2>2. configs \in [Directories \X RunIds -> Config]
      BY DEF Config
    <2>3. processes \in Seq(Process) /\ Len(processes) = 0 /\ proc \in 0..Len(processes)
      OBVIOUS
    <2>4. _procs \in [RunIds -> Nat] /\ killing \in BOOLEAN /\ failed \in BOOLEAN
      OBVIOUS
    <2> QED  BY <1>3, <2>1, <2>2, <2>3, <2>4 DEF TypeOK, Untouched
  <1>5. ImagesIntact
    BY <1>1, <1>2, <1>3 DEF ImagesIntact, IsImage
  <1>6. ConfigsSpareImages
    BY DEF ConfigsSpareImages
  <1>7. MachinesApart /\ NoStateCarried /\ AliveIsOwned /\ DigestsOfBooted
    BY DEF MachinesApart, NoStateCarried, AliveIsOwned, DigestsOfBooted
  <1>8. FilesFramed
    BY <1>1, <1>2 DEF FilesFramed, Untouched, Prepared, Booted, After
  <1> QED  BY <1>4, <1>5, <1>6, <1>7, <1>8
           DEF Inv, Validated, OverlayFresh, ConfigInPlace, DigestsHold, HandleKnown,
               Untouched, Prepared, Booted, Measured

-------------------------------------------------------------------------------
\* What kill, reap and the VM's own end leave as it is.
SameMachines ==
    /\ processes' \in Seq(Process) /\ Len(processes') = Len(processes)
    /\ \A q \in DOMAIN processes :
          /\ processes'[q].config = processes[q].config
          /\ processes'[q].kernel = processes[q].kernel
          /\ processes'[q].rootfs = processes[q].rootfs
          /\ processes'[q].overlay = processes[q].overlay
          /\ Alive(q)' => Alive(q)
          /\ processes[q].signalled => processes'[q].signalled

\* A step that leaves files, inodes and configs alone, and boots nothing.
Quiet ==
    /\ UNCHANGED <<files, inodes, configs, argVars, proc, destroys>>
    /\ SameMachines
    /\ _procs' \in [RunIds -> Nat]
    /\ pc' \in Booted => handle' = handle
    /\ \A p \in DOMAIN processes :
          Alive(p)' /\ ~processes'[p].signalled => handle' = handle
    /\ killing' \in BOOLEAN /\ failed' \in {failed, TRUE}

\* Such a step goes on in its phase, to destroy(), or, refused, to the end.
Onward ==
    /\ pc' \in Untouched \cup Prepared \cup Booted \cup {"destroy"} \cup After
    /\ pc' \in Untouched => pc \in Untouched
    /\ pc' \in Prepared => pc \in Prepared
    /\ pc' \in {"spawn_vm", "boot"} => pc \in {"spawn_vm", "boot"} \/ config_dir = None
                                       \/ configs[cfg_path] = build_firecracker_config(spec)
    /\ pc' \in Booted => pc \in Booted
    /\ pc' = "destroy" => pc \notin After
    /\ pc' \in After => pc \in After \cup {"validate"}
    /\ pc \in Booted \cup {"destroy"} => pc' \in Booted \cup {"destroy"}
    /\ pc' \notin {"validate", "reraise"} => pc \notin {"validate", "reraise"} \/ validate(spec)

\* A process that is touched in one field is the same machine.
LEMMA TouchOne ==
    ASSUME processes \in Seq(Process), NEW p \in DOMAIN processes, NEW q \in Process,
           processes' = [processes EXCEPT ![p] = q],
           q.config = processes[p].config, q.kernel = processes[p].kernel,
           q.rootfs = processes[p].rootfs, q.overlay = processes[p].overlay,
           q.state = "running" => Alive(p), processes[p].signalled => q.signalled
    PROVE  SameMachines
  BY DEF SameMachines, Alive

\* kill, reap and the steps of a VM touch one field of one process.
LEMMA TouchIs ==
    ASSUME processes \in Seq(Process), NEW p \in DOMAIN processes,
           \/ kill(p) \/ reap(p)
           \/ processes' = [processes EXCEPT ![p].blocked = TRUE]
           \/ processes' = [processes EXCEPT ![p].state = "exited"]
    PROVE  SameMachines
  <1>1. processes[p] \in Process
    OBVIOUS
  <1>2. CASE kill(p)
    <2> DEFINE q == [processes[p] EXCEPT !.signalled = TRUE]
    <2>1. q \in Process /\ processes' = [processes EXCEPT ![p] = q]
      BY <1>1, <1>2 DEF kill, Process
    <2>2. /\ q.config = processes[p].config /\ q.kernel = processes[p].kernel
          /\ q.rootfs = processes[p].rootfs /\ q.overlay = processes[p].overlay
          /\ q.state = processes[p].state /\ q.signalled
      BY <1>1 DEF Process
    <2> HIDE DEF q
    <2> QED  BY <2>1, <2>2, TouchOne DEF Alive
  <1>3. CASE reap(p)
    <2> DEFINE q == [processes[p] EXCEPT !.state = IF Alive(p) THEN @ ELSE "reaped"]
    <2>1. q \in Process /\ processes' = [processes EXCEPT ![p] = q]
      BY <1>1, <1>3 DEF reap, Process, Alive
    <2>2. /\ q.config = processes[p].config /\ q.kernel = processes[p].kernel
          /\ q.rootfs = processes[p].rootfs /\ q.overlay = processes[p].overlay
          /\ q.state = "running" => Alive(p)
          /\ q.signalled = processes[p].signalled
      BY <1>1 DEF Process, Alive
    <2> HIDE DEF q
    <2> QED  BY <2>1, <2>2, TouchOne
  <1>4. CASE processes' = [processes EXCEPT ![p].blocked = TRUE]
    <2> DEFINE q == [processes[p] EXCEPT !.blocked = TRUE]
    <2>1. q \in Process /\ processes' = [processes EXCEPT ![p] = q]
      BY <1>1, <1>4 DEF Process
    <2>2. /\ q.config = processes[p].config /\ q.kernel = processes[p].kernel
          /\ q.rootfs = processes[p].rootfs /\ q.overlay = processes[p].overlay
          /\ q.state = processes[p].state /\ q.signalled = processes[p].signalled
      BY <1>1 DEF Process
    <2> HIDE DEF q
    <2> QED  BY <2>1, <2>2, TouchOne DEF Alive
  <1>5. CASE processes' = [processes EXCEPT ![p].state = "exited"]
    <2> DEFINE q == [processes[p] EXCEPT !.state = "exited"]
    <2>1. q \in Process /\ processes' = [processes EXCEPT ![p] = q]
      BY <1>1, <1>5 DEF Process
    <2>2. /\ q.config = processes[p].config /\ q.kernel = processes[p].kernel
          /\ q.rootfs = processes[p].rootfs /\ q.overlay = processes[p].overlay
          /\ q.state = "exited" /\ q.signalled = processes[p].signalled
      BY <1>1 DEF Process
    <2> HIDE DEF q
    <2> QED  BY <2>1, <2>2, TouchOne
  <1> QED  BY <1>2, <1>3, <1>4, <1>5

\* Quiet steps keep what is said of files, inodes, configs and machines.
LEMMA QuietKeeps ==
    ASSUME Inv, Quiet, Onward
    PROVE  /\ TypeOK' /\ Validated' /\ ImagesIntact' /\ ConfigsSpareImages' /\ OverlayFresh'
           /\ ConfigInPlace' /\ MachinesApart' /\ NoStateCarried' /\ HandleKnown'
           /\ AliveIsOwned' /\ FilesFramed'
  <1> USE DEF Inv
  <1>1. /\ UNCHANGED <<files, inodes, configs, spec, config_dir, runs, before, proc, destroys>>
        /\ SameMachines /\ _procs' \in [RunIds -> Nat]
        /\ killing' \in BOOLEAN /\ failed' \in {failed, TRUE}
    BY DEF Quiet, argVars
  <1>2. DOMAIN processes = 1..Len(processes) /\ DOMAIN processes' = DOMAIN processes
        /\ Len(processes) \in Nat
    BY <1>1 DEF SameMachines, TypeOK
  <1>3. TypeOK'
    BY <1>1 DEF TypeOK, SameMachines, Onward
  <1>4. Validated'
    BY <1>1 DEF Validated, Onward
  <1>5. ImagesIntact'
    BY <1>1 DEF ImagesIntact, IsImage
  <1>6. ConfigsSpareImages'
    BY <1>1 DEF ConfigsSpareImages, IsImage
  <1>7. OverlayFresh'
    <2> SUFFICES ASSUME pc' \in Prepared
                 PROVE  /\ Len(Images) < files'[ov'] /\ inodes'[files'[ov']] = Zeros
                        /\ \A p \in DOMAIN processes' :
                              Alive(p)' => processes'[p].overlay # files'[ov']
      BY DEF OverlayFresh
    <2>1. pc \in Prepared
      BY DEF Onward
    <2>2. ov' = ov
      BY <1>1 DEF ov
    <2> QED  BY <1>1, <1>2, <2>1, <2>2 DEF OverlayFresh, SameMachines
  <1>8. ConfigInPlace'
    BY <1>1 DEF ConfigInPlace, Onward, cfg_path
  <1>9. MachinesApart'
    <2>1. \A p \in DOMAIN processes : Alive(p)' => /\ Alive(p)
                                                  /\ processes'[p].config = processes[p].config
                                                  /\ processes'[p].overlay = processes[p].overlay
      BY <1>1 DEF SameMachines
    <2>2. proc # 0 => proc \in DOMAIN processes
      BY <1>2 DEF TypeOK
    <2>3. \A p \in DOMAIN processes' : Alive(p)' =>
              /\ processes'[p].config # NoConfig
              /\ Len(Images) < processes'[p].overlay /\ processes'[p].overlay <= Len(inodes')
      BY <1>1, <1>2, <2>1 DEF MachinesApart
    <2>4. config_dir' # None /\ proc' # 0 /\ Alive(proc)' =>
              \A p \in DOMAIN processes' : Alive(p)' /\ p # proc' =>
                  processes'[p].overlay # processes'[proc'].overlay
      BY <1>1, <1>2, <2>1, <2>2 DEF MachinesApart, Alive
    <2> QED  BY <1>1, <2>3, <2>4 DEF MachinesApart, Alive
  <1>10. NoStateCarried'
    <2> SUFFICES ASSUME config_dir # None, proc # 0, Alive(proc)'
                 PROVE  inodes[processes'[proc].overlay] \in {Zeros, WrittenBy(proc)}
      BY <1>1 DEF NoStateCarried, Alive, WrittenBy
    <2>1. proc \in DOMAIN processes
      BY <1>2 DEF TypeOK
    <2>2. Alive(proc) /\ processes'[proc].overlay = processes[proc].overlay
      BY <1>1, <2>1 DEF SameMachines, Alive
    <2> QED  BY <2>2 DEF NoStateCarried
  <1>11. HandleKnown'
    BY <1>1 DEF HandleKnown, Onward, Quiet, Untouched, Prepared, Booted
  <1>12. AliveIsOwned'
    <2> SUFFICES ASSUME NEW p \in DOMAIN processes, Alive(p)', ~processes'[p].signalled
                 PROVE  p = proc' /\ handle' = p /\ pc' \in {"hook", "wait", "destroy"}
      BY <1>2 DEF AliveIsOwned
    <2>1. Alive(p) /\ ~processes[p].signalled
      BY <1>1 DEF SameMachines
    <2>2. p = proc /\ handle = p /\ pc \in {"hook", "wait", "destroy"}
      BY <2>1 DEF AliveIsOwned
    <2>3. handle' = handle
      BY DEF Quiet
    <2> QED  BY <1>1, <2>2, <2>3 DEF Onward, Booted
  <1>13. FilesFramed'
    <2>1. ov' = ov
      BY <1>1 DEF ov
    <2>2. pc' \in Untouched => files' = before'
      BY <1>1 DEF FilesFramed, Onward
    <2>3. pc' \in Untouched \cup Prepared \cup Booted \cup {"destroy"} => destroys' = 0
      <3>1. pc' \in Untouched \cup Prepared \cup Booted \cup {"destroy"} =>
               pc \in Untouched \cup Prepared \cup Booted \cup {"destroy"}
        BY DEF Onward, TypeOK
      <3> QED  BY <1>1, <3>1 DEF FilesFramed
    <2>4. pc' \in Prepared \cup Booted \cup {"destroy"} =>
              \A path \in Paths : path # ov' => files'[path] = before'[path]
      <3>1. pc' \in Prepared \cup Booted \cup {"destroy"} =>
               pc \in Untouched \cup Prepared \cup Booted \cup {"destroy"}
        BY DEF Onward, TypeOK
      <3> QED  BY <1>1, <2>1, <3>1 DEF FilesFramed
    <2>5. pc' \in After /\ ~failed' => \/ destroys' = 0 /\ files' = before'
                                       \/ destroys' = 1 /\ files' = [before' EXCEPT ![ov'] = 0]
      <3>1. pc' \in After => pc \in After \/ pc = "validate"
        BY DEF Onward
      <3>2. ~failed' => ~failed
        BY <1>1 DEF TypeOK
      <3> QED  BY <1>1, <2>1, <3>1, <3>2 DEF FilesFramed, Untouched
    <2>6. ~failed' => \A path \in Paths : before'[path] <= Len(Images)
      <3>1. ~failed' => ~failed
        BY <1>1 DEF TypeOK
      <3> QED  BY <1>1, <3>1 DEF FilesFramed
    <2> QED  BY <2>2, <2>3, <2>4, <2>5, <2>6 DEF FilesFramed
  <1> QED  BY <1>3, <1>4, <1>5, <1>6, <1>7, <1>8, <1>9, <1>10, <1>11, <1>12, <1>13

\* ... and of the digests, which they do not measure.
LEMMA QuietKeepsDigests ==
    ASSUME Inv, Quiet, UNCHANGED digestVars, pc' \in Measured => pc \in Measured
    PROVE  DigestsHold' /\ DigestsOfBooted'
  <1>1. /\ UNCHANGED <<files, inodes, spec, config_dir, proc, kernel_digest, rootfs_digest>>
        /\ SameMachines
    BY DEF Quiet, argVars, digestVars
  <1>2. DigestsHold'
    BY <1>1 DEF Inv, DigestsHold, IsImage, data, exists
  <1>3. DigestsOfBooted'
    <2> SUFFICES ASSUME config_dir # None, proc # 0, Alive(proc)'
                 PROVE  /\ processes'[proc].kernel = kernel_digest
                        /\ RootfsApart => processes'[proc].rootfs = rootfs_digest
      BY <1>1 DEF DigestsOfBooted, Alive
    <2>1. proc \in DOMAIN processes
      BY DEF Inv, TypeOK
    <2>2. /\ Alive(proc) /\ processes'[proc].kernel = processes[proc].kernel
          /\ processes'[proc].rootfs = processes[proc].rootfs
      BY <1>1, <2>1 DEF SameMachines, Alive
    <2> QED  BY <2>2 DEF Inv, DigestsOfBooted
  <1> QED  BY <1>2, <1>3

-------------------------------------------------------------------------------
\* A step that does not even touch a process or the backend's map is quiet.
LEMMA StillIsQuiet ==
    ASSUME Inv, UNCHANGED <<argVars, proc, killing, failed, fcVars, destroys>>
    PROVE  Quiet
  <1>1. SameMachines
    BY DEF Inv, TypeOK, SameMachines, fcVars, Alive
  <1>2. handle' = handle
    BY DEF fcVars, argVars, handle
  <1> QED  BY <1>1, <1>2 DEF Inv, TypeOK, Quiet, fcVars, argVars

\* The statements of run() that do not touch the backend.
LEMMA OffBackendKeeps ==
    ASSUME Inv, Validate \/ LedgerStep \/ Hook
    PROVE  Inv'
  <1> USE DEF Untouched, Measured, Prepared, Booted, After
  <1>1. /\ UNCHANGED <<argVars, digestVars, proc, killing, failed, fcVars>>
    BY DEF Validate, LedgerStep, Hook, OffBackend
  <1>2. /\ destroys' = destroys
        /\ \/ pc = "validate" /\ pc' = "run_begin" /\ validate(spec)
           \/ pc = "validate" /\ pc' = "reraise"
           \/ pc = "run_begin" /\ pc' = "spawn_host"
           \/ pc = "spawn_host" /\ pc' = "measure_image"
           \/ pc = "record_images" /\ pc' = "prepare_overlay"
           \/ pc = "spawn_vm" /\ pc' = "boot"
           \/ pc = "hook" /\ pc' \in {"wait", "destroy"}
           \/ pc = "exit_vm" /\ pc' = "record_timeout"
           \/ pc = "record_timeout" /\ pc' = "exit_host"
           \/ pc = "exit_host" /\ pc' = "run_end"
           \/ pc = "run_end" /\ pc' = "seal"
           \/ pc = "seal" /\ pc' \in {"report", "reraise"}
    <2> USE DEF OffBackend, S!backendVars
    <2>1. CASE Validate
      BY <2>1 DEF Validate, S!Validate
    <2>2. CASE Hook
      BY <2>2 DEF Hook, S!HookEnds
    <2>3. CASE LedgerStep
      BY <2>3 DEF LedgerStep, S!BeginRun, S!SpawnHost, S!RecordImages, S!SpawnVm, S!ExitVm,
                  S!RecordTimeout, S!ExitHost, S!EndRun, S!Seal
    <2> QED  BY <2>1, <2>2, <2>3
  <1>3. Quiet
    BY <1>1, <1>2, StillIsQuiet
  <1>4. Onward
    BY <1>2 DEF Onward
  <1>5. pc' \in Measured => pc \in Measured
    BY <1>2
  <1> QED  BY <1>1, <1>3, <1>4, <1>5, QuietKeeps, QuietKeepsDigests DEF Inv

\* measure_image reads; the digests are those of the files as they are.
LEMMA MeasureKeeps ==
    ASSUME Inv, Measure
    PROVE  Inv'
  <1> USE DEF Untouched, Measured, Prepared, Booted, After
  <1>1. /\ UNCHANGED <<argVars, proc, killing, failed, fcVars, destroys>>
        /\ pc = "measure_image" /\ pc' = "record_images"
        /\ kernel_digest' = data(spec.kernel_image)
        /\ rootfs_digest' = data(spec.rootfs.path)
    BY DEF Measure, supVars, localVars, measure_image
  <1>2. Quiet
    BY <1>1, StillIsQuiet
  <1>3. Onward
    BY <1>1 DEF Onward
  <1>4. DigestsHold'
    BY <1>1 DEF DigestsHold, data, exists, argVars, fcVars
  <1>5. DigestsOfBooted'
    BY <1>1 DEF Inv, HandleKnown, DigestsOfBooted
  <1> QED  BY <1>2, <1>3, <1>4, <1>5, QuietKeeps DEF Inv

\* wait() and its kill: the process is signalled or reaped, and stays known.
LEMMA WaitKeeps ==
    ASSUME Inv, WaitReturns \/ WaitExpires \/ WaitRaises
    PROVE  Inv'
  <1> USE DEF Untouched, Measured, Prepared, Booted, After
  <1>1. /\ UNCHANGED <<files, inodes, configs, _procs, argVars, digestVars, proc, destroys>>
        /\ pc = "wait" /\ pc' \in {"wait", "destroy"}
        /\ killing' \in BOOLEAN /\ failed' \in {failed, TRUE}
        /\ reap(handle) \/ kill(handle) \/ UNCHANGED processes
    BY DEF WaitReturns, WaitExpires, WaitRaises, supVars, localVars, fcVars
  <1>2. handle = proc /\ proc \in DOMAIN processes
    BY <1>1 DEF Inv, HandleKnown, TypeOK
  <1>3. SameMachines
    <2>1. processes \in Seq(Process)
      BY DEF Inv, TypeOK
    <2>2. UNCHANGED processes => SameMachines
      BY <2>1 DEF SameMachines, Alive
    <2> QED  BY <1>1, <1>2, <2>1, <2>2, TouchIs
  <1>4. handle' = handle
    BY <1>1 DEF argVars, handle
  <1>5. Quiet
    BY <1>1, <1>3, <1>4 DEF Quiet, argVars, Inv, TypeOK
  <1>6. Onward
    BY <1>1 DEF Onward, Inv, Validated
  <1> QED  BY <1>1, <1>5, <1>6, QuietKeeps, QuietKeepsDigests DEF Inv

\* destroy() forgets the process once it is signalled.
LEMMA DestroyKillsKeeps ==
    ASSUME Inv, DestroyKills
    PROVE  Inv'
  <1> USE DEF Untouched, Measured, Prepared, Booted, After
  <1>1. /\ UNCHANGED <<files, inodes, configs, argVars, digestVars, proc, destroys, pc, failed>>
        /\ pc = "destroy" /\ killing' = TRUE /\ handle # 0 /\ Alive(handle) /\ kill(handle)
        /\ _procs' = [_procs EXCEPT ![spec.run_id] = 0]
    BY DEF DestroyKills, supVars, localVars
  <1>2. _procs' \in [RunIds -> Nat]
    BY <1>1 DEF Inv, TypeOK
  <1>3. spec.run_id \in RunIds /\ handle \in Nat
    BY <1>1, SpecIs DEF Inv, TypeOK, Validated, handle
  <1>4. CASE handle \in DOMAIN processes
    <2>1. SameMachines
      BY <1>1, <1>4, TouchIs DEF Inv, TypeOK
    <2>2. processes'[handle].signalled
      <3>1. processes[handle] \in Process /\ processes \in Seq(Process)
        BY <1>4 DEF Inv, TypeOK
      <3> QED  BY <1>1, <1>4, <3>1 DEF kill, Process
    <2>3. \A p \in DOMAIN processes : Alive(p)' /\ ~processes'[p].signalled => FALSE
      BY <2>1, <2>2 DEF SameMachines, Inv, AliveIsOwned
    <2>4. Quiet
      BY <1>1, <1>2, <2>1, <2>3 DEF Quiet, argVars
    <2>5. Onward
      BY <1>1 DEF Onward, Inv, Validated
    <2> QED  BY <1>1, <2>4, <2>5, QuietKeeps, QuietKeepsDigests DEF Inv
  <1>5. CASE handle \notin DOMAIN processes
    <2>1. processes' = processes
      BY <1>1, <1>5 DEF kill, Inv, TypeOK
    <2>2. SameMachines
      BY <2>1 DEF SameMachines, Inv, TypeOK, Alive
    <2>3. \A p \in DOMAIN processes : Alive(p)' /\ ~processes'[p].signalled => FALSE
      BY <1>5, <2>1 DEF Inv, AliveIsOwned, Alive
    <2>4. Quiet
      BY <1>1, <1>2, <2>2, <2>3 DEF Quiet, argVars
    <2>5. Onward
      BY <1>1 DEF Onward, Inv, Validated
    <2> QED  BY <1>1, <2>4, <2>5, QuietKeeps, QuietKeepsDigests DEF Inv
  <1> QED  BY <1>4, <1>5

\* A process that a VM or the kernel ends or blocks is the same machine.
LEMMA VmStepKeeps ==
    ASSUME Inv, NEW p \in DOMAIN processes,
           ConsoleFills(p) \/ GuestHalts(p) \/ KernelKills(p),
           UNCHANGED <<pc, supVars, argVars, digestVars, proc, killing, failed>>
    PROVE  Inv'
  <1>1. UNCHANGED <<files, inodes, configs, _procs, destroys>>
    BY DEF ConsoleFills, GuestHalts, KernelKills, supVars, localVars
  <1>2. SameMachines
    BY TouchIs DEF ConsoleFills, GuestHalts, KernelKills, Inv, TypeOK
  <1>3. handle' = handle
    BY <1>1 DEF argVars, handle
  <1>4. Quiet
    BY <1>1, <1>2, <1>3 DEF Quiet, argVars, Inv, TypeOK
  <1>5. Onward
    BY <1>1 DEF Onward, Inv, TypeOK, Validated, Untouched, Prepared, Booted, After
  <1> QED  BY <1>4, <1>5, QuietKeeps, QuietKeepsDigests DEF Inv

-------------------------------------------------------------------------------
\* A guest writes only to the overlay it was booted with.
LEMMA GuestWritesKeeps ==
    ASSUME Inv, NEW p \in DOMAIN processes, GuestWrites(p),
           UNCHANGED <<pc, supVars, argVars, digestVars, proc, killing, failed>>
    PROVE  Inv'
  <1> USE DEF Inv
  <1> DEFINE o == processes[p].overlay
  <1>1. /\ UNCHANGED <<files, configs, processes, _procs, destroys, pc, spec, config_dir, runs,
                       before, kernel_digest, rootfs_digest, proc, killing, failed>>
        /\ Alive(p) /\ inodes' = [inodes EXCEPT ![o] = WrittenBy(p)]
    BY DEF GuestWrites, supVars, localVars, argVars, digestVars
  <1>2. /\ p \in Nat /\ o \in Nat /\ Len(Images) \in Nat /\ inodes \in Seq(Datum)
        /\ Len(Images) < o /\ o <= Len(inodes) /\ o \in DOMAIN inodes
    <2>1. processes[p] \in Process /\ p \in Nat /\ inodes \in Seq(Datum)
      BY DEF TypeOK
    <2> QED  BY <1>1, <2>1, FirecrackerAssumption DEF MachinesApart, Process
  <1> HIDE DEF o
  <1>3. /\ inodes' \in Seq(Datum) /\ Len(inodes') = Len(inodes)
        /\ \A k \in DOMAIN inodes : inodes'[k] = IF k = o THEN WrittenBy(p) ELSE inodes[k]
    <2>1. WrittenBy(p) \in Datum
      BY <1>2 DEF Datum
    <2> QED  BY <1>1, <1>2, <2>1
  <1>4. DOMAIN inodes' = DOMAIN inodes /\ DOMAIN inodes = 1..Len(inodes)
    BY <1>2, <1>3
  <1>5. TypeOK'
    BY <1>1, <1>3 DEF TypeOK
  <1>6. ImagesIntact'
    <2>1. WrittenBy(p) \in {WrittenBy(q) : q \in Nat}
      BY <1>2
    <2> QED  BY <1>1, <1>2, <1>3, <1>4, <2>1 DEF ImagesIntact, IsImage
  <1>7. ConfigsSpareImages' /\ ConfigInPlace' /\ HandleKnown' /\ AliveIsOwned' /\ FilesFramed'
        /\ Validated'
    BY <1>1 DEF ConfigsSpareImages, IsImage, ConfigInPlace, cfg_path, HandleKnown, handle,
                AliveIsOwned, Alive, FilesFramed, ov, Validated
  <1>8. OverlayFresh'
    <2> SUFFICES ASSUME pc \in Prepared PROVE inodes'[files[ov]] = Zeros
      BY <1>1 DEF OverlayFresh, Alive, ov
    <2>1. files[ov] # o /\ inodes[files[ov]] = Zeros
      BY <1>1 DEF OverlayFresh, o
    <2>2. files[ov] \in DOMAIN inodes
      <3>1. ov \in Paths
        BY OverlayIsPath DEF TypeOK, ov
      <3> QED  BY <1>2, <1>4, <3>1 DEF OverlayFresh, ImagesIntact, TypeOK
    <2> QED  BY <1>3, <2>1, <2>2
  <1>9. MachinesApart'
    BY <1>1, <1>3 DEF MachinesApart, Alive
  <1>10. NoStateCarried'
    <2> SUFFICES ASSUME config_dir # None, proc # 0, Alive(proc)
                 PROVE  inodes'[processes[proc].overlay] \in {Zeros, WrittenBy(proc)}
      BY <1>1 DEF NoStateCarried, Alive
    <2>1. proc \in DOMAIN processes
      BY DEF TypeOK
    <2>2. processes[proc].overlay \in DOMAIN inodes
      <3>1. processes[proc] \in Process
        BY <2>1 DEF TypeOK
      <3> QED  BY <1>2, <1>4, <2>1, <3>1 DEF MachinesApart, Process
    <2>3. CASE p = proc
      BY <1>3, <2>2, <2>3 DEF o
    <2>4. CASE p # proc
      <3>1. processes[proc].overlay # o
        BY <1>1, <2>4 DEF MachinesApart, o
      <3> QED  BY <1>3, <2>2, <3>1 DEF NoStateCarried
    <2> QED  BY <2>3, <2>4
  <1>11. DigestsHold'
    <2>1. ASSUME NEW path, IsImage(files[path]) PROVE data(path)' = data(path)
      BY <1>1, <1>2, <1>3, <1>4, <2>1 DEF IsImage, data, exists, ImagesIntact
    <2> QED  BY <1>1, <2>1 DEF DigestsHold, IsImage
  <1>12. DigestsOfBooted'
    BY <1>1 DEF DigestsOfBooted, Alive
  <1> QED  BY <1>5, <1>6, <1>7, <1>8, <1>9, <1>10, <1>11, <1>12

\* prepare_overlay makes a new inode, whatever the path named before.
LEMMA OverlayMade ==
    ASSUME Inv, pc = "prepare_overlay", pc' \in {"write_config", "destroy"},
           prepare_overlay(ov),
           UNCHANGED <<configs, processes, _procs, argVars, digestVars, proc, killing, failed,
                       destroys>>
    PROVE  Inv'
  <1> USE DEF Inv
  <1>1. /\ UNCHANGED <<configs, processes, _procs, destroys, spec, config_dir, runs, before,
                       kernel_digest, rootfs_digest, proc, killing, failed>>
        /\ inodes' = Append(inodes, Zeros)
        /\ files' = [files EXCEPT ![ov] = Len(inodes) + 1]
    BY DEF argVars, digestVars, prepare_overlay
  <1>2. /\ ov' = ov /\ ov \in Paths /\ files \in [Paths -> Nat] /\ inodes \in Seq(Datum)
        /\ validate(spec) /\ spec \in Specs /\ proc = 0 /\ destroys = 0 /\ files = before
    BY <1>1, OverlayIsPath
    DEF TypeOK, ov, Validated, HandleKnown, FilesFramed, Untouched
  <1>3. /\ Len(Images) \in Nat /\ Len(Images) <= Len(inodes) /\ Len(inodes) \in Nat
        /\ DOMAIN inodes = 1..Len(inodes)
    BY <1>2, FirecrackerAssumption DEF ImagesIntact
  <1>4. /\ inodes' \in Seq(Datum) /\ Len(inodes') = Len(inodes) + 1
        /\ \A k \in DOMAIN inodes : inodes'[k] = inodes[k]
        /\ inodes'[Len(inodes) + 1] = Zeros
    <2>1. Zeros \in Datum
      BY DEF Datum
    <2> QED  BY <1>1, <1>2, <2>1
  <1>5. /\ files' \in [Paths -> Nat] /\ files'[ov] = Len(inodes) + 1
        /\ \A path \in Paths : path # ov => files'[path] = files[path]
    BY <1>1, <1>2, <1>3
  <1>6. TypeOK'
    BY <1>1, <1>4, <1>5 DEF TypeOK, Prepared
  <1>7. Validated'
    BY <1>1, <1>2 DEF Validated
  <1>8. ImagesIntact'
    <2>1. DOMAIN inodes' = 1..(Len(inodes) + 1)
      BY <1>3, <1>4
    <2>2. \A k \in DOMAIN inodes' : IsImage(k) => inodes'[k] = Image(Images[k])
      BY <1>3, <1>4, <2>1 DEF ImagesIntact, IsImage
    <2>3. \A k \in DOMAIN inodes' : Len(Images) < k =>
              inodes'[k] \in {Zeros} \cup {WrittenBy(p) : p \in Nat}
      <3> DEFINE W == {Zeros} \cup {WrittenBy(p) : p \in Nat}
      <3>1. Zeros \in W /\ \A k \in DOMAIN inodes : Len(Images) < k => inodes[k] \in W
        BY DEF ImagesIntact
      <3> HIDE DEF W
      <3>2. \A k \in DOMAIN inodes' : Len(Images) < k => inodes'[k] \in W
        BY <1>3, <1>4, <2>1, <3>1
      <3> QED  BY <3>2 DEF W
    <2>4. \A path \in Paths : files'[path] <= Len(inodes') /\ before'[path] <= Len(inodes')
      <3>1. \A path \in Paths : files[path] \in Nat /\ files[path] <= Len(inodes)
        BY <1>2 DEF ImagesIntact
      <3> QED  BY <1>1, <1>2, <1>3, <1>4, <1>5, <3>1
    <2>5. \A path \in Paths : Len(Images) < files'[path] =>
              \E s \in Specs : validate(s) /\ s.overlay.path = path
      BY <1>2, <1>5 DEF ImagesIntact, ov
    <2> QED  BY <1>3, <1>4, <2>2, <2>3, <2>4, <2>5 DEF ImagesIntact, IsImage
  <1>9. ~IsImage(files'[ov])
    BY <1>3, <1>5 DEF IsImage
  <1>10. ConfigsSpareImages'
    <2> SUFFICES ASSUME NEW place \in Directories \X RunIds, configs[place] # NoConfig
                 PROVE  ~IsImage(files'[configs[place].drives["overlay"].path_on_host])
      BY <1>1 DEF ConfigsSpareImages, IsImage
    <2>1. PICK s \in Specs : validate(s) /\ configs[place] = build_firecracker_config(s)
      BY ConfigIs DEF TypeOK
    <2>2. configs[place].drives["overlay"].path_on_host = s.overlay.path /\ s.overlay.path \in Paths
      BY <2>1, BuildIs, OverlayIsPath
    <2> QED  BY <1>5, <1>9, <2>2 DEF ConfigsSpareImages
  <1>11. OverlayFresh'
    <2>1. \A p \in DOMAIN processes : Alive(p) => processes[p].overlay # Len(inodes) + 1
      <3>1. \A p \in DOMAIN processes : processes[p] \in Process
        BY DEF TypeOK
      <3> QED  BY <1>3, <3>1 DEF MachinesApart, Process
    <2> QED  BY <1>1, <1>2, <1>3, <1>4, <1>5, <2>1 DEF OverlayFresh, Alive
  <1>12. ConfigInPlace'
    BY DEF ConfigInPlace
  <1>13. MachinesApart' /\ NoStateCarried' /\ DigestsOfBooted'
    <2>1. \A p \in DOMAIN processes : processes[p].overlay \in Nat
      <3>1. \A p \in DOMAIN processes : processes[p] \in Process
        BY DEF TypeOK
      <3> QED  BY <3>1 DEF Process
    <2> QED  BY <1>1, <1>2, <1>3, <1>4, <2>1
             DEF MachinesApart, NoStateCarried, DigestsOfBooted, Alive
  <1>14. DigestsHold'
    <2>1. ASSUME NEW path \in Paths, IsImage(files'[path])
          PROVE  IsImage(files[path]) /\ data(path)' = data(path)
      <3>1. path # ov /\ files'[path] = files[path]
        BY <1>5, <1>9, <2>1
      <3>2. files[path] \in DOMAIN inodes
        BY <1>3, <2>1, <3>1 DEF IsImage
      <3> QED  BY <1>4, <2>1, <3>1, <3>2 DEF data, exists
    <2>2. spec.kernel_image \in Paths /\ spec.rootfs.path \in Paths
      BY <1>2, SpecIs
    <2> QED  BY <1>1, <2>1, <2>2 DEF DigestsHold, IsImage, Measured
  <1>15. HandleKnown'
    BY <1>1, <1>2 DEF HandleKnown, Untouched, Prepared, Booted
  <1>16. AliveIsOwned'
    BY <1>1 DEF AliveIsOwned, Alive
  <1>17. FilesFramed'
    BY <1>1, <1>2, <1>5 DEF FilesFramed, Untouched, Prepared, Booted, After
  <1> QED  BY <1>6, <1>7, <1>8, <1>10, <1>11, <1>12, <1>13, <1>14, <1>15, <1>16, <1>17

\* Unlinking the overlay's path takes nothing from the inodes.
LEMMA OverlayUnlinked ==
    ASSUME Inv, unlink(ov), UNCHANGED <<spec, inodes>>
    PROVE  /\ files' \in [Paths -> Nat] /\ ov \in Paths
           /\ files'[ov] = 0
           /\ \A path \in Paths : path # ov => files'[path] = files[path]
           /\ \A path \in Paths : files'[path] <= Len(inodes)
           /\ \A path \in Paths : Len(Images) < files'[path] => Len(Images) < files[path]
           /\ \A path \in Paths : IsImage(files'[path]) => IsImage(files[path])
  <1>1. files \in [Paths -> Nat] /\ ov \in Paths /\ files' = [files EXCEPT ![ov] = 0]
    BY OverlayIsPath DEF Inv, TypeOK, ov, unlink
  <1>2. Len(Images) \in Nat /\ Len(inodes) \in Nat
    BY FirecrackerAssumption DEF Inv, TypeOK
  <1> QED  BY <1>1, <1>2 DEF Inv, ImagesIntact, IsImage

\* ... so it spares the images too.
LEMMA UnlinkKeeps ==
    ASSUME Inv, unlink(ov), UNCHANGED <<spec, before, inodes, configs>>
    PROVE  ImagesIntact' /\ ConfigsSpareImages'
  <1> USE DEF Inv
  <1>1. ImagesIntact'
    BY OverlayUnlinked DEF ImagesIntact, IsImage
  <1>2. ConfigsSpareImages'
    <2> SUFFICES ASSUME NEW place \in Directories \X RunIds, configs[place] # NoConfig
                 PROVE  ~IsImage(files'[configs[place].drives["overlay"].path_on_host])
      BY DEF ConfigsSpareImages, IsImage
    <2>1. PICK s \in Specs : validate(s) /\ configs[place] = build_firecracker_config(s)
      BY ConfigIs DEF TypeOK
    <2>2. configs[place].drives["overlay"].path_on_host = s.overlay.path /\ s.overlay.path \in Paths
      BY <2>1, BuildIs, OverlayIsPath
    <2> QED  BY <2>2, OverlayUnlinked DEF ConfigsSpareImages
  <1> QED  BY <1>1, <1>2

\* prepare_overlay may get no further than the unlink.
LEMMA OverlayHalfMade ==
    ASSUME Inv, pc = "prepare_overlay", pc' = "destroy", unlink(ov),
           UNCHANGED <<inodes, configs, processes, _procs, argVars, digestVars, proc, killing,
                       failed, destroys>>
    PROVE  Inv'
  <1> USE DEF Inv
  <1>1. /\ UNCHANGED <<inodes, configs, processes, _procs, destroys, spec, config_dir, runs,
                       before, kernel_digest, rootfs_digest, proc, killing, failed>>
        /\ ov' = ov /\ validate(spec) /\ proc = 0 /\ destroys = 0 /\ files = before
    BY DEF argVars, digestVars, ov, Validated, HandleKnown, FilesFramed, Untouched
  <1>2. TypeOK' /\ Validated'
    BY <1>1, OverlayUnlinked DEF TypeOK, Validated
  <1>3. ImagesIntact' /\ ConfigsSpareImages'
    BY <1>1, UnlinkKeeps
  <1>4. MachinesApart' /\ NoStateCarried' /\ DigestsOfBooted' /\ AliveIsOwned'
    BY <1>1 DEF MachinesApart, NoStateCarried, DigestsOfBooted, Alive, AliveIsOwned
  <1>5. FilesFramed'
    BY <1>1, OverlayUnlinked DEF FilesFramed, Untouched, Prepared, Booted, After
  <1> QED  BY <1>2, <1>3, <1>4, <1>5
           DEF OverlayFresh, ConfigInPlace, DigestsHold, HandleKnown,
               Untouched, Prepared, Measured, Booted

\* write_text leaves the config of this run's spec, or, failing, none.
LEMMA ConfigChanged ==
    ASSUME Inv, pc = "write_config", config_dir # None, pc' \in {"spawn_vm", "destroy"},
           NEW c, c \in {NoConfig, build_firecracker_config(spec)},
           pc' = "spawn_vm" => c = build_firecracker_config(spec),
           configs' = [configs EXCEPT ![cfg_path] = c],
           UNCHANGED <<files, inodes, processes, _procs, argVars, digestVars, proc, killing,
                       failed, destroys>>
    PROVE  Inv'
  <1> USE DEF Inv
  <1>1. /\ UNCHANGED <<files, inodes, processes, _procs, destroys, spec, config_dir, runs,
                       before, kernel_digest, rootfs_digest, proc, killing, failed>>
        /\ cfg_path' = cfg_path /\ validate(spec) /\ spec \in Specs
        /\ proc = 0 /\ destroys = 0
    BY DEF argVars, digestVars, cfg_path, Validated, HandleKnown, FilesFramed, Prepared, TypeOK
  <1>2. cfg_path \in Directories \X RunIds
    <2>1. config_dir \in Directories /\ spec.run_id \in RunIds
      BY <1>1, FirecrackerRunAssumption, SpecIs DEF TypeOK
    <2> QED  BY <2>1 DEF cfg_path
  <1>3. c \in Config
    BY <1>1 DEF Config
  <1>4. /\ configs' \in [Directories \X RunIds -> Config] /\ configs'[cfg_path] = c
        /\ \A place \in Directories \X RunIds : place # cfg_path => configs'[place] = configs[place]
    BY <1>2, <1>3 DEF TypeOK
  <1>5. TypeOK' /\ Validated'
    BY <1>1, <1>4 DEF TypeOK, Validated, Prepared
  <1>6. ImagesIntact'
    BY <1>1 DEF ImagesIntact, IsImage
  <1>7. ConfigsSpareImages'
    <2> SUFFICES ASSUME NEW place \in Directories \X RunIds, configs'[place] # NoConfig
                 PROVE  ~IsImage(files[configs'[place].drives["overlay"].path_on_host])
      BY <1>1 DEF ConfigsSpareImages, IsImage
    <2>1. CASE place = cfg_path
      <3>1. configs'[place].drives["overlay"].path_on_host = ov
        BY <1>4, <2>1, BuildIs DEF ov
      <3> QED  BY <3>1, FirecrackerAssumption DEF OverlayFresh, Prepared, IsImage, TypeOK,
                  ImagesIntact
    <2>2. CASE place # cfg_path
      BY <1>4, <2>2 DEF ConfigsSpareImages
    <2> QED  BY <2>1, <2>2
  <1>8. OverlayFresh'
    BY <1>1 DEF OverlayFresh, Prepared, Alive, ov
  <1>9. ConfigInPlace'
    BY <1>1, <1>4 DEF ConfigInPlace
  <1>10. DigestsHold'
    BY <1>1 DEF DigestsHold, Measured, IsImage, data, exists
  <1>11. MachinesApart' /\ NoStateCarried' /\ DigestsOfBooted' /\ AliveIsOwned'
    BY <1>1 DEF MachinesApart, NoStateCarried, DigestsOfBooted, Alive, AliveIsOwned
  <1>12. FilesFramed'
    BY <1>1 DEF FilesFramed, Untouched, Prepared, Booted, After, ov
  <1>13. HandleKnown'
    BY <1>1 DEF HandleKnown, Untouched, Prepared, Booted
  <1> QED  BY <1>5, <1>6, <1>7, <1>8, <1>9, <1>10, <1>11, <1>12, <1>13

\* WriteConfig, in a directory of the caller's or nowhere.
LEMMA WriteConfigKeeps ==
    ASSUME Inv, WriteConfig
    PROVE  Inv'
  <1>1. /\ UNCHANGED <<files, inodes, processes, _procs, argVars, digestVars, proc, killing,
                       failed, destroys>>
        /\ pc = "write_config" /\ pc' = "spawn_vm"
        /\ configs' = IF config_dir = None THEN configs
                      ELSE [configs EXCEPT ![cfg_path] = build_firecracker_config(spec)]
    BY DEF WriteConfig, supVars, localVars
  <1>2. CASE config_dir # None
    BY <1>1, <1>2, ConfigChanged
  <1>3. CASE config_dir = None
    <2>1. Quiet
      BY <1>1, <1>3, StillIsQuiet DEF fcVars
    <2>2. Onward
      BY <1>1, <1>3 DEF Onward, Untouched, Prepared, Booted, After
    <2> QED  BY <1>1, <2>1, <2>2, QuietKeeps, QuietKeepsDigests DEF Inv, Measured
  <1> QED  BY <1>2, <1>3

\* Whatever raises, and however far it got.
LEMMA RaisesKeeps ==
    ASSUME Inv, Raises
    PROVE  Inv'
  <1>1. /\ pc \in {"measure_image", "prepare_overlay", "write_config", "boot"}
        /\ pc = "write_config" => config_dir # None
        /\ pc' = "destroy"
        /\ UNCHANGED <<argVars, digestVars, proc, killing, failed, destroys>>
    BY DEF Raises
  <1>2. CASE UNCHANGED fcVars
    <2>1. Quiet
      BY <1>1, <1>2, StillIsQuiet
    <2>2. Onward
      BY <1>1 DEF Onward, Inv, Validated, Untouched, Prepared, Booted, After
    <2> QED  BY <1>1, <2>1, <2>2, QuietKeeps, QuietKeepsDigests DEF Inv, Measured
  <1>3. CASE /\ pc = "prepare_overlay"
             /\ unlink(spec.overlay.path) \/ prepare_overlay(spec.overlay.path)
             /\ IF files'[spec.overlay.path] = 0 THEN UNCHANGED inodes ELSE TRUE
             /\ UNCHANGED <<configs, processes, _procs>>
    <2>1. CASE prepare_overlay(ov)
      BY <1>1, <1>3, <2>1, OverlayMade
    <2>2. CASE unlink(ov)
      <3>1. files'[ov] = 0
        BY <2>2, OverlayIsPath DEF unlink, ov, Inv, TypeOK
      <3>2. UNCHANGED inodes
        BY <1>3, <3>1 DEF ov
      <3> QED  BY <1>1, <1>3, <2>2, <3>2, OverlayHalfMade
    <2> QED  BY <1>3, <2>1, <2>2 DEF ov
  <1>4. CASE /\ pc = "write_config"
             /\ configs' = [configs EXCEPT ![cfg_path] = NoConfig]
             /\ UNCHANGED <<files, inodes, processes, _procs>>
    BY <1>1, <1>4, ConfigChanged
  <1> QED  BY <1>2, <1>3, <1>4 DEF Raises

\* A process starts unsignalled, and runs only from a config whose images are
\* images and whose overlay is none.
LEMMA MachineIs ==
    ASSUME Inv, NEW place \in Directories \X RunIds
    PROVE  LET c == configs[place]  m == Machine(c) IN
           /\ m \in Process /\ m.state # "reaped" /\ ~m.signalled
           /\ m.state = "running" =>
                /\ c # NoConfig /\ m.config = c
                /\ IsImage(files[c.kernel_image_path]) /\ m.kernel = data(c.kernel_image_path)
                /\ exists(c.drives["rootfs"].path_on_host)
                /\ m.rootfs = data(c.drives["rootfs"].path_on_host)
                /\ Len(Images) < files[c.drives["overlay"].path_on_host]
                /\ m.overlay = files[c.drives["overlay"].path_on_host]
                /\ m.overlay <= Len(inodes)
  <1> USE DEF Inv
  <1> DEFINE c == configs[place]
             m == Machine(c)
  <1>1. c \in Config
    BY DEF TypeOK
  <1>2. Zeros \in Datum
    BY DEF Datum
  <1>3. Len(Images) \in Nat /\ inodes \in Seq(Datum) /\ files \in [Paths -> Nat]
    BY FirecrackerAssumption DEF TypeOK
  <1>4. c # NoConfig => ~IsImage(files[c.drives["overlay"].path_on_host])
    BY DEF ConfigsSpareImages
  <1> HIDE DEF c
  <1>5. CASE ~Bootable(c)
    <2>1. m = [state |-> "exited", signalled |-> FALSE, blocked |-> FALSE, config |-> c,
               kernel |-> Zeros, rootfs |-> Zeros, overlay |-> 0]
      BY <1>5 DEF Machine
    <2>2. m \in Process /\ m.state = "exited" /\ ~m.signalled
      BY <1>1, <1>2, <2>1 DEF Process
    <2> QED  BY <2>2 DEF c
  <1>6. CASE Bootable(c)
    <2>1. /\ c # NoConfig
          /\ data(c.kernel_image_path) \in {Image(path) : path \in Paths}
          /\ exists(c.drives["rootfs"].path_on_host) /\ exists(c.drives["overlay"].path_on_host)
      BY <1>6 DEF Bootable
    <2>2. PICK s \in Specs : validate(s) /\ c = build_firecracker_config(s)
      BY <1>1, <2>1, ConfigIs
    <2> DEFINE kp == c.kernel_image_path
               rp == c.drives["rootfs"].path_on_host
               op == c.drives["overlay"].path_on_host
    <2>3. kp \in Paths /\ rp \in Paths /\ op \in Paths
      BY <2>2, BuildIs, SpecIs
    <2> HIDE DEF kp, rp, op
    <2>4. \A path \in Paths : exists(path) =>
              data(path) = inodes[files[path]] /\ files[path] \in DOMAIN inodes
      BY <1>3 DEF exists, data, ImagesIntact
    <2>5. IsImage(files[kp])
      <3>1. exists(kp)
        BY <2>1, DataApart DEF data, kp
      <3>2. data(kp) = inodes[files[kp]] /\ files[kp] \in DOMAIN inodes
        BY <2>3, <2>4, <3>1
      <3>3. data(kp) \notin {Zeros} \cup {WrittenBy(p) : p \in Nat}
        BY <2>1, DataApart DEF kp
      <3>4. ~(Len(Images) < files[kp])
        BY <3>2, <3>3 DEF ImagesIntact
      <3> QED  BY <1>3, <3>2, <3>4 DEF IsImage
    <2>6. Len(Images) < files[op] /\ files[op] <= Len(inodes)
      <3>1. files[op] \in DOMAIN inodes
        BY <2>1, <2>3, <2>4 DEF op
      <3> QED  BY <1>3, <1>4, <2>1, <3>1 DEF IsImage, op
    <2>7. data(kp) \in Datum /\ data(rp) \in Datum /\ files[op] \in Nat
      <3>1. data(kp) \in Datum
        BY <2>1 DEF Datum, kp
      <3>2. data(rp) \in Datum
        <4>1. exists(rp)
          BY <2>1 DEF rp
        <4>2. data(rp) = inodes[files[rp]] /\ files[rp] \in DOMAIN inodes
          BY <2>3, <2>4, <4>1
        <4> QED  BY <1>3, <4>2
      <3> QED  BY <1>3, <2>3, <3>1, <3>2
    <2>8. m = [state |-> "running", signalled |-> FALSE, blocked |-> FALSE, config |-> c,
               kernel |-> data(kp), rootfs |-> data(rp), overlay |-> files[op]]
      BY <1>6 DEF Machine, kp, rp, op
    <2>9. /\ m \in Process /\ m.state = "running" /\ ~m.signalled /\ m.config = c
          /\ m.kernel = data(kp) /\ m.rootfs = data(rp) /\ m.overlay = files[op]
      BY <1>1, <2>7, <2>8 DEF Process
    <2> QED  BY <2>1, <2>5, <2>6, <2>9 DEF kp, rp, op, c
  <1> QED  BY <1>5, <1>6

\* boot(): the new process is the only one that is alive and unsignalled, runs
\* the images that were measured, and is alone on the fresh overlay.
LEMMA BootKeeps ==
    ASSUME Inv, Boot
    PROVE  Inv'
  <1> USE DEF Inv
  <1> DEFINE n == Len(processes) + 1
             c == configs[cfg_path]
             m == Machine(c)
  <1>1. /\ UNCHANGED <<files, inodes, configs, destroys, spec, config_dir, runs, before,
                       kernel_digest, rootfs_digest, killing, failed>>
        /\ pc = "boot" /\ pc' = "hook" /\ proc' = n
        /\ processes' = Append(processes, m)
        /\ _procs' = [_procs EXCEPT ![spec.run_id] = n]
    BY DEF Boot, boot, supVars, localVars, argVars, digestVars
  <1>2. /\ validate(spec) /\ spec \in Specs /\ destroys = 0 /\ proc = 0
        /\ spec.run_id \in RunIds /\ ov \in Paths
        /\ spec.kernel_image \in Paths /\ spec.rootfs.path \in Paths
    BY <1>1, SpecIs DEF TypeOK, Validated, HandleKnown, FilesFramed, Prepared, ov
  <1>3. cfg_path \in Directories \X RunIds
    BY <1>2, FirecrackerRunAssumption DEF cfg_path, Directories, TypeOK
  <1>4. /\ m \in Process /\ m.state # "reaped" /\ ~m.signalled
        /\ m.state = "running" =>
                /\ c # NoConfig /\ m.config = c
                /\ IsImage(files[c.kernel_image_path]) /\ m.kernel = data(c.kernel_image_path)
                /\ exists(c.drives["rootfs"].path_on_host)
                /\ m.rootfs = data(c.drives["rootfs"].path_on_host)
                /\ Len(Images) < files[c.drives["overlay"].path_on_host]
                /\ m.overlay = files[c.drives["overlay"].path_on_host]
                /\ m.overlay <= Len(inodes)
    BY <1>3, MachineIs
  <1>5. config_dir # None => /\ c.kernel_image_path = spec.kernel_image
                             /\ c.drives["rootfs"].path_on_host = spec.rootfs.path
                             /\ c.drives["overlay"].path_on_host = ov
    BY <1>1, BuildIs DEF ConfigInPlace, ov
  <1> HIDE DEF c, m
  <1>6. /\ processes \in Seq(Process) /\ processes' \in Seq(Process) /\ Len(processes) \in Nat
        /\ n \in Nat /\ DOMAIN processes = 1..Len(processes)
        /\ DOMAIN processes' = DOMAIN processes \cup {n} /\ n \notin DOMAIN processes
        /\ Len(processes') = n /\ processes'[n] = m
        /\ \A p \in DOMAIN processes : processes'[p] = processes[p]
    <2>1. processes \in Seq(Process)
      BY DEF TypeOK
    <2> QED  BY <1>1, <1>4, <2>1
  <1> HIDE DEF n
  <1>7. processes'[n].state = m.state
    BY <1>6
  <1>8. \A p \in DOMAIN processes : Alive(p)' <=> Alive(p)
    BY <1>6 DEF Alive
  <1>9. TypeOK'
    <2>1. _procs' \in [RunIds -> Nat]
      BY <1>1, <1>2, <1>6 DEF TypeOK
    <2> QED  BY <1>1, <1>6, <2>1 DEF TypeOK, Booted
  <1>10. Validated' /\ ImagesIntact' /\ ConfigsSpareImages'
    BY <1>1, <1>2 DEF Validated, ImagesIntact, ConfigsSpareImages, IsImage
  <1>11. MachinesApart'
    <2>1. ASSUME NEW p \in DOMAIN processes', Alive(p)'
          PROVE  /\ processes'[p].config # NoConfig
                 /\ Len(Images) < processes'[p].overlay /\ processes'[p].overlay <= Len(inodes)
      <3>1. CASE p = n
        BY <1>4, <1>6, <1>7, <2>1, <3>1 DEF Alive
      <3>2. CASE p # n
        BY <1>6, <1>8, <2>1, <3>2 DEF MachinesApart
      <3> QED  BY <3>1, <3>2
    <2>2. ASSUME config_dir # None, processes'[n].state = "running",
                 NEW p \in DOMAIN processes', Alive(p)', p # n
          PROVE  processes'[p].overlay # processes'[n].overlay
      <3>1. processes'[n].overlay = files[ov]
        BY <1>4, <1>5, <1>6, <1>7, <2>2
      <3>2. p \in DOMAIN processes /\ Alive(p) /\ processes'[p] = processes[p]
        BY <1>6, <1>8, <2>2
      <3> QED  BY <1>1, <3>1, <3>2 DEF OverlayFresh, Prepared
    <2> QED  BY <1>1, <2>1, <2>2 DEF MachinesApart, Alive
  <1>12. NoStateCarried'
    <2> SUFFICES ASSUME config_dir # None, processes'[n].state = "running"
                 PROVE  inodes[processes'[n].overlay] = Zeros
      BY <1>1 DEF NoStateCarried, Alive
    <2>1. processes'[n].overlay = files[ov]
      BY <1>4, <1>5, <1>6, <1>7
    <2> QED  BY <1>1, <2>1 DEF OverlayFresh, Prepared
  <1>13. DigestsOfBooted'
    <2> SUFFICES ASSUME config_dir # None, processes'[n].state = "running"
                 PROVE  /\ processes'[n].kernel = kernel_digest
                        /\ RootfsApart => processes'[n].rootfs = rootfs_digest
      BY <1>1 DEF DigestsOfBooted, Alive
    <2>1. /\ IsImage(files[spec.kernel_image]) /\ m.kernel = data(spec.kernel_image)
          /\ exists(spec.rootfs.path) /\ m.rootfs = data(spec.rootfs.path)
      BY <1>4, <1>5, <1>7
    <2>2. ASSUME RootfsApart PROVE IsImage(files[spec.rootfs.path])
      <3>1. ~(Len(Images) < files[spec.rootfs.path])
        BY <1>2, <2>2 DEF RootfsApart, ImagesIntact
      <3>2. files[spec.rootfs.path] \in Nat \ {0} /\ Len(Images) \in Nat
        BY <1>2, <2>1, FirecrackerAssumption DEF exists, TypeOK
      <3> QED  BY <3>1, <3>2 DEF IsImage
    <2> QED  BY <1>1, <1>6, <2>1, <2>2 DEF DigestsHold, Measured
  <1>14. HandleKnown'
    <2>1. _procs'[spec.run_id] = n /\ n # 0
      BY <1>1, <1>2, <1>6 DEF TypeOK
    <2> QED  BY <1>1, <2>1 DEF HandleKnown, handle, Untouched, Prepared, Booted
  <1>15. AliveIsOwned'
    <2> SUFFICES ASSUME NEW p \in DOMAIN processes', Alive(p)', ~processes'[p].signalled
                 PROVE  p = n
      <3>1. _procs'[spec.run_id] = n
        BY <1>1, <1>2 DEF TypeOK
      <3> QED  BY <1>1, <3>1 DEF AliveIsOwned, handle
    <2> QED  BY <1>1, <1>6, <1>8 DEF AliveIsOwned
  <1>16. FilesFramed'
    BY <1>1 DEF FilesFramed, Untouched, Prepared, Booted, After, ov
  <1>17. OverlayFresh' /\ ConfigInPlace' /\ DigestsHold'
    BY <1>1 DEF OverlayFresh, ConfigInPlace, DigestsHold, Prepared, Measured
  <1> QED  BY <1>9, <1>10, <1>11, <1>12, <1>13, <1>14, <1>15, <1>16, <1>17

\* destroy(): whatever it leaves alive is signalled; the overlay's path is free
\* again unless unlink failed.
LEMMA DestroyEndsKeeps ==
    ASSUME Inv, DestroyEnds
    PROVE  Inv'
  <1> USE DEF Inv
  <1>1. /\ UNCHANGED <<inodes, configs, spec, config_dir, runs, before, kernel_digest,
                       rootfs_digest, proc>>
        /\ pc = "destroy" /\ pc' = "exit_vm" /\ killing' = FALSE /\ destroys' = destroys + 1
        /\ handle # 0 => ~Alive(handle)
        /\ processes' = processes \/ (proc # 0 /\ reap(proc))
        /\ _procs' = [_procs EXCEPT ![spec.run_id] = 0]
        /\ \/ unlink(ov) /\ failed' = (failed \/ (proc # 0 /\ Alive(proc)))
           \/ failed' = TRUE /\ UNCHANGED files
    <2>1. DiscardOverlay
      BY DEF DestroyEnds
    <2>2. \/ unlink(ov) /\ failed' = (failed \/ (proc # 0 /\ Alive(proc)))
          \/ failed' = TRUE /\ UNCHANGED files
      BY <2>1, Zenon DEF DiscardOverlay, ov
    <2>3. /\ UNCHANGED <<inodes, configs, spec, config_dir, runs, before, kernel_digest,
                         rootfs_digest, proc>>
          /\ pc = "destroy" /\ pc' = "exit_vm" /\ killing' = FALSE /\ destroys' = destroys + 1
          /\ _procs' = [_procs EXCEPT ![spec.run_id] = 0]
      BY DEF DestroyEnds, argVars, digestVars
    <2>4. handle # 0 => ~Alive(handle)
      BY DEF DestroyEnds
    <2>5. processes' = processes \/ (proc # 0 /\ reap(proc))
      BY DEF DestroyEnds
    <2> QED  BY <2>2, <2>3, <2>4, <2>5, Zenon
  <1>2. /\ failed' \in BOOLEAN /\ ~failed' => ~failed /\ unlink(ov)
        /\ unlink(ov) \/ UNCHANGED files
    BY <1>1, Zenon DEF TypeOK
  <1>3. SameMachines
    <2>1. processes \in Seq(Process) /\ (proc # 0 => proc \in DOMAIN processes)
      BY DEF TypeOK
    <2>2. processes' = processes => SameMachines
      BY <2>1 DEF SameMachines, Alive
    <2> QED  BY <1>1, <2>1, <2>2, TouchIs
  <1>4. DOMAIN processes' = DOMAIN processes /\ Len(processes') = Len(processes)
        /\ DOMAIN processes = 1..Len(processes) /\ (proc # 0 => proc \in DOMAIN processes)
    BY <1>3 DEF TypeOK, SameMachines
  <1>5. /\ files' \in [Paths -> Nat] /\ ov' = ov /\ ov \in Paths
        /\ unlink(ov) => files' = [files EXCEPT ![ov] = 0]
    BY <1>1, <1>2, OverlayUnlinked, OverlayIsPath DEF TypeOK, unlink, ov
  <1>6. TypeOK'
    <2>1. _procs' \in [RunIds -> Nat]
      BY <1>1 DEF TypeOK
    <2> QED  BY <1>1, <1>2, <1>3, <1>5, <2>1 DEF TypeOK, SameMachines, After
  <1>7. Validated'
    BY <1>1 DEF Validated
  <1>8. ImagesIntact' /\ ConfigsSpareImages'
    <2>1. CASE unlink(ov)
      BY <1>1, <2>1, UnlinkKeeps
    <2>2. CASE UNCHANGED files
      BY <1>1, <2>2 DEF ImagesIntact, ConfigsSpareImages, IsImage
    <2> QED  BY <1>2, <2>1, <2>2
  <1>9. MachinesApart' /\ NoStateCarried' /\ DigestsOfBooted'
    <2>1. \A p \in DOMAIN processes : Alive(p)' =>
              /\ Alive(p) /\ processes'[p].config = processes[p].config
              /\ processes'[p].overlay = processes[p].overlay
              /\ processes'[p].kernel = processes[p].kernel
              /\ processes'[p].rootfs = processes[p].rootfs
      BY <1>3 DEF SameMachines
    <2>2. MachinesApart'
      BY <1>1, <1>4, <2>1 DEF MachinesApart, Alive
    <2>3. NoStateCarried' /\ DigestsOfBooted'
      BY <1>1, <1>4, <2>1 DEF NoStateCarried, DigestsOfBooted, Alive, WrittenBy
    <2> QED  BY <2>2, <2>3
  <1>10. HandleKnown' /\ OverlayFresh' /\ ConfigInPlace' /\ DigestsHold'
    BY <1>1 DEF HandleKnown, OverlayFresh, ConfigInPlace, DigestsHold, Untouched, Prepared,
                Booted, Measured
  <1>11. AliveIsOwned'
    <2> SUFFICES ASSUME NEW p \in DOMAIN processes, Alive(p)', ~processes'[p].signalled
                 PROVE  FALSE
      BY <1>4 DEF AliveIsOwned
    <2>1. Alive(p) /\ ~processes[p].signalled
      BY <1>3 DEF SameMachines
    <2>2. handle = p /\ p # 0
      BY <1>4, <2>1 DEF AliveIsOwned
    <2> QED  BY <1>1, <2>1, <2>2
  <1>12. FilesFramed'
    <2>1. destroys' = 1
      BY <1>1 DEF FilesFramed
    <2>2. ASSUME unlink(ov) PROVE files' = [before EXCEPT ![ov] = 0]
      <3>1. \A path \in Paths : path # ov => files[path] = before[path]
        BY <1>1 DEF FilesFramed
      <3>2. files \in [Paths -> Nat] /\ before \in [Paths -> Nat]
        BY DEF TypeOK
      <3> QED  BY <1>5, <2>2, <3>1, <3>2
    <2> QED  BY <1>1, <1>2, <1>5, <2>1, <2>2 DEF FilesFramed, Untouched, Prepared, Booted, After
  <1> QED  BY <1>6, <1>7, <1>8, <1>9, <1>10, <1>11, <1>12

\* The next run starts from the files as the last one left them.
LEMMA NextRunKeeps ==
    ASSUME Inv, NextRun
    PROVE  Inv'
  <1> USE DEF Inv
  <1>1. /\ UNCHANGED <<files, inodes, configs, processes, _procs, failed>>
        /\ pc \in {"report", "reraise"} /\ pc' = "validate"
        /\ proc' = 0 /\ killing' = FALSE /\ destroys' = 0
        /\ spec' \in Specs /\ config_dir' \in ConfigDirs /\ before' = files
    BY DEF NextRun, S!Finished, fcVars
  <1>2. TypeOK'
    <2>1. Len(processes) \in Nat
      BY DEF TypeOK
    <2>2. proc' \in 0..Len(processes')
      BY <1>1, <2>1
    <2>4. killing' \in BOOLEAN /\ pc' \in Untouched
      BY <1>1 DEF Untouched
    <2>3. files' \in [Paths -> Nat] /\ before' \in [Paths -> Nat]
      BY <1>1 DEF TypeOK
    <2> QED  BY <1>1, <2>2, <2>3, <2>4 DEF TypeOK
  <1>3. Validated' /\ ImagesIntact' /\ ConfigsSpareImages'
    BY <1>1 DEF Validated, ImagesIntact, ConfigsSpareImages, IsImage
  <1>4. MachinesApart' /\ NoStateCarried' /\ DigestsOfBooted'
    BY <1>1 DEF MachinesApart, NoStateCarried, DigestsOfBooted, Alive
  <1>5. AliveIsOwned'
    BY <1>1 DEF AliveIsOwned, Alive
  <1>6. HandleKnown' /\ OverlayFresh' /\ ConfigInPlace' /\ DigestsHold'
    BY <1>1 DEF HandleKnown, OverlayFresh, ConfigInPlace, DigestsHold, Untouched, Prepared,
                Booted, Measured
  <1>7. FilesFramed'
    <2>1. ASSUME ~failed PROVE \A path \in Paths : files[path] <= Len(Images)
      <3>1. \A path \in Paths : before[path] <= Len(Images) /\ before[path] \in Nat
        BY <2>1 DEF FilesFramed, TypeOK
      <3>2. files = before \/ files = [before EXCEPT ![ov] = 0]
        BY <1>1, <2>1 DEF FilesFramed, After
      <3>3. Len(Images) \in Nat /\ before \in [Paths -> Nat]
        BY FirecrackerAssumption DEF TypeOK
      <3> QED  BY <3>1, <3>2, <3>3
    <2> QED  BY <1>1, <2>1 DEF FilesFramed, Untouched, Prepared, Booted, After
  <1> QED  BY <1>2, <1>3, <1>4, <1>5, <1>6, <1>7

-------------------------------------------------------------------------------
\* Every step of the program, of a VM and of the kernel keeps the invariant.
LEMMA StepInv == Inv /\ [Next]_vars => Inv'
  <1> SUFFICES ASSUME Inv, [Next]_vars PROVE Inv'
    OBVIOUS
  <1>1. CASE Validate \/ LedgerStep \/ Hook
    BY <1>1, OffBackendKeeps
  <1>2. CASE Measure
    BY <1>2, MeasureKeeps
  <1>3. CASE PrepareOverlay
    BY <1>3, OverlayMade DEF PrepareOverlay, ov, supVars, localVars
  <1>4. CASE WriteConfig
    BY <1>4, WriteConfigKeeps
  <1>5. CASE Boot
    BY <1>5, BootKeeps
  <1>6. CASE Raises
    BY <1>6, RaisesKeeps
  <1>7. CASE WaitReturns \/ WaitExpires \/ WaitRaises
    BY <1>7, WaitKeeps
  <1>8. CASE DestroyKills
    BY <1>8, DestroyKillsKeeps
  <1>9. CASE DestroyEnds
    BY <1>9, DestroyEndsKeeps
  <1>10. CASE NextRun
    BY <1>10, NextRunKeeps
  <1>11. CASE \E p \in DOMAIN processes : Vm(p)
    BY <1>11, GuestWritesKeeps, VmStepKeeps DEF Vm, VmStep
  <1>12. CASE UNCHANGED vars
    <2>1. UNCHANGED <<pc, argVars, digestVars, proc, killing, failed, fcVars, destroys>>
      BY <1>12 DEF vars, supVars, localVars
    <2>2. Quiet
      BY <2>1, StillIsQuiet
    <2>3. Onward
      BY <2>1 DEF Onward, Inv, TypeOK, Validated, Untouched, Prepared, Booted, After
    <2> QED  BY <2>1, <2>2, <2>3, QuietKeeps, QuietKeepsDigests DEF Inv
  <1> QED  BY <1>1, <1>2, <1>3, <1>4, <1>5, <1>6, <1>7, <1>8, <1>9, <1>10, <1>11, <1>12
           DEF Next, RunStep

\* So it always holds, run after run.
THEOREM InvHolds == Spec => []Inv
  BY InitInv, StepInv, PTL DEF Spec

\* No VM is out of reach of destroy(), on however many runs.
THEOREM AliveAreOwned == Spec => []AliveIsOwned
  <1>1. Inv => AliveIsOwned
    BY DEF Inv
  <1> QED  BY <1>1, InvHolds, PTL

\* No VM meets data of another, even if unlink or a kill failed before.
THEOREM NothingIsCarried == Spec => []NoStateCarried
  <1>1. Inv => NoStateCarried
    BY DEF Inv
  <1> QED  BY <1>1, InvHolds, PTL

\* Every VM alive was booted from the config of a validated spec.
LEMMA InvGuarantees == ASSUME Inv PROVE GuaranteesHold
  <1> SUFFICES ASSUME NEW p \in DOMAIN processes, Alive(p)
               PROVE  LET config == processes[p].config IN
                      /\ config.drives["rootfs"].is_read_only
                      /\ config.drives["rootfs"].path_on_host
                            # config.drives["overlay"].path_on_host
                      /\ config.vcpu_count <= MAX_VCPUS /\ config.mem_size_mib <= MAX_MEM_MIB
                      /\ config.boot_args \cap BannedArgs = {}
    BY DEF GuaranteesHold
  <1>1. processes[p] \in Process
    BY DEF Inv, TypeOK
  <1>2. processes[p].config \in Config /\ processes[p].config # NoConfig
    BY <1>1 DEF Inv, MachinesApart, Process
  <1>3. PICK s \in Specs : validate(s) /\ processes[p].config = build_firecracker_config(s)
    BY <1>2, ConfigIs
  <1>4. /\ s.rootfs.path # s.overlay.path /\ s.vcpus <= MAX_VCPUS /\ s.mem_mib <= MAX_MEM_MIB
        /\ s.kernel_args \cap BannedArgs = {}
    <2>1. s.vcpus \in 1..MAX_VCPUS /\ s.mem_mib \in 128..MAX_MEM_MIB
      BY <1>3 DEF validate
    <2>2. s.rootfs.path # s.overlay.path /\ s.kernel_args \cap BannedArgs = {}
      BY <1>3 DEF validate
    <2>3. s.vcpus <= MAX_VCPUS
      BY <2>1 DEF MAX_VCPUS
    <2>4. s.mem_mib <= MAX_MEM_MIB
      <3>1. MAX_MEM_MIB \in Nat
        BY DEF MAX_MEM_MIB
      <3> QED  BY <2>1, <3>1
    <2> QED  BY <2>2, <2>3, <2>4
  <1> QED  BY <1>3, <1>4, BuildIs

\* What describe_guarantees says of a spec holds of every VM that runs.
THEOREM GuaranteesAlwaysHold == Spec => []GuaranteesHold
  BY InvHolds, InvGuarantees, PTL

\* At its end a run that could kill and unlink left nothing behind.
LEMMA InvNothingPersists == ASSUME Inv PROVE NothingPersists
  <1> SUFFICES ASSUME pc \in {"report", "reraise"}, ~failed
               PROVE  /\ files = IF destroys = 0 THEN before
                                 ELSE [before EXCEPT ![spec.overlay.path] = 0]
                      /\ \A path \in Paths : \A p \in DOMAIN processes :
                            data(path) # WrittenBy(p)
    BY DEF NothingPersists, S!Finished
  <1>1. \/ destroys = 0 /\ files = before
        \/ destroys = 1 /\ files = [before EXCEPT ![spec.overlay.path] = 0]
    BY DEF Inv, FilesFramed, After, ov
  <1>2. ASSUME NEW path \in Paths, NEW p PROVE data(path) # WrittenBy(p)
    <2>1. before[path] <= Len(Images) /\ before[path] \in Nat /\ Len(Images) \in Nat
      BY FirecrackerAssumption DEF Inv, FilesFramed, TypeOK
    <2>2. files[path] \in {0, before[path]}
      BY <1>1 DEF Inv, TypeOK
    <2>3. CASE ~exists(path)
      BY <2>3, DataApart DEF data
    <2>4. CASE exists(path)
      <3>1. IsImage(files[path]) /\ data(path) = inodes[files[path]]
        BY <2>1, <2>2, <2>4 DEF exists, IsImage, data
      <3>2. files[path] \in DOMAIN inodes
        BY <2>1, <3>1 DEF IsImage, Inv, ImagesIntact, TypeOK
      <3> QED  BY <3>1, <3>2, DataApart DEF Inv, ImagesIntact
    <2> QED  BY <2>3, <2>4
  <1> QED  BY <1>1, <1>2

\* describe_guarantees: "nothing persists", whatever the specs share.
THEOREM RunsLeaveNothing == Spec => []NothingPersists
  BY InvHolds, InvNothingPersists, PTL

\* The kernel a VM runs is the one whose digest its ledger holds.
THEOREM KernelIsMeasured ==
    Spec => [](config_dir # None /\ proc # 0 /\ Alive(proc) =>
                  processes[proc].kernel = kernel_digest)
  <1>1. Inv => (config_dir # None /\ proc # 0 /\ Alive(proc) =>
                  processes[proc].kernel = kernel_digest)
    BY DEF Inv, DigestsOfBooted
  <1> QED  BY <1>1, InvHolds, PTL

\* ... and so is its rootfs, as long as no run's overlay lies where another
\* run's rootfs is: an overlay that could not be removed would be measured.
THEOREM BootedAreMeasured ==
    ASSUME RootfsApart
    PROVE  Spec => []BootedIsMeasured
  <1>1. Inv => BootedIsMeasured
    BY DEF Inv, DigestsOfBooted, BootedIsMeasured
  <1> QED  BY <1>1, InvHolds, PTL

-------------------------------------------------------------------------------
\* The supervisor sees its VM and its overlay through these variables only.
LEMMA SeenAlike ==
    ASSUME UNCHANGED <<files, before, spec, proc>>,
           proc # 0 => (processes'[proc].state = "reaped" <=> processes[proc].state = "reaped")
    PROVE  VmSeen' = VmSeen /\ OverlaySeen' = OverlaySeen
  BY DEF VmSeen, OverlaySeen, exists

\* A step of a VM, of the kernel, or one that changes nothing, is none of the
\* supervisor's.
LEMMA QuietStutters ==
    ASSUME Inv, UNCHANGED <<pc, supVars, files, before, spec, proc>>,
           proc # 0 => (processes'[proc].state = "reaped" <=> processes[proc].state = "reaped")
    PROVE  UNCHANGED S!supVars
  BY SeenAlike
  DEF S!supVars, S!ledgerVars, S!countVars, S!localVars, S!backendVars,
      supVars, ledgerVars, countVars, localVars

\* The statements of the try block, one by one.
LEMMA TryBlockRefines ==
    ASSUME Inv, Measure \/ PrepareOverlay \/ WriteConfig \/ Boot
    PROVE  S!Measure \/ S!PrepareOverlay \/ S!WriteConfig \/ S!Boot
  <1> USE DEF S!supVars, S!ledgerVars, S!countVars, S!localVars, S!backendVars,
              supVars, ledgerVars, countVars, localVars, argVars, digestVars, fcVars
  <1>1. CASE Measure
    <2>1. VmSeen' = VmSeen /\ OverlaySeen' = OverlaySeen
      BY <1>1, SeenAlike DEF Measure
    <2> QED  BY <1>1, <2>1 DEF Measure, S!Measure
  <1>2. CASE PrepareOverlay
    <2>1. UNCHANGED <<processes, proc, before, spec>> /\ prepare_overlay(ov)
      BY <1>2 DEF PrepareOverlay, ov
    <2>2. VmSeen' = VmSeen
      BY <2>1 DEF VmSeen
    <2>3. files'[ov] = Len(inodes) + 1 /\ Len(inodes) \in Nat
      BY <2>1, OverlayIsPath DEF Inv, TypeOK, prepare_overlay, ov
    <2>4. before[ov] <= Len(inodes) /\ before[ov] \in Nat
      BY OverlayIsPath DEF Inv, ImagesIntact, TypeOK, ov
    <2>5. OverlaySeen' = TRUE
      <3>1. exists(ov)' /\ files'[ov] # before[ov]
        BY <2>1, <2>3, <2>4 DEF exists, ov
      <3> QED  BY <2>1, <3>1 DEF OverlaySeen, exists, ov
    <2> QED  BY <1>2, <2>2, <2>5 DEF PrepareOverlay, S!PrepareOverlay
  <1>3. CASE WriteConfig
    <2>1. VmSeen' = VmSeen /\ OverlaySeen' = OverlaySeen
      BY <1>3, SeenAlike DEF WriteConfig
    <2> QED  BY <1>3, <2>1 DEF WriteConfig, S!WriteConfig
  <1>4. CASE Boot
    <2>1. UNCHANGED <<files, before, spec>> /\ proc' = Len(processes) + 1
          /\ processes' = Append(processes, Machine(configs[cfg_path]))
      BY <1>4 DEF Boot, boot
    <2>2. OverlaySeen' = OverlaySeen
      BY <2>1 DEF OverlaySeen, exists
    <2>3. VmSeen' = "running"
      <3>1. processes'[proc'] = Machine(configs[cfg_path]) /\ proc' # 0
        BY <2>1 DEF Inv, TypeOK
      <3>2. Machine(configs[cfg_path]).state # "reaped"
        BY DEF Machine
      <3> QED  BY <3>1, <3>2 DEF VmSeen
    <2> QED  BY <1>4, <2>2, <2>3 DEF Boot, S!Boot
  <1> QED  BY <1>1, <1>2, <1>3, <1>4

\* What raises raises out of the supervisor's call.
LEMMA RaisesRefines ==
    ASSUME Inv, Raises
    PROVE  S!BackendFails
  <1> USE DEF S!supVars, S!ledgerVars, S!countVars, S!localVars, S!backendVars,
              supVars, ledgerVars, countVars, localVars, argVars, digestVars, fcVars
  <1>1. UNCHANGED <<processes, proc, before, spec>>
    BY DEF Raises
  <1>2. VmSeen' = VmSeen
    BY <1>1 DEF VmSeen
  <1>3. pc # "prepare_overlay" => OverlaySeen' = OverlaySeen
    <2>1. pc # "prepare_overlay" => UNCHANGED files
      BY DEF Raises
    <2> QED  BY <1>1, <2>1 DEF OverlaySeen, exists
  <1>4. OverlaySeen' \in BOOLEAN
    BY DEF OverlaySeen
  <1> QED  BY <1>2, <1>3, <1>4 DEF Raises, S!BackendFails

\* wait() that returns has reaped the process; the kill on the way is no step.
LEMMA WaitRefines ==
    ASSUME Inv, WaitReturns
    PROVE  S!Wait
  <1> USE DEF S!supVars, S!ledgerVars, S!countVars, S!localVars, S!backendVars,
              supVars, ledgerVars, countVars, localVars, argVars, digestVars, fcVars
  <1>1. pc = "wait" /\ handle = proc /\ proc # 0 /\ proc \in DOMAIN processes
    BY DEF WaitReturns, Inv, HandleKnown, TypeOK, Booted
  <1>2. /\ UNCHANGED <<files, before, spec, proc>> /\ ~Alive(proc) /\ reap(proc)
        /\ result' = VmResult
    BY <1>1 DEF WaitReturns
  <1>3. OverlaySeen' = OverlaySeen
    BY <1>2 DEF OverlaySeen, exists
  <1>4. VmSeen' = "stopped"
    <2>1. processes \in Seq(Process) /\ processes[proc] \in Process
      BY <1>1 DEF Inv, TypeOK
    <2>2. processes'[proc].state = "reaped"
      BY <1>1, <1>2, <2>1 DEF reap, Process
    <2> QED  BY <1>1, <1>2, <2>2 DEF VmSeen
  <1>5. killing \in BOOLEAN
    BY DEF Inv, TypeOK
  <1> QED  BY <1>2, <1>3, <1>4, <1>5 DEF WaitReturns, S!Wait, VmResult

\* destroy() that gets rid of both is the contract's; otherwise something failed.
LEMMA DestroyRefines ==
    ASSUME Inv, DestroyEnds, ~failed'
    PROVE  S!Destroy
  <1> USE DEF S!supVars, S!ledgerVars, S!countVars, S!localVars, S!backendVars,
              supVars, ledgerVars, countVars, localVars, argVars, digestVars, fcVars
  <1>1. DiscardOverlay /\ UNCHANGED <<before, spec, proc>>
    BY DEF DestroyEnds
  <1>2. unlink(ov) /\ ~(proc # 0 /\ Alive(proc))
    BY <1>1, Zenon DEF DiscardOverlay, ov
  <1>3. OverlaySeen' = FALSE
    <2>1. files'[ov] = 0
      BY <1>2, OverlayIsPath DEF unlink, Inv, TypeOK, ov
    <2> QED  BY <1>1, <2>1 DEF OverlaySeen, exists, ov
  <1>4. VmSeen' = IF VmSeen = "running" THEN "stopped" ELSE VmSeen
    <2>1. CASE proc = 0
      BY <1>1, <2>1 DEF VmSeen
    <2>2. CASE proc # 0
      <3>1. proc \in DOMAIN processes /\ processes \in Seq(Process) /\ processes[proc] \in Process
        BY <2>2 DEF Inv, TypeOK
      <3>2. reap(proc)
        BY <2>2 DEF DestroyEnds
      <3>3. processes'[proc].state = "reaped"
        BY <1>2, <2>2, <3>1, <3>2 DEF reap, Process
      <3> QED  BY <1>1, <2>2, <3>3 DEF VmSeen
    <2> QED  BY <2>1, <2>2
  <1> QED  BY <1>3, <1>4 DEF DestroyEnds, S!Destroy

\* A new run on the backend is a new run of the supervisor.
LEMMA NextRunRefines ==
    ASSUME Inv, NextRun
    PROVE  S!Finished /\ (S!SupInit)'
  <1>1. UNCHANGED <<files, processes>> /\ before' = files /\ proc' = 0
    BY DEF NextRun, fcVars
  <1>2. VmSeen' = "absent"
    BY <1>1 DEF VmSeen
  <1>3. OverlaySeen' = FALSE
    BY <1>1 DEF OverlaySeen
  <1> QED  BY <1>2, <1>3 DEF NextRun, S!SupInit, S!L!LedgerInit, None, S!None

\* The first run starts as a run of the supervisor.
LEMMA InitRefines == Init => S!SupInit
  BY DEF Init, S!SupInit, S!L!LedgerInit, None, S!None, VmSeen, OverlaySeen

\* Every step is one of the supervisor's, none of its, or the kernel's failure
\* to do what it was asked.
LEMMA StepRefines ==
    ASSUME Inv, [Next]_vars
    PROVE  [failed' \/ S!SupNext \/ (S!Finished /\ (S!SupInit)')]_(S!supVars)
  <1> SUFFICES failed' \/ S!SupNext \/ (S!Finished /\ (S!SupInit)') \/ UNCHANGED S!supVars
    OBVIOUS
  <1>1. CASE Validate \/ LedgerStep \/ Hook
    BY <1>1 DEF Validate, LedgerStep, Hook, OffBackend, S!SupNext, S!RunStep
  <1>2. CASE Measure \/ PrepareOverlay \/ WriteConfig \/ Boot
    BY <1>2, TryBlockRefines DEF S!SupNext, S!RunStep
  <1>3. CASE Raises
    BY <1>3, RaisesRefines DEF S!SupNext, S!RunStep
  <1>4. CASE WaitReturns
    BY <1>4, WaitRefines DEF S!SupNext, S!RunStep
  <1>5. CASE WaitRaises
    BY <1>5 DEF WaitRaises
  <1>6. CASE DestroyEnds
    BY <1>6, DestroyRefines DEF S!SupNext, S!RunStep
  <1>7. CASE NextRun
    BY <1>7, NextRunRefines
  <1>8. CASE WaitExpires \/ DestroyKills
    <2>1. /\ UNCHANGED <<pc, supVars, files, before, spec, proc>>
          /\ processes' = [processes EXCEPT ![handle].signalled = TRUE]
      BY <1>8 DEF WaitExpires, DestroyKills, argVars, kill
    <2>2. proc # 0 => processes'[proc].state = processes[proc].state
      <3> SUFFICES ASSUME proc # 0 PROVE processes'[proc].state = processes[proc].state
        OBVIOUS
      <3>1. processes[proc] \in Process /\ proc \in DOMAIN processes
            /\ processes \in Seq(Process)
        BY DEF Inv, TypeOK
      <3> QED  BY <2>1, <3>1 DEF Process
    <2> QED  BY <2>1, <2>2, QuietStutters
  <1>9. CASE \E p \in DOMAIN processes : Vm(p)
    <2>1. PICK p \in DOMAIN processes : Vm(p)
      BY <1>9
    <2>2. UNCHANGED <<pc, supVars, files, before, spec, proc>>
      BY <2>1 DEF Vm, VmStep, GuestWrites, ConsoleFills, GuestHalts, KernelKills, argVars
    <2>3. proc # 0 =>
              (processes'[proc].state = "reaped" <=> processes[proc].state = "reaped")
      <3> SUFFICES ASSUME proc # 0
                   PROVE  processes'[proc].state = "reaped" <=> processes[proc].state = "reaped"
        OBVIOUS
      <3>1. processes[proc] \in Process /\ proc \in DOMAIN processes
            /\ processes \in Seq(Process)
        BY DEF Inv, TypeOK
      <3>2. CASE UNCHANGED processes
        BY <3>2
      <3>3. CASE processes' = [processes EXCEPT ![p].blocked = TRUE]
        BY <3>1, <3>3 DEF Process
      <3>4. CASE Alive(p) /\ processes' = [processes EXCEPT ![p].state = "exited"]
        BY <3>1, <3>4 DEF Process, Alive
      <3> QED  BY <2>1, <3>2, <3>3, <3>4
               DEF Vm, VmStep, GuestWrites, ConsoleFills, GuestHalts, KernelKills
    <2> QED  BY <2>2, <2>3, QuietStutters
  <1>10. CASE UNCHANGED vars
    <2>1. UNCHANGED <<pc, supVars, files, before, spec, proc, processes>>
      BY <1>10 DEF vars, argVars, fcVars
    <2> QED  BY <2>1, QuietStutters
  <1> QED  BY <1>1, <1>2, <1>3, <1>4, <1>5, <1>6, <1>7, <1>8, <1>9, <1>10 DEF Next, RunStep

\* A run on Firecracker is a run of Supervisor.tla, for any specs and any
\* number of runs, up to the step at which a kill or an unlink first fails.
THEOREM RefinesSupervisor == Spec => ImplementsSupervisor
  BY InitRefines, StepRefines, InvHolds, PTL DEF Spec, ImplementsSupervisor
================================================================================
