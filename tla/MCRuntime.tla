------------------------------- MODULE MCRuntime -------------------------------
(***************************************************************************)
(* One file of each kind, the requests that tell the policy's rules apart, *)
(* and the default thresholds with shorter windows.                        *)
(***************************************************************************)
EXTENDS Runtime

\* one file under an immutable and a mutable prefix at once, one under each of
\* a mutable and an ephemeral one, and one under none; two of them by detours
Library == <<"rootfs", "lib">>
Output == <<"workspace", "out">>
Scratch == <<"tmp", "x">>
Stray == <<"home", "x">>
LibraryByDetour == <<"tmp", "", "..", "..", "rootfs", "lib">>
OutputByDetour == <<"workspace", ".", "out">>

MCReported == {Output, Scratch, Stray, LibraryByDetour}
MCSortedPaths == <<Stray, Library, Scratch, Output>>
MCPathPolicy ==
    [immutable_prefixes |-> {<<"rootfs">>, <<"usr">>},
     mutable_prefixes |-> {<<"workspace">>, <<"rootfs", "lib">>},
     ephemeral_prefixes |-> {<<"tmp">>, <<"run">>}]
MCCaptured == << <<LibraryByDetour, "d1">>, <<Library, "d0">>, <<Output, "d0">> >>

Numpy == <<"numpy==2.0">>

MCPolicy == [allowed_write_paths |-> {OutputByDetour}, approved_packages |-> {Numpy},
             allow_process_spawn |-> FALSE]

Req(cap, resource) == [capability |-> cap, resource |-> resource]
AllRequests == {Req("FILE_WRITE", OutputByDetour), Req("FILE_WRITE", Output),
                Req("PACKAGE_INSTALL", Numpy)}

Says(cap, granted) == [cap |-> cap, granted |-> granted]
MCPayloads == {Says("PRIVILEGE_RAISE", TRUE), Says("FILE_WRITE", TRUE), Says("none", FALSE)}

MCDenials == [window |-> 4, burst |-> 3, threshold |-> 7]
MCMutations == [window |-> 60, burst |-> 3, threshold |-> 6]
===============================================================================
