--------------------------------- MODULE Policy ---------------------------------
(***************************************************************************)
(* containment/policy.py: CapabilityPolicy.evaluate, the pure decision the *)
(* broker records.  A policy is [allowed_write_paths, approved_packages,   *)
(* allow_process_spawn]; a request is [capability, resource].  A resource  *)
(* is an opaque name: the code compares it for equality only, and          *)
(* `name==version` of a package is one such name.                          *)
(***************************************************************************)
EXTENDS Naturals

NEVER_IN_RUN == {"NET_EGRESS", "RAW_SYSCALL", "PRIVILEGE_RAISE"}
DEFERRED == {"PACKAGE_INSTALL"}

_match_package(policy, resource) == resource \in policy.approved_packages

evaluate(policy, request) ==
    LET cap == request.capability IN
    CASE cap \in NEVER_IN_RUN -> "DENY"
      [] cap \in DEFERRED ->
            IF _match_package(policy, request.resource) THEN "DEFER_TO_REBUILD" ELSE "DENY"
      [] cap = "FILE_WRITE" ->
            IF request.resource \in policy.allowed_write_paths THEN "ALLOW" ELSE "DENY"
      [] cap = "PROCESS_SPAWN" ->
            IF policy.allow_process_spawn THEN "ALLOW" ELSE "DENY"
      [] OTHER -> "DENY"

is_granted(decision) == decision = "ALLOW"
===============================================================================
