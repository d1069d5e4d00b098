---------------------------- MODULE HighSyncCall ----------------------------
(***************************************************************************)
(* What the callers of XenPci_HighSync rely on: suspend and resume         *)
(* (xenpci_fdo.c) and the kernel patch (xenpci_patch_kernel.c) pass it two *)
(* functions.  function0 runs once, on CPU 0; then functionN runs once on  *)
(* each of the others; and only then does the call return.                 *)
(***************************************************************************)
CONSTANT Others      \* the CPUs but for CPU 0

VARIABLES stage,     \* "idle", "called", "function0" or "functionN"
          ran        \* the CPUs on which functionN has run in this call

cvars == <<stage, ran>>

Init == stage = "idle" /\ ran = {}

Call == stage = "idle" /\ stage' = "called" /\ UNCHANGED ran

Function0 == stage = "called" /\ stage' = "function0" /\ UNCHANGED ran

Function0Returns == stage = "function0" /\ stage' = "functionN" /\ UNCHANGED ran

FunctionN(p) ==
  /\ stage = "functionN"
  /\ p \in Others \ ran /\ ran' = ran \cup {p}
  /\ UNCHANGED stage

Return ==
  /\ stage = "functionN" /\ ran = Others
  /\ stage' = "idle" /\ ran' = {}

Next == Call \/ Function0 \/ Function0Returns \/ (\E p \in Others : FunctionN(p)) \/ Return

Spec == Init /\ [][Next]_cvars
=============================================================================
