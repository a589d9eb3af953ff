------------------------------- MODULE JobExec -------------------------------
(***************************************************************************)
(* micronux-job-exec, the helper that puts the job policy on itself and    *)
(* then executes the job (micronux-job-exec.c).  One thread; each step is  *)
(* one of the helper's functions, with the kernel's rule for the calls it  *)
(* makes: a call that needs a capability fails without it, and setresuid   *)
(* away from root takes the capabilities along.                            *)
(***************************************************************************)
EXTENDS Integers, Sequences

CONSTANTS FdMax     \* the highest descriptor in use; the helper closes up to 1023

Fd        == 0..FdMax
AllCaps   == {"setpcap", "setuid", "setgid", "other"}
Resources == {"cpu", "nofile", "nproc", "stack", "data", "as", "fsize", "core"}

VARIABLES
  at,      \* index into Steps
  mode,    \* "helper", "program" after exec, or "failed" after exit status 126
  why,     \* why it failed
  out, err,          \* the descriptors named in argv
  fds,     \* what each descriptor is
  given,   \* the standard descriptors that were open when the helper was started
  limits,  \* resources with the job's limit
  uid, groups, caps, bounding,   \* identity
  locked,  \* no_new_privs
  admits   \* system calls the seccomp filter admits; all without one

vars == <<at, mode, why, out, err, given, fds, limits, uid, groups, caps, bounding, locked, admits>>

Calls == {"write", "execve", "exit_group", "ioctl", "ptrace", "setsid", "setpgid"}

Steps == <<"redirect", "limits", "bounding", "ids", "capset", "verify", "close", "filter", "exec">>

Standard == 0..2

\* argv names two pipe ends as numbers; any of the others may be open, and any may be
\* closed, the standard ones included.
Init ==
  /\ at = 1 /\ mode = "helper" /\ why = "none"
  /\ out \in Fd /\ err \in Fd
  /\ \E more \in SUBSET (Fd \ {out, err}) :
       fds = [d \in Fd |-> CASE d = out -> "out" [] d = err /\ err # out -> "err"
                             [] OTHER -> IF d \in more THEN "inherited" ELSE "closed"]
  /\ given = {d \in Standard : fds[d] # "closed"}
  /\ limits = {} /\ groups = {"root"}
  /\ uid \in {"root", "job"}
  /\ caps = IF uid = "root" THEN AllCaps ELSE {}
  /\ bounding = AllCaps
  /\ locked = FALSE /\ admits = Calls

Fail(reason) ==
  /\ mode' = "failed" /\ why' = reason
  /\ UNCHANGED <<at, out, err, given, fds, limits, uid, groups, caps, bounding, locked, admits>>

Doing(step) == mode = "helper" /\ Steps[at] = step

Continue == at' = at + 1 /\ UNCHANGED <<mode, why, out, err, given>>
-----------------------------------------------------------------------------
LowestFree(f) == CHOOSE d \in Fd : f[d] = "closed" /\ \A e \in Fd : f[e] = "closed" => d <= e

\* parse_descriptor and the checks before it: root, two different numbers above 2.
BadInvocation == Doing("redirect") /\ (uid # "root" \/ out < 3 \/ err < 3 \/ out = err)

Refuse == BadInvocation /\ Fail("invocation")

\* redirect_standard_descriptors: open /dev/null, three dup2, close.  When a standard
\* descriptor was closed, /dev/null is opened there and that one is closed at the end.
Redirect ==
  /\ Doing("redirect") /\ ~BadInvocation
  /\ \E d \in Fd : fds[d] = "closed"
  /\ LET null == LowestFree(fds) IN
     fds' = [fds EXCEPT ![0] = "null", ![1] = fds[out], ![2] = fds[err], ![null] = "closed"]
  /\ Continue
  /\ UNCHANGED <<limits, uid, groups, caps, bounding, locked, admits>>

\* apply_resource_limits, in its order
ApplyLimits ==
  /\ Doing("limits")
  /\ limits' = Resources
  /\ Continue
  /\ UNCHANGED <<fds, uid, groups, caps, bounding, locked, admits>>

\* clear_capabilities: PR_CAPBSET_DROP of every capability ...
DropBounding ==
  /\ Doing("bounding")
  /\ IF "setpcap" \in caps
     THEN bounding' = {} /\ Continue /\ UNCHANGED <<fds, limits, uid, groups, caps, locked, admits>>
     ELSE Fail("EPERM")

\* ... setgroups, setresgid, setresuid ...
SetIds ==
  /\ Doing("ids")
  /\ IF {"setuid", "setgid"} \subseteq caps
     THEN /\ groups' = {} /\ uid' = "job" /\ caps' = {}
          /\ Continue
          /\ UNCHANGED <<fds, limits, bounding, locked, admits>>
     ELSE Fail("EPERM")

\* ... and capset to nothing.
ClearCaps ==
  /\ Doing("capset")
  /\ caps' = {} /\ Continue
  /\ UNCHANGED <<fds, limits, uid, groups, bounding, locked, admits>>

verify_identity == uid = "job" /\ groups = {} /\ caps = {}

Verify ==
  /\ Doing("verify")
  /\ IF verify_identity THEN Continue /\ UNCHANGED <<fds, limits, uid, groups, caps, bounding, locked, admits>>
     ELSE Fail("identity")

\* Fault: the loop starts one descriptor late.
CloseExtraLate ==
  /\ Doing("close")
  /\ fds' = [d \in Fd |-> IF d > 3 THEN "closed" ELSE fds[d]]
  /\ Continue
  /\ UNCHANGED <<limits, uid, groups, caps, bounding, locked, admits>>

\* close_extra_descriptors
CloseExtra ==
  /\ Doing("close")
  /\ fds' = [d \in Fd |-> IF d > 2 THEN "closed" ELSE fds[d]]
  /\ Continue
  /\ UNCHANGED <<limits, uid, groups, caps, bounding, locked, admits>>

Allowlist == {"write", "execve", "exit_group"}

\* install_seccomp_filter: without CAP_SYS_ADMIN the filter needs no_new_privs.
InstallFilter ==
  /\ Doing("filter")
  /\ locked' = TRUE /\ admits' = Allowlist
  /\ Continue
  /\ UNCHANGED <<fds, limits, uid, groups, caps, bounding>>

\* The policy line on stdout, and execv.
Exec ==
  /\ Doing("exec")
  /\ IF {"write", "execve"} \subseteq admits
     THEN mode' = "program" /\ UNCHANGED <<at, why, out, err, given, fds, limits, uid, groups, caps, bounding, locked, admits>>
     ELSE Fail("EPERM")

\* Any call may also fail for want of memory or a file.
CallFails == mode = "helper" /\ ~BadInvocation /\ Fail("call")

Next == \/ Refuse \/ Redirect \/ ApplyLimits \/ DropBounding \/ SetIds \/ ClearCaps
        \/ Verify \/ CloseExtra \/ InstallFilter \/ Exec \/ CallFails

Spec == Init /\ [][Next]_vars
-----------------------------------------------------------------------------
Missing(d) == d \in Standard \ given /\ \A e \in Standard \ given : d <= e

\* The job's program starts only with the whole policy on it: the job's identity,
\* no capability and none to gain, every limit, the filter, and no descriptor but
\* the three standard ones, which are /dev/null and the two pipes; of these one is
\* missing, the lowest that was closed, if not all were open at the start.  The order
\* of the calls is one the kernel accepts: the helper never fails because an earlier
\* step of its own took a privilege or a system call that it still needs.
ProgramContained ==
  /\ mode = "program" =>
       /\ uid = "job" /\ groups = {} /\ caps = {} /\ bounding = {}
       /\ limits = Resources
       /\ locked /\ admits = Allowlist
       /\ \A d \in Fd : fds[d] = IF d > 2 \/ Missing(d) THEN "closed" ELSE <<"null", "out", "err">>[d + 1]
  /\ why \notin {"EPERM", "identity"}
=============================================================================
