----------------------------- MODULE RuntimeDir -----------------------------
(***************************************************************************)
(* Several kernel objects sharing one Jupyter runtime directory.  Each     *)
(* object's kernel_start writes <dir>/kernel-<name>.json, where <name> is  *)
(* the @name attribute or, when that is empty, "max-<address of x>", and   *)
(* records the path in impl->connection_file; kernel_stop and kernel_free  *)
(* remove the recorded path.  All of these run on Max's main thread, so    *)
(* each is one step.  A frontend finds a kernel through its file only.     *)
(*                                                                         *)
(* An object's default name is unique (it is its address), modelled by the *)
(* object itself; the @name values are Names.  A file's content is        *)
(* abstracted to the object whose configuration it holds, or Partial for   *)
(* a file the ofstream created or truncated and then failed to write.      *)
(***************************************************************************)
CONSTANTS
    Objects,   \* kernel objects in the patch(es) of one Max process
    Names,     \* values the @name attribute may be given
    NoFile,    \* a path with no file, or an impl with no recorded path
    Partial    \* a file truncated by a failed write

ASSUME Objects \cap Names = {}

VARIABLES
    name,      \* x->name: "" or one of Names
    st,        \* the object: ready, inert, running, stopped or freed
    recorded,  \* impl->connection_file: a path, or NoFile when empty
    disk       \* the runtime directory: path -> whose file is there

vars == <<name, st, recorded, disk>>

Paths == Objects \cup Names

\* kernel_start's kernel_name.
KernelPath(o) == IF name[o] = "" THEN o ELSE name[o]

\* std::remove of a recorded path removes whatever file is there now.
RemoveRecorded(o) ==
    disk' = IF recorded[o] = NoFile THEN disk
            ELSE [disk EXCEPT ![recorded[o]] = NoFile]

\* kernel_new: @name from the object box arguments; allocating impl or the
\* interpreter may throw, leaving an object every start refuses (inert).
Init ==
    /\ name \in [Objects -> Names \cup {""}]
    /\ st \in [Objects -> {"ready", "inert"}]
    /\ recorded = [o \in Objects |-> NoFile]
    /\ disk = [p \in Paths |-> NoFile]

-----------------------------------------------------------------------------
\* The @name attribute may be set at any time; a recorded path keeps the
\* name it was built from.
SetName(o, n) ==
    /\ st[o] # "freed"
    /\ name' = [name EXCEPT ![o] = n]
    /\ UNCHANGED <<st, recorded, disk>>

(* kernel_start from a ready object, by where it stops.  A throw before    *)
(* the interpreter is moved (configuration, context) and the early returns *)
(* change nothing here.  A later throw leaves the object inert (the        *)
(* interpreter is gone and the xkernel released): "early" is the xkernel   *)
(* constructor, update_config, a port that does not parse or an ofstream   *)
(* that did not open; "write" is a failed write after the ofstream created *)
(* or truncated the file; "thread" is new std::thread, after the path was  *)
(* recorded.  "none" is a start that succeeded.                            *)
StartOutcomes == {"early", "write", "thread", "none"}

Start(o, f) ==
    /\ st[o] = "ready"
    /\ LET p == KernelPath(o) IN
       /\ st' = [st EXCEPT ![o] = IF f = "none" THEN "running" ELSE "inert"]
       /\ disk' = CASE f = "early" -> disk
                    [] f = "write" -> [disk EXCEPT ![p] = Partial]
                    [] OTHER       -> [disk EXCEPT ![p] = o]
       /\ recorded' = IF f \in {"thread", "none"}
                      THEN [recorded EXCEPT ![o] = p] ELSE recorded
    /\ UNCHANGED name

\* kernel_stop: refused unless impl->kernel is set (running, or stopped
\* before, since stop never resets it); removes the recorded path and
\* clears it.
Stop(o) ==
    /\ st[o] \in {"running", "stopped"}
    /\ st' = [st EXCEPT ![o] = "stopped"]
    /\ RemoveRecorded(o)
    /\ recorded' = [recorded EXCEPT ![o] = NoFile]
    /\ UNCHANGED name

\* kernel_free: removes the recorded path whatever state the object is in.
Free(o) ==
    /\ st[o] # "freed"
    /\ st' = [st EXCEPT ![o] = "freed"]
    /\ RemoveRecorded(o)
    /\ UNCHANGED <<name, recorded>>

Next ==
    \E o \in Objects :
        \/ \E n \in Names \cup {""} : SetName(o, n)
        \/ \E f \in StartOutcomes : Start(o, f)
        \/ Stop(o)
        \/ Free(o)

Spec == Init /\ [][Next]_vars

-----------------------------------------------------------------------------
\* A started kernel "records a connection descriptor" through which
\* frontends reach it: while an object's kernel is running, its recorded
\* file is on disk and holds that kernel's own ports and key.  Another
\* object's start, stop or free must not replace or remove it.
RunningKernelReachable ==
    \A o \in Objects :
        st[o] = "running" => disk[recorded[o]] = o

=============================================================================
