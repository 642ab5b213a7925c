----------------------------- MODULE MCCommand -----------------------------
EXTENDS Command

In(where, git, gh) == [where |-> where, git |-> git, gh |-> gh]

\* Every pair of directories of these kinds, and a relative one.
Directories ==
  {In("outside", git, gh) : git \in {"absent", "ready", "unsafe", "unexecutable"},
                            gh \in {"absent", "ready", "unsafe"}}
  \cup {In("inside", "ready", "ready"), In("missing", "absent", "absent")}
MCPaths ==
  {<<d, e>> : d, e \in Directories}
  \cup {<<In("outside", "ready", "ready"), In("relative", "absent", "absent")>>}
=============================================================================
