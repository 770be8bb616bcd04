-------------------------- MODULE MCProcessRegistry --------------------------
(* Small instances of ProcessRegistry.                                     *)
EXTENDS ProcessRegistry, TLC

CONSTANTS p1, p2, p3

Line(kind, profile, shown, transport) ==
    [kind |-> kind, profile |-> profile, shown |-> shown, transport |-> transport]

\* p1 is a plain server.  p2 is an HTTP daemon, a server of another profile, by
\* COLAB_MCP_PROFILE, or a --stop-pid --all-profiles.  p3 is a server that
\* replaces the others of its profile, or a --kill-stale of the other profile.
AllCommands ==
    [p \in Procs |->
        CASE p = p1 -> {Line("start", "default", "default", "stdio")}
          [] p = p2 -> {Line("start", "default", "default", "http"),
                        Line("start", "codex", "default", "stdio"),
                        Line("stop", "all", "default", "stdio")}
          [] OTHER -> {Line("replace", "default", "default", "stdio"),
                       Line("kill_stale", "codex", "codex", "stdio")}]
=============================================================================
