------------------------------ MODULE MCServices ------------------------------
(* What runs, conversations and processes share, one component in each       *)
(* behaviour: the initial state chooses it, the others rest.                 *)
EXTENDS Quota, Sandboxes, WorkspaceSync, SessionStore, StoreConnection,
        McpConnection, TLC

VARIABLE part    \* the component that runs in this behaviour

CONSTANTS one, two     \* two of a kind, whatever the component
CONSTANTS first, second \* two that differ, or a third

Alike == Permutations({one, two})

-----------------------------------------------------------------------------
Init ==
    /\ part \in {"quota", "sandboxes", "sync", "sessions", "connection",
                 "mcp"}
    /\ QuotaInit /\ (part # "quota" => backend = "local")
    /\ SandboxInit /\ (part # "sandboxes" => provider = "local")
    /\ WorkspaceSyncInit
    /\ SessionStoreInit
    /\ StoreConnectionInit
    /\ McpInit

Next ==
    \/ /\ part = "quota" /\ QuotaNext
       /\ UNCHANGED <<part, sandboxVars, workspaceSyncVars, sessionStoreVars,
                      storeConnectionVars, mcpVars>>
    \/ /\ part = "sandboxes" /\ SandboxNext
       /\ UNCHANGED <<part, quotaVars, workspaceSyncVars, sessionStoreVars,
                      storeConnectionVars, mcpVars>>
    \/ /\ part = "sync" /\ WorkspaceSyncNext
       /\ UNCHANGED <<part, quotaVars, sandboxVars, sessionStoreVars,
                      storeConnectionVars, mcpVars>>
    \/ /\ part = "sessions" /\ SessionStoreNext
       /\ UNCHANGED <<part, quotaVars, sandboxVars, workspaceSyncVars,
                      storeConnectionVars, mcpVars>>
    \/ /\ part = "connection" /\ StoreConnectionNext
       /\ UNCHANGED <<part, quotaVars, sandboxVars, workspaceSyncVars,
                      sessionStoreVars, mcpVars>>
    \/ /\ part = "mcp" /\ McpNext
       /\ UNCHANGED <<part, quotaVars, sandboxVars, workspaceSyncVars,
                      sessionStoreVars, storeConnectionVars>>

Spec == Init /\ [][Next]_<<part, quotaVars, sandboxVars, workspaceSyncVars,
                        sessionStoreVars, storeConnectionVars, mcpVars>>
=============================================================================
