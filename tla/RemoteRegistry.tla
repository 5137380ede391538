--------------------------- MODULE RemoteRegistry -----------------------------
(***************************************************************************)
(* The list of remotes of a context (canopy_remotes.c, canopy_system.c).   *)
(* canopy_remote_init zeroes the remote, wherever it is, and walks the     *)
(* list to its end to hang it there.  canopy_remote_shutdown takes nothing *)
(* off the list, so a remote that is initialised again is still on it.     *)
(***************************************************************************)
EXTENDS Integers, Sequences

CONSTANTS
    Remotes,  \* the canopy_remote_t objects of the application
    NULL

ASSUME RemoteRegistryAssumption == NULL \notin Remotes

VARIABLES
    remotes,  \* ctx->remotes
    next,     \* remote->next
    loop,     \* "idle", or "walk" in the loop of canopy_remote_init
    tmp,      \* var: where the loop is
    remote,   \* its argument
    returned, \* what the last call returned
    order,    \* history: the remotes initialised for this context, in order, as
              \* long as none of them is initialised again
    again     \* history: a remote was initialised while it was on the list

walk == <<loop, tmp, remote>>
registryVars == <<remotes, next, loop, tmp, remote, returned, order, again>>

Listed(r) == \E k \in DOMAIN order : order[k] = r

-------------------------------------------------------------------------------

\* canopy_ctx_init: the list is forgotten, its remotes keep their pointers.
CtxInit ==
    /\ loop = "idle"
    /\ remotes' = NULL
    /\ order' = <<>>
    /\ again' = FALSE
    /\ returned' = "SUCCESS"
    /\ UNCHANGED <<next, walk>>

\* MUTANT: the remote is not zeroed.
NotZeroed(r) == next

\* memset(remote, 0, ...)
Zeroed(r) == [next EXCEPT ![r] = NULL]

\* canopy_remote_init on a context without remotes.
InitFirst(r) ==
    /\ loop = "idle"
    /\ remotes = NULL
    /\ next' = Zeroed(r)
    /\ remotes' = r
    /\ order' = <<r>>
    /\ returned' = "SUCCESS"
    /\ UNCHANGED <<walk, again>>

\* canopy_remote_init up to its loop.
InitBehind(r) ==
    /\ loop = "idle"
    /\ remotes # NULL
    /\ next' = Zeroed(r)
    /\ loop' = "walk"
    /\ tmp' = remotes
    /\ remote' = r
    /\ again' = (again \/ Listed(r))
    /\ UNCHANGED <<remotes, returned, order>>

\* MUTANT: the loop advances in its body and in its head.
StepTwice == next[next[tmp]]

\* MUTANT: the loop does not advance.
StepNone == tmp

\* tmp = tmp->next
Step == next[tmp]

WalkOn ==
    /\ loop = "walk"
    /\ next[tmp] # NULL
    /\ tmp' = Step
    /\ UNCHANGED <<remotes, next, loop, remote, returned, order, again>>

\* MUTANT: the link is made from the head.
LinkAtHead == [next EXCEPT ![remotes] = remote]

\* tmp->next = remote
Link == [next EXCEPT ![tmp] = remote]

\* The end of the list, and of the call.
WalkEnds ==
    /\ loop = "walk"
    /\ next[tmp] = NULL
    /\ next' = Link
    /\ loop' = "idle"
    /\ order' = IF again THEN order ELSE Append(order, remote)
    /\ returned' = "SUCCESS"
    /\ UNCHANGED <<remotes, tmp, remote, again>>

\* canopy_ctx_shutdown: canopy_cleanup_remote is not implemented, so the loop
\* ends at the first remote.
CtxShutdown ==
    /\ loop = "idle"
    /\ returned' = IF remotes = NULL THEN "SUCCESS" ELSE "NOT_IMPLEMENTED"
    /\ UNCHANGED <<remotes, next, walk, order, again>>

\* canopy_cleanup_remote, canopy_remote_shutdown, canopy_remote_get_time and
\* canopy_get_local_time on a remote.
NotImplemented ==
    /\ loop = "idle"
    /\ returned' = "NOT_IMPLEMENTED"
    /\ UNCHANGED <<remotes, next, walk, order, again>>

\* Any of the calls with a NULL argument.
BadParam ==
    /\ loop = "idle"
    /\ returned' = "BAD_PARAM"
    /\ UNCHANGED <<remotes, next, walk, order, again>>

-------------------------------------------------------------------------------

\* After a first canopy_ctx_init; the remotes are whatever the application's
\* memory holds.
RegistryInit ==
    /\ remotes = NULL
    /\ next \in [Remotes -> Remotes \union {NULL}]
    /\ loop = "idle"
    /\ tmp = NULL
    /\ remote = NULL
    /\ returned = "SUCCESS"
    /\ order = <<>>
    /\ again = FALSE

RegistryNext ==
    \/ CtxInit
    \/ \E r \in Remotes : InitFirst(r) \/ InitBehind(r)
    \/ WalkOn
    \/ WalkEnds
    \/ CtxShutdown
    \/ NotImplemented
    \/ BadParam

RegistrySpec == RegistryInit /\ [][RegistryNext]_registryVars

\* The loop runs as long as its thread does.
FairRegistrySpec == RegistrySpec /\ WF_registryVars(WalkOn \/ WalkEnds)

-------------------------------------------------------------------------------

RegistryTypeOK ==
    /\ remotes \in Remotes \union {NULL}
    /\ next \in [Remotes -> Remotes \union {NULL}]
    /\ loop \in {"idle", "walk"}
    /\ tmp \in Remotes \union {NULL}
    /\ remote \in Remotes \union {NULL}
    /\ loop = "walk" => tmp # NULL /\ remote # NULL
    /\ returned \in {"SUCCESS", "NOT_IMPLEMENTED", "BAD_PARAM"}
    /\ order \in Seq(Remotes)
    /\ again \in BOOLEAN

\* As long as no remote on the list is initialised again, the list holds the
\* remotes of this context in the order of canopy_remote_init, each once, and ends,
\* whatever their pointers were before; the loop of canopy_remote_init is on it.
ListIsOrder ==
    ~again =>
        /\ remotes = NULL <=> order = <<>>
        /\ \A k \in DOMAIN order :
              /\ k = 1 => remotes = order[k]
              /\ k < Len(order) => next[order[k]] = order[k + 1]
              /\ k = Len(order) => next[order[k]] = NULL
        /\ \A j, k \in DOMAIN order : order[j] = order[k] => j = k
        /\ loop = "walk" => Listed(tmp) /\ ~Listed(remote) /\ next[remote] = NULL

\* From ctx->remotes on, each next leads to another remote: the list never ends.
Endless == \E S \in SUBSET Remotes : remotes \in S /\ \A r \in S : next[r] \in S

\* Initialising a remote that is on the list, at whatever place, closes the list on
\* itself, and nothing but a new canopy_ctx_init opens it again.
EndlessIfAgain == loop = "idle" => (Endless <=> again)

\* canopy_remote_init returns, unless a remote on the list was initialised again.
InitReturns == (loop = "walk" /\ ~again) ~> (loop = "idle")

===============================================================================
