---------------------------- MODULE MCBuffersLists ----------------------------
(* The memory that the library fills or links outside of the device object: the payload of a
   push, the receive buffer of a remote, the list of remotes and the chain of filters.  They
   share nothing: a behaviour is about one of them, the others stay as they are. *)
EXTENDS JsonEmit, HttpReceive, RemoteRegistry, FilterList

VARIABLE part

memoryVars == <<emitVars, receiveVars, registryVars, chainVars, part>>

\* Where the other parts stay.
Still(p) ==
    /\ p # "payload"  => pending = <<>> /\ dirty = {}
    /\ p # "receive"  => buffer = [i \in Cells |-> NUL]
    /\ p # "registry" => next = [r \in Remotes |-> NULL]
    /\ p # "filters"  => link = [f \in Filters |-> NoFilter] /\ content = [f \in Filters |-> "TERM"]

MemoryInit ==
    /\ part \in {"payload", "receive", "registry", "filters"}
    /\ Still(part)
    /\ EmitInit /\ ReceiveInit /\ RegistryInit /\ ChainInit

MemoryNext ==
    /\ \/ part = "payload" /\ EmitNext /\ UNCHANGED <<receiveVars, registryVars, chainVars>>
       \/ part = "receive" /\ ReceiveNext /\ UNCHANGED <<emitVars, registryVars, chainVars>>
       \/ part = "registry" /\ RegistryNext /\ UNCHANGED <<emitVars, receiveVars, chainVars>>
       \/ part = "filters" /\ ChainNext /\ UNCHANGED <<emitVars, receiveVars, registryVars>>
    /\ UNCHANGED part

\* The loop of canopy_remote_init runs as long as its thread does.
MemorySpec == MemoryInit /\ [][MemoryNext]_memoryVars /\ WF_registryVars(WalkOn \/ WalkEnds)

===============================================================================
