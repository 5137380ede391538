---------------------------- MODULE MirroredField -----------------------------
(***************************************************************************)
(* What the library promises of one field that a device and the remote     *)
(* both edit: a local edit stays marked dirty until the remote has held it *)
(* or the application has taken the remote's content in its place.         *)
(*                                                                         *)
(* canopy_device.c:84-92 gives the promise for the text fields; DeviceSync *)
(* is shown to keep it for location_note.                                  *)
(***************************************************************************)
CONSTANTS
    Contents,  \* what the field can hold
    Empty      \* what a cleared device and a new remote hold

VARIABLES
    local,     \* the device's content
    dirty,     \* it must still be sent
    held,      \* the remote has held the present local content
    remote,    \* the remote's content
    snapshot   \* the remote's content as the answer on its way reports it, if there is one

fields == <<local, dirty, held, remote, snapshot>>

Init ==
    /\ local = Empty /\ dirty = FALSE /\ held = FALSE
    /\ remote = Empty /\ snapshot = {}

Edit ==
    /\ snapshot = {}
    /\ local' \in Contents
    /\ dirty' = TRUE /\ held' = FALSE
    /\ UNCHANGED <<remote, snapshot>>

\* A cleared device: nothing to send, and nothing is claimed of the remote.
Reset ==
    /\ snapshot = {}
    /\ local' = Empty /\ dirty' = FALSE /\ held' = FALSE
    /\ UNCHANGED <<remote, snapshot>>

\* Only a dirty content is ever sent.  The remote answers with what it now has.
Deliver ==
    /\ dirty /\ snapshot = {}
    /\ remote' = local /\ held' = TRUE
    /\ snapshot' = {local}
    /\ UNCHANGED <<local, dirty>>

Report ==
    /\ snapshot = {}
    /\ snapshot' = {remote}
    /\ UNCHANGED <<local, dirty, held, remote>>

OthersEdit ==
    /\ remote' \in Contents
    /\ UNCHANGED <<local, dirty, held, snapshot>>

\* The mark goes when the answer says that the content arrived.
Acknowledge ==
    /\ snapshot # {}
    /\ dirty => held
    /\ dirty' = FALSE
    /\ snapshot' = {}
    /\ UNCHANGED <<local, held, remote>>

Adopt ==
    /\ snapshot # {}
    /\ local' \in snapshot /\ dirty' = FALSE /\ held' = TRUE
    /\ snapshot' = {}
    /\ UNCHANGED remote

\* The answer is lost, or useless.
Lose ==
    /\ snapshot' = {}
    /\ UNCHANGED <<local, dirty, held, remote>>

Next ==
    \/ Edit \/ Reset \/ Deliver \/ Report \/ OthersEdit
    \/ Acknowledge \/ Adopt \/ Lose

Spec == Init /\ [][Next]_fields

===============================================================================
