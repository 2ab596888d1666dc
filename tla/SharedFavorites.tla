--------------------------- MODULE SharedFavorites ---------------------------
(***************************************************************************)
(* What the devices of one household may rely on of the favorites a bridge *)
(* keeps for them, with no revision, clock or request in sight.  A device  *)
(* of the revision protocol replaces the document only while its copy is   *)
(* the current one; an older device only adds, and never what is recorded  *)
(* as removed; a record of a removal is forgotten, never turned around.    *)
(* Nothing is promised to a device whose copy is of a history from before  *)
(* a restore, until it reads again.                                        *)
(***************************************************************************)
CONSTANTS Keys, Devices

VARIABLES
  live,      \* the favorites
  gone,      \* the removals on record
  current,   \* the devices whose copy is the document
  strangers  \* the devices whose copy is of an earlier history

sharedVars == <<live, gone, current, strangers>>

SharedInit ==
  /\ live = {} /\ gone = {}
  /\ current = Devices /\ strangers = {}

Legal(l, g) == l \subseteq Keys /\ g \subseteq Keys /\ l \cap g = {}

Learn ==
  /\ \E d \in Devices : current' = current \cup {d} /\ strangers' = strangers \ {d}
  /\ UNCHANGED <<live, gone>>

\* The writer learns what it wrote, unless the answer is lost.
Replace ==
  \E d \in current \cup strangers :
    /\ Legal(live', gone') /\ gone' \subseteq gone \cup live
    /\ \/ current' = {d} /\ strangers' = strangers \ {d}
       \/ current' = {} /\ UNCHANGED strangers

Add ==
  /\ live \subseteq live' /\ Legal(live', gone)
  /\ current' = {}
  /\ UNCHANGED <<gone, strangers>>

Forget ==
  /\ gone' \subseteq gone /\ current' = {}
  /\ UNCHANGED <<live, strangers>>

\* The operator restores a backup.
Restored ==
  /\ Legal(live', gone')
  /\ current' = {} /\ strangers' = Devices

SharedNext == Learn \/ Replace \/ Add \/ Forget \/ Restored

Spec == SharedInit /\ [][SharedNext]_sharedVars
=============================================================================
