-------------------------- MODULE MCTnyCamelQueue --------------------------
(* Instances of TnyCamelQueue for TLC. *)
EXTENDS TnyCamelQueue

CONSTANTS i1, i2, i3, i4, w1, w2

\* The flags of tny_camel_folder_refresh_async, tny_camel_folder_sync_async,
\* tny_camel_folder_transfer_msgs_async, and of the fetch of a message,
\* which _tny_camel_queue_launch makes a NORMAL item.
Refresh  == {"PRIORITY", "AUTO_CANCELLABLE", "CANCELLABLE", "REFRESH"}
Sync     == {"AUTO_CANCELLABLE", "CANCELLABLE", "SYNC"}
Transfer == {"CANCELLABLE"}
Fetch    == {"NORMAL"}

MCLaunchFlags   == {Refresh, Sync, Transfer, Fetch}
MCFlatFlags     == {Sync, Transfer}
MCCancelFlags   == {{"GET_HEADERS", "SYNC", "REFRESH", "CANCELLABLE"},
                    {"AUTO_CANCELLABLE", "REFRESH"}}

Slots   == {i1, i2, i3, i4}
ThreeSlots == {i1, i2, i3}
Workers == {w1, w2}
Symmetry == Permutations(Slots) \cup Permutations(Workers)
=============================================================================
