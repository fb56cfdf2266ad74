---------------------------- MODULE KeyRotation ----------------------------
(***************************************************************************)
(* Abstract specification of what a confmsg KeyProvider promises its      *)
(* readers (src/external/confmsg/confmsg/shared/keyprovider.h): two       *)
(* slots, the current key and the one it replaced, each tagged with a     *)
(* uint32 version, and a refresh that atomically moves the current slot   *)
(* into the previous one and installs fresh key material under the next   *)
(* version.  Versions keep the width of the code (modulo 2^VersionBits).  *)
(***************************************************************************)
EXTENDS Naturals

CONSTANTS
    VersionBits,    \* width of current_key_version / previous_key_version
    KeyMaterial     \* the key values a refresh may install

VARIABLES current_key, current_key_version, previous_key, previous_key_version

rotVars == <<current_key, current_key_version, previous_key, previous_key_version>>

VMod == 2 ^ VersionBits

Init ==
    /\ current_key \in KeyMaterial
    /\ previous_key \in KeyMaterial \ {current_key}
    /\ previous_key_version \in 0 .. VMod - 1
    /\ current_key_version = (previous_key_version + 1) % VMod

\* One refresh: the previous slot takes the current one, the current slot a
\* fresh key under the next version.
Rotate(k) ==
    /\ k \notin {current_key, previous_key}
    /\ previous_key' = current_key
    /\ previous_key_version' = current_key_version
    /\ current_key' = k
    /\ current_key_version' = (current_key_version + 1) % VMod

Next == \E k \in KeyMaterial : Rotate(k)

Spec == Init /\ [][Next]_rotVars

=============================================================================
