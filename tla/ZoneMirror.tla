----------------------------- MODULE ZoneMirror -----------------------------
(***************************************************************************)
(* What the sync promises: the cache is a mirror of the zone.  It goes     *)
(* from one published content to another, never back to one the controller *)
(* had left before the mirror was last refreshed, and between refreshes    *)
(* only the patches of the webhook touch it.  It may be started anew.      *)
(***************************************************************************)
EXTENDS DnsData

CONSTANTS Versions, \* the contents the zone can have, each named by its hash
          Content,  \* Content[v]: the records of v
          Patches   \* the record lists and delete lists a webhook may bring

NoHash == ""

VARIABLES current,  \* the version the controller holds
          recent,   \* the versions it held since the last refresh
          store,    \* what the mirror answers from
          hash,     \* the version it was last refreshed to
          restarts  \* how often it was started anew

mvars == <<current, recent, store, hash, restarts>>

Init ==
    /\ current \in Versions
    /\ recent = {current}
    /\ store = EmptyStore
    /\ hash = NoHash
    /\ restarts = 0

Publish ==
    /\ current' \in Versions
    /\ recent' = recent \cup {current'}
    /\ UNCHANGED <<store, hash, restarts>>

Refresh ==
    /\ hash' \in recent
    /\ store' = LoadSnapshot(Content[hash'])
    /\ recent' = {current}
    /\ UNCHANGED <<current, restarts>>

Patch ==
    /\ \E p \in Patches :
          store' \in {ApplyUpdate(store, p.records), ApplyDelete(store, p.deletes)}
    /\ UNCHANGED <<current, recent, hash, restarts>>

Reset ==
    /\ restarts' = restarts + 1
    /\ store' = EmptyStore /\ hash' = NoHash
    /\ recent' = {current}
    /\ UNCHANGED current

Next == Publish \/ Refresh \/ Patch \/ Reset

Spec == Init /\ [][Next]_mvars
=============================================================================
