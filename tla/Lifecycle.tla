------------------------------ MODULE Lifecycle ------------------------------
(***************************************************************************)
(* Pairing and teardown on one state directory: relationships come and go   *)
(* while others are being made.                                            *)
(***************************************************************************)
EXTENDS Pairing, Teardown

VARIABLE
    raced   \* history: relationships put on a repository that a teardown was deleting

vars == <<commands, dirVars, pairingVars, teardownVars, raced>>

Init ==
    /\ DirInit /\ PairingInit /\ TeardownInit /\ raced = {}

\* Repositories that a teardown has deleted or already decided to delete.
Doomed == gone \cup (IF td = Idle THEN {} ELSE {td.refs.repo})

Next ==
    /\ \/ PairingNext /\ UNCHANGED teardownVars
       \/ TeardownNext /\ UNCHANGED pairingVars
    /\ raced' = raced \cup {r \in Rids : relayCfg'[r] # relayCfg[r] /\ relayCfg'[r] \in Doomed}

Spec == Init /\ [][Next]_vars

(***************************************************************************)
(* Properties                                                              *)
(***************************************************************************)

\* A key file that a rotation or a discard is working on.
IsPending(k) == k[2] = 2 /\ (k[1] = discarding \/ OwnedByRotation(k[1]))

\* A key row of a relationship that is not revoked has its file, and a relationship has
\* no key file without a row but the one a rotation or a discard is working on: a
\* teardown never destroys the keys of a relationship still in use, be it reactivated
\* by a late ready, and leaves none behind, be it rotated in at the last moment.  Two
\* cases are left: a discard that deletes its file late, under a new rotation of the
\* epoch, and a file that a death left, which the next begin_rotation replaces.
KeysFollowRows ==
    /\ \A k \in keyRows : consent[k[1]] # "revoked" => k \in keyFiles \cup clobbered
    /\ \A k \in keyFiles \ keyRows :
          k[1] \in committed \cup Established => IsPending(k) \/ k \in orphans

\* A relationship whose row is gone has its tombstone, and its journal until a walk
\* takes it or the postcheck is clean; its key from pairing is destroyed.  Wherever a
\* teardown dies, a second run is let in, and finds no key that opens old messages.
DeadTeardownCanResume ==
    \A r \in committed \cup Established :
        ~HasRow(r) =>
            /\ r \in tombs /\ <<r, 1>> \notin keyFiles
            /\ journal[r] # NoRefs \/ r \in walked \cup erased

\* A relationship that is not revoked keeps its deploy keys and its repository,
\* whatever other attempts clean up and other teardowns erase, unless it was put on
\* the repository after the teardown had looked who uses it.
OthersKeepTheirRelay ==
    \A r \in Rids \ raced :
        consent[r] \in {"pending", "active"} /\ relayCfg[r] # NoRepo =>
            /\ relayCfg[r] \notin gone
            /\ Cardinality({h \in hosted : h.rid = r}) = 2
=============================================================================
