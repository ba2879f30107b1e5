---------------------------- MODULE AddressedStore ----------------------------
(***************************************************************************)
(* What the store of admitted objects promises (admitted_store.py, lines   *)
(* 1-16), without files, manifests, stamps or other writers: contents are  *)
(* addressed by their digest; they are verified once, off the request      *)
(* path; and a reader is only ever served, without a rehash, contents that *)
(* were verified and that the store holds at that moment, or is refused.   *)
(* AdmittedStore implements it.                                            *)
(***************************************************************************)
CONSTANTS
    Digest,     \* the contents
    Reader,     \* those who ask
    Nothing     \* a refusal

VARIABLES
    verified,   \* contents whose whole copy was hashed and compared
    present,    \* contents the store holds an object for
    served      \* the last answer to each reader

vars == <<verified, present, served>>

Init ==
    /\ verified = {}
    /\ present = {}
    /\ served = [r \in Reader |-> Nothing]

\* Admission, first half: the bytes agree with the digest they are declared by.
Verify(d) ==
    /\ verified' = verified \cup {d}
    /\ UNCHANGED <<present, served>>

\* Admission, second half: what was verified gets its name.
Publish(d) ==
    /\ d \in verified
    /\ present' = present \cup {d}
    /\ UNCHANGED <<verified, served>>

\* Eviction.
Withdraw(d) ==
    /\ present' = present \ {d}
    /\ UNCHANGED <<verified, served>>

\* The answer is the contents the address names.
Serve(r, d) ==
    /\ d \in present
    /\ served' = [served EXCEPT ![r] = [digest |-> d, bytes |-> d]]
    /\ UNCHANGED <<verified, present>>

\* The store may always refuse: to fall back costs time and nothing else.
Refuse(r) ==
    /\ served' = [served EXCEPT ![r] = Nothing]
    /\ UNCHANGED <<verified, present>>

Next ==
    \/ \E d \in Digest : Verify(d) \/ Publish(d) \/ Withdraw(d)
    \/ \E r \in Reader : Refuse(r) \/ \E d \in Digest : Serve(r, d)

Spec == Init /\ [][Next]_vars

=============================================================================
