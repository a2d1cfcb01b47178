------------------------------ MODULE SliceMemo ------------------------------
(***************************************************************************)
(* What Volume promises about its slice cache, without locks, recency or   *)
(* threads: a table from slices to images that may forget entries at any   *)
(* time, filled by loads of which at most one per slice is under way, and  *)
(* only for a slice the table does not hold. Whoever reads gets an image   *)
(* or an exception: a load without the one ends with the other.            *)
(***************************************************************************)
CONSTANTS Slices, Images, Absent, Readers

VARIABLES memo,
          loading,      \* slices under load
          failed        \* readers that got an exception

memoVars == <<memo, loading, failed>>

\* The table f after it forgot the slices F.
Without(f, F) == [j \in Slices |-> IF j \in F THEN Absent ELSE f[j]]

MemoInit ==
    /\ memo = [i \in Slices |-> Absent]
    /\ loading = {}
    /\ failed = {}

BeginLoad(i) ==
    /\ i \notin loading
    /\ memo[i] = Absent
    /\ loading' = loading \cup {i}
    /\ UNCHANGED <<memo, failed>>

\* A load ends: its image is in the table, which may have made room for it.
EndLoad(i, v) ==
    /\ i \in loading
    /\ loading' = loading \ {i}
    /\ \E F \in SUBSET (Slices \ {i}) :
           memo' = [Without(memo, F) EXCEPT ![i] = v]
    /\ UNCHANGED failed

\* A load ends in an exception for its reader, with the table as it was.
AbortLoad(i, r) ==
    /\ i \in loading
    /\ r \notin failed
    /\ loading' = loading \ {i}
    /\ failed' = failed \cup {r}
    /\ UNCHANGED memo

\* A read is refused without a load, the table having forgotten its slice.
Refuse(i, r) ==
    /\ memo[i] = Absent
    /\ r \notin failed
    /\ failed' = failed \cup {r}
    /\ UNCHANGED <<memo, loading>>

Forget(F) ==
    /\ memo' = Without(memo, F)
    /\ UNCHANGED <<loading, failed>>

MemoNext ==
    \/ \E i \in Slices : BeginLoad(i)
    \/ \E i \in Slices, v \in Images : EndLoad(i, v)
    \/ \E i \in Slices, r \in Readers : AbortLoad(i, r) \/ Refuse(i, r)
    \/ \E F \in SUBSET Slices : Forget(F)

MemoSpec == MemoInit /\ [][MemoNext]_memoVars
=============================================================================
