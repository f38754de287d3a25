---------------------------- MODULE ObservationDelta ----------------------------
(***************************************************************************)
(* The merge patches of src/observation_delta.rs, with which agents and    *)
(* the history are sent what changed between two observations.             *)
(*                                                                         *)
(* A document is an object; its members are scalars, nulls and objects     *)
(* with members of their own, up to a depth.  An array is a scalar: the    *)
(* code replaces it as a whole.                                            *)
(***************************************************************************)
EXTENDS Naturals

CONSTANTS
  Keys,               \* the names of members
  Scalars,            \* numbers, strings, booleans and arrays
  Null, Absent,       \* the null value, and a member that is not there
  Depth               \* how deep objects nest in the members of a document

Leaves == Scalars \cup {Null}

\* The objects with these values for members
Objects(values) == [Keys -> values \cup {Absent}]

\* The values in which objects nest at most d deep
Values[d \in 0..Depth] ==
  IF d = 0 THEN Leaves ELSE Leaves \cup Objects(Values[d - 1])

Documents == Objects(Values[Depth])

ASSUME DocumentAssumption ==
  /\ Depth \in Nat
  /\ Null # Absent
  /\ Null \notin Scalars
  /\ Absent \notin Scalars
  /\ \A v \in Leaves \cup {Absent}, d \in 0..Depth : v \notin Objects(Values[d])

IsObject(v) == v \notin Leaves \cup {Absent}

NoMembers == [k \in Keys |-> Absent]

-------------------------------------------------------------------------------
(* merge_patch                                                             *)

\* The member of a patch for one of the two objects: Absent when they agree, Null
\* when it is gone, itself when it is new, or what the two values merge to.
MemberPatch(before, after, merge) ==
  CASE before = after -> Absent
    [] before # after /\ after = Absent -> Null
    [] before = Absent /\ after # Absent -> after
    [] OTHER -> merge[before][after]

\* The patch between two values that differ.
ValuePatch[d \in 0..Depth] ==
  [before \in Values[d] |-> [after \in Values[d] |->
     IF IsObject(before) /\ IsObject(after)
     THEN [k \in Keys |-> MemberPatch(before[k], after[k], ValuePatch[d - 1])]
     ELSE after]]

\* Mutant: members that are gone are not named.
MergePatchKeepingGone(previous, current) ==
  [k \in Keys |->
    IF current[k] = Absent THEN Absent
    ELSE MemberPatch(previous[k], current[k], ValuePatch[Depth])]

MergePatch(previous, current) ==
  [k \in Keys |-> MemberPatch(previous[k], current[k], ValuePatch[Depth])]

-------------------------------------------------------------------------------
(* apply_merge_patch                                                       *)

\* A member of the target under the member of a patch.
PatchedMember(target, patch, apply) ==
  CASE patch = Absent -> target
    [] patch = Null -> Absent
    [] OTHER -> apply[target][patch]

\* A patch that is no object replaces its target; a target that is no object,
\* or was not there, becomes an object first.
PatchedValue[d \in 0..Depth] ==
  [target \in Values[d] \cup {Absent} |-> [patch \in Values[d] |->
     IF IsObject(patch)
     THEN LET object == IF IsObject(target) THEN target ELSE NoMembers
          IN [k \in Keys |-> PatchedMember(object[k], patch[k], PatchedValue[d - 1])]
     ELSE patch]]

ApplyMergePatch(target, patch) ==
  [k \in Keys |-> PatchedMember(target[k], patch[k], PatchedValue[Depth])]

-------------------------------------------------------------------------------
(* What a reader of patches can know of a document: a null member and an   *)
(* absent one are the same to it, at every depth.                          *)

KnownValue[d \in 0..Depth] ==
  [v \in Values[d] \cup {Absent} |->
     IF v \in {Null, Absent} THEN Absent
     ELSE IF IsObject(v) THEN [k \in Keys |-> KnownValue[d - 1][v[k]]]
     ELSE v]

Known(document) == [k \in Keys |-> KnownValue[Depth][document[k]]]
=================================================================================
