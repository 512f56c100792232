------------------------------ MODULE StateDoc ------------------------------
(***************************************************************************)
(* State documents and the pure algorithms on them.                        *)
(*                                                                         *)
(* A Terraform state document is abstracted to its lineage, one cell per   *)
(* resource-instance address and one per output name.  A cell separates    *)
(* what the resources table stores and hashes (attr: mode, type, provider, *)
(* index, schema version, attributes, sensitive paths, dependencies; see   *)
(* hashResourceContent) from what only raw_state carries (meta: tainted,   *)
(* private, create_before_destroy, deposed status).                        *)
(***************************************************************************)
EXTENDS FiniteSets

CONSTANTS
  Addr,      \* resource-instance addresses
  GroupOf,   \* GroupOf[a]: the resource group (address without index) of a
  Attr,      \* values of the hashed part of an instance
  NoAttr,    \* the hashed part of an absent instance
  Meta,      \* values of the part kept only in raw_state
  NoMeta,    \* its zero value: not tainted, no private data
  OutName,   \* output names
  OutVal,    \* output values
  NoOut,     \* an absent output
  Lineage,   \* lineages
  NoLineage  \* the empty lineage

ASSUME DocAssumption ==
  /\ NoAttr \notin Attr
  /\ NoMeta \in Meta
  /\ NoOut \notin OutVal
  /\ NoLineage \notin Lineage

Absent == [attr |-> NoAttr, meta |-> NoMeta]
Cell   == [attr : Attr, meta : Meta] \cup {Absent}
Doc    == [lineage : Lineage \cup {NoLineage},
           res     : [Addr -> Cell],
           out     : [OutName -> OutVal \cup {NoOut}]]

(* tfstate.EmptyState: the serial-0 genesis document.                      *)
EmptyDoc == [lineage |-> NoLineage,
             res     |-> [a \in Addr |-> Absent],
             out     |-> [o \in OutName |-> NoOut]]

-----------------------------------------------------------------------------
(* resourceWriteSet, outputWriteSet: added, removed or changed between two *)
(* documents.                                                              *)
ResourceWriteSet(from, to) == {a \in Addr : from.res[a] # to.res[a]}
OutputWriteSet(from, to)   == {o \in OutName : from.out[o] # to.out[o]}

(* Lineages disagree; an empty one on either side is tolerated.            *)
LineageMismatch(proposed, trunk) ==
  /\ proposed.lineage # NoLineage
  /\ trunk.lineage # NoLineage
  /\ proposed.lineage # trunk.lineage

(* The conflict test of MergeStates: something changed on both sides.      *)
WriteSetConflict(base, trunk, proposed) ==
  \/ ResourceWriteSet(base, proposed) \cap ResourceWriteSet(base, trunk) # {}
  \/ OutputWriteSet(base, proposed) \cap OutputWriteSet(base, trunk) # {}

MergeAllowed(base, trunk, proposed) ==
  ~ LineageMismatch(proposed, trunk) /\ ~ WriteSetConflict(base, trunk, proposed)

(* MergeStates: the operator's writes from proposed, the rest from trunk.  *)
MergeStates(base, trunk, proposed) ==
  [lineage |-> trunk.lineage,
   res |-> [a \in Addr |-> IF a \in ResourceWriteSet(base, proposed)
                           THEN proposed.res[a] ELSE trunk.res[a]],
   out |-> [o \in OutName |-> IF o \in OutputWriteSet(base, proposed)
                              THEN proposed.out[o] ELSE trunk.out[o]]]

-----------------------------------------------------------------------------
(* The groups a set of instance addresses belongs to, and all instances of *)
(* those groups (slice.IndexFootprintByGroup, stripIndex).                 *)
Groups(addrs)     == {GroupOf[a] : a \in addrs}
GroupClosure(addrs) == {a \in Addr : GroupOf[a] \in Groups(addrs)}

(* buildMergedState: whole groups of the write set from the post-apply     *)
(* state, every other row from the trunk, outputs from the post-apply      *)
(* state.                                                                  *)
BuildMergedState(trunk, post, writeSet) ==
  [lineage |-> IF trunk.lineage = NoLineage THEN post.lineage ELSE trunk.lineage,
   res |-> [a \in Addr |-> IF a \in GroupClosure(writeSet) THEN post.res[a] ELSE trunk.res[a]],
   out |-> post.out]

(* slice.Build: the rows of the footprint's groups, with all outputs.      *)
Slice(trunk, footprint) ==
  [trunk EXCEPT !.res = [a \in Addr |-> IF a \in GroupClosure(footprint)
                                        THEN trunk.res[a] ELSE Absent]]

(* changedReadSetAddresses: the groups of the read set that differ between *)
(* the plan's source version and the trunk.                                *)
ChangedReadSet(base, now, readSet) ==
  {a \in GroupClosure(readSet) : base.res[a] # now.res[a]}
=============================================================================
