----------------------------- MODULE WriteEpoch -----------------------------
(***************************************************************************)
(* Write counts of buffers and the symmetry tags they void                 *)
(* (src/src/flopscope/_write_epoch.py, _symmetric.py).  A tag is a claim   *)
(* about the contents of a buffer, checked once; it is stamped with the    *)
(* buffer's write count, and reads as absent when the two differ.  Aliases *)
(* of a buffer share the array that ends their view chain, its root.       *)
(*                                                                         *)
(* Counts are kept per extent of memory.  Several roots may cover one      *)
(* extent (two frombuffer of one exporter), a count is dropped when the    *)
(* root it was first seen through dies, and an extent is used again once   *)
(* its memory is free.  Extents of different sizes do not overlap here.    *)
(* One thread runs, so an operation and its note of the write are a step.  *)
(***************************************************************************)
EXTENDS Naturals

CONSTANTS
  Roots,      \* arrays that end a view chain
  Extents,    \* the memory a root may cover: (address, nbytes)
  Tensors,    \* SymmetricTensor objects
  MaxWrites,  \* bound on the writes an extent counts
  None        \* absent

ASSUME RootAssumption == None \notin Roots
ASSUME ExtentAssumption == None \notin Extents
ASSUME WriteAssumption == MaxWrites \in Nat

VARIABLES
  at,       \* the extent a root covers, None if it is not alive
  content,  \* what the data of an extent is
  epochs,   \* _EPOCHS, 0 where it has no entry
  witness,  \* _ROOTS: the root whose death drops the count
  tensor,   \* the tensors alive: root, _symmetry_epoch, is _symmetry_raw set
  lost      \* history: tensors whose count was dropped since their stamp, or
            \* whose tag comes from such a tensor

table == <<epochs, witness>>
vars == <<at, content, table, tensor, lost>>

\* Invariant under the group, invariant within the tolerance, or neither.
Content == {"exact", "near", "broken"}

Tensor == [root : Roots, stamp : Nat, raw : BOOLEAN]

TypeOK ==
  /\ at \in [Roots -> Extents \cup {None}]
  /\ content \in [Extents -> Content]
  /\ epochs \in [Extents -> Nat]
  /\ witness \in [Extents -> Roots \cup {None}]
  /\ tensor \in [Tensors -> Tensor \cup {None}]
  /\ lost \in SUBSET Tensors

Init ==
  /\ at = [r \in Roots |-> None]
  /\ content = [e \in Extents |-> "broken"]
  /\ epochs = [e \in Extents |-> 0]
  /\ witness = [e \in Extents |-> None]
  /\ tensor = [t \in Tensors |-> None]
  /\ lost = {}

-----------------------------------------------------------------------------
Alive(t) == tensor[t] # None

Buffer(t) == at[tensor[t].root]

\* The getter of _symmetry finds a tag.
Readable(t) == Alive(t) /\ tensor[t].raw /\ tensor[t].stamp = epochs[Buffer(t)]

\* ... and latches a void one.
Latched(t) == [tensor[t] EXCEPT !.raw = Readable(t)]

\* Mutant: the count of a buffer never written is no number.
TaggedRaw(r, e) ==
  [root |-> r, stamp |-> IF epochs[e] = 0 THEN None ELSE epochs[e], raw |-> TRUE]

\* The setter of _symmetry, for a tensor with root r on extent e.
Tagged(r, e) == [root |-> r, stamp |-> epochs[e], raw |-> TRUE]

Untagged(r) == [root |-> r, stamp |-> 0, raw |-> FALSE]

Unused(e) == \A r \in Roots : at[r] # e

\* A buffer is made: an array of its own memory, with any data.
Fill(r, e, c) ==
  /\ at[r] = None
  /\ Unused(e)
  /\ at' = [at EXCEPT ![r] = e]
  /\ content' = [content EXCEPT ![e] = c]

Make(r, e, c) == Fill(r, e, c) /\ UNCHANGED <<table, tensor, lost>>

\* Another array is built over memory that a living one covers.
Share(r, e) ==
  /\ at[r] = None
  /\ ~ Unused(e)
  /\ at' = [at EXCEPT ![r] = e]
  /\ UNCHANGED <<content, table, tensor, lost>>

\* as_symmetric(): data that passes the check only within the tolerance is
\* copied and made exact, data that does not is refused.
AsSymmetric(t, r) ==
  /\ ~ Alive(t)
  /\ at[r] # None
  /\ \/ /\ content[at[r]] = "exact"
        /\ tensor' = [tensor EXCEPT ![t] = Tagged(r, at[r])]
        /\ UNCHANGED <<at, content>>
     \/ /\ content[at[r]] = "near"
        /\ \E n \in Roots, e \in Extents :
             /\ Fill(n, e, "exact")
             /\ tensor' = [tensor EXCEPT ![t] = Tagged(n, e)]
  /\ UNCHANGED <<table, lost>>

\* .symmetry, or any operation that prices the tensor.
Read(t) ==
  /\ Alive(t)
  /\ tensor' = [tensor EXCEPT ![t] = Latched(t)]
  /\ UNCHANGED <<at, content, table, lost>>

Derived(t, u) == lost' = IF t \in lost THEN lost \cup {u} ELSE lost

\* A view of a tagged tensor carries what survives of the tag.
View(t, u) ==
  /\ Readable(t)
  /\ ~ Alive(u)
  /\ tensor' = [tensor EXCEPT ![u] = Tagged(tensor[t].root, Buffer(t))]
  /\ Derived(t, u)
  /\ UNCHANGED <<at, content, table>>

\* Mutant: the copy keeps the stamp of the original.
CopyKeepsStamp(t, u, r, e) ==
  /\ Alive(t) /\ ~ Alive(u)
  /\ Fill(r, e, content[Buffer(t)])
  /\ tensor' = [tensor EXCEPT ![t] = Latched(t), ![u] = [Latched(t) EXCEPT !.root = r]]
  /\ Derived(t, u)
  /\ UNCHANGED table

\* copy(), unpickling: the data is copied, then the tag if it is not void.
Copy(t, u, r, e) ==
  /\ Alive(t) /\ ~ Alive(u)
  /\ Fill(r, e, content[Buffer(t)])
  /\ tensor' = [tensor EXCEPT ![t] = Latched(t),
                              ![u] = IF Readable(t) THEN Tagged(r, e) ELSE Untagged(r)]
  /\ Derived(t, u)
  /\ UNCHANGED table

\* note_write(): the first root seen at an extent is the one observed.
NoteWrite(r, e) ==
  /\ epochs' = [epochs EXCEPT ![e] = @ + 1]
  /\ witness' = [witness EXCEPT ![e] = IF @ = None THEN r ELSE @]

\* A write through any alias of a root, tagged or not; it may fail to change
\* the data and is counted all the same.
Write(r) ==
  /\ at[r] # None
  /\ epochs[at[r]] < MaxWrites
  /\ NoteWrite(r, at[r])
  /\ \E c \in Content : content' = [content EXCEPT ![at[r]] = c]
  /\ UNCHANGED <<at, tensor, lost>>

\* Mutant: the count is dropped with any tensor of the buffer.
ReleaseDropsCount(t) ==
  /\ Alive(t)
  /\ epochs' = [epochs EXCEPT ![Buffer(t)] = 0]
  /\ witness' = [witness EXCEPT ![Buffer(t)] = None]
  /\ tensor' = [tensor EXCEPT ![t] = None]
  /\ lost' = lost \ {t}
  /\ UNCHANGED <<at, content>>

\* A tensor is collected.
Release(t) ==
  /\ Alive(t)
  /\ tensor' = [tensor EXCEPT ![t] = None]
  /\ lost' = lost \ {t}
  /\ UNCHANGED <<at, content, table>>

\* Mutant: a count outlives its buffer.
DropNothing(r, e) == UNCHANGED <<table, lost>>

\* _drop(), if r is the root the count of e was first seen through.
Drop(r, e) ==
  \/ witness[e] # r /\ UNCHANGED <<table, lost>>
  \/ /\ witness[e] = r
     /\ epochs' = [epochs EXCEPT ![e] = 0]
     /\ witness' = [witness EXCEPT ![e] = None]
     /\ lost' = lost \cup {t \in Tensors : Alive(t) /\ Buffer(t) = e}

\* A root is collected: nothing is a view of it any more.
Die(r) ==
  /\ at[r] # None
  /\ \A t \in Tensors : Alive(t) => tensor[t].root # r
  /\ Drop(r, at[r])
  /\ at' = [at EXCEPT ![r] = None]
  /\ UNCHANGED <<content, tensor>>

Next ==
  \/ \E r \in Roots, e \in Extents, c \in Content : Make(r, e, c)
  \/ \E r \in Roots, e \in Extents : Share(r, e)
  \/ \E r \in Roots : Write(r) \/ Die(r)
  \/ \E t \in Tensors : Read(t) \/ Release(t)
  \/ \E t \in Tensors, r \in Roots : AsSymmetric(t, r)
  \/ \E t, u \in Tensors : View(t, u)
  \/ \E t, u \in Tensors, r \in Roots, e \in Extents : Copy(t, u, r, e)

Spec == Init /\ [][Next]_vars

-----------------------------------------------------------------------------
\* A tag the cost model honours tells the truth about the data, whatever was
\* written through whatever alias, unless its count was dropped under it.
TagHonest ==
  \A t \in Tensors : Readable(t) /\ t \notin lost => content[Buffer(t)] = "exact"

\* Every count belongs to a buffer that is alive and will be dropped with it:
\* memory that is used again starts with no count of its former owner.
CountsOfLiveBuffers ==
  \A e \in Extents : epochs[e] > 0 => witness[e] # None /\ at[witness[e]] = e

Revived(t) == Alive(t) /\ Alive(t)' /\ ~ Readable(t) /\ Readable(t)'

\* A void tag stays void, unless its count was dropped under it: no write, view,
\* copy or reuse of the memory brings it back.
VoidForGood == [][\A t \in Tensors : Revived(t) => t \in lost']_vars

\* Losing a count voids the tags of its buffer, and revives none.
LossVoids == \A t \in lost : ~ Readable(t)
=============================================================================
