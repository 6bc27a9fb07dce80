-------------------------- MODULE WriteEpochProofs --------------------------
(***************************************************************************)
(* Theorems about WriteEpoch for any number of roots, extents and tensors, *)
(* and any bound on the writes.                                            *)
(***************************************************************************)
EXTENDS WriteEpoch, TLAPS

USE RootAssumption, ExtentAssumption, WriteAssumption

\* A tensor keeps its root alive.
RootsAlive == \A t \in Tensors : Alive(t) => Buffer(t) # None

\* The root a count was seen through is alive, and still where it was.
WitnessesAlive == \A e \in Extents : witness[e] # None => at[witness[e]] = e

\* No tag is stamped with a count its buffer has not reached.
StampsPast ==
  \A t \in Tensors : Alive(t) /\ t \notin lost => tensor[t].stamp <= epochs[Buffer(t)]

\* The inductive invariant: a count only grows under the tags that observe it,
\* so a tag of a count that moved never meets its stamp again.
EpochInv ==
  /\ TypeOK
  /\ RootsAlive
  /\ WitnessesAlive
  /\ CountsOfLiveBuffers
  /\ StampsPast
  /\ TagHonest

\* What the invariant says of one tensor.
Sound(t) ==
  Alive(t) => /\ Buffer(t) # None
              /\ t \notin lost => tensor[t].stamp <= epochs[Buffer(t)]
              /\ Readable(t) /\ t \notin lost => content[Buffer(t)] = "exact"

\* A step under which tensor t keeps its root and stamp, no tag is put back, and
\* the count of its buffer, unless lost, does not fall nor stand still while the
\* data changes.
Keeps(t) ==
  /\ tensor'[t] \in Tensor
  /\ tensor'[t].root = tensor[t].root
  /\ tensor'[t].stamp = tensor[t].stamp
  /\ tensor'[t].raw => tensor[t].raw
  /\ at'[tensor[t].root] = Buffer(t)
  /\ t \in lost => t \in lost'
  /\ t \notin lost' =>
       \/ epochs'[Buffer(t)] > epochs[Buffer(t)]
       \/ /\ epochs'[Buffer(t)] = epochs[Buffer(t)]
          /\ content'[Buffer(t)] = content[Buffer(t)]

\* A step under which t is new, on a living root, and has no tag or a tag that is
\* true.
Born(t) ==
  /\ ~ Alive(t)
  /\ Buffer(t)' \in Extents
  /\ t \notin lost' => tensor'[t].stamp <= epochs'[Buffer(t)']
  /\ t \notin lost' /\ tensor'[t].raw => content'[Buffer(t)'] = "exact"

-----------------------------------------------------------------------------
\* A tensor alive is a record whose root covers an extent.
LEMMA TensorFacts ==
  ASSUME TypeOK, RootsAlive, NEW t \in Tensors, Alive(t)
  PROVE  /\ tensor[t] \in Tensor
         /\ tensor[t].root \in Roots
         /\ tensor[t].stamp \in Nat
         /\ Buffer(t) \in Extents
  BY DEF TypeOK, RootsAlive, Alive, Tensor, Buffer

\* Initially nothing is alive.
LEMMA EpochInit == Init => EpochInv
  BY DEF Init, EpochInv, TypeOK, RootsAlive, WitnessesAlive, CountsOfLiveBuffers,
         StampsPast, TagHonest, Alive, Readable, Buffer, Content

\* Every step preserves the types.
LEMMA TypesStep == EpochInv /\ [Next]_vars => TypeOK'
<1> SUFFICES ASSUME EpochInv, [Next]_vars PROVE TypeOK'
  OBVIOUS
<1>0. TypeOK /\ RootsAlive
  BY DEF EpochInv
<1> USE <1>0 DEF TypeOK
<1>1. ASSUME NEW r \in Roots, NEW e \in Extents, NEW c \in Content, Make(r, e, c)
      PROVE  TypeOK'
  BY <1>1 DEF Make, Fill, table
<1>2. ASSUME NEW r \in Roots, NEW e \in Extents, Share(r, e) PROVE TypeOK'
  BY <1>2 DEF Share, table
<1>3. ASSUME NEW r \in Roots, Write(r) PROVE TypeOK'
  BY <1>3 DEF Write, NoteWrite
<1>4. ASSUME NEW r \in Roots, Die(r) PROVE TypeOK'
  BY <1>4 DEF Die, Drop, table
<1>5. ASSUME NEW t \in Tensors, Read(t) PROVE TypeOK'
  <2>1. Latched(t) \in Tensor
    BY <1>5, TensorFacts DEF Read, Latched, Readable, Tensor
  <2> QED BY <1>5, <2>1 DEF Read, table
<1>6. ASSUME NEW t \in Tensors, Release(t) PROVE TypeOK'
  BY <1>6 DEF Release, table
<1>7. ASSUME NEW t \in Tensors, NEW r \in Roots, AsSymmetric(t, r) PROVE TypeOK'
  <2>1. ASSUME NEW n \in Roots, NEW e \in Extents PROVE Tagged(n, e) \in Tensor
    BY DEF Tagged, Tensor
  <2> QED BY <1>7, <2>1 DEF AsSymmetric, Fill, table, Content
<1>8. ASSUME NEW t \in Tensors, NEW u \in Tensors, View(t, u) PROVE TypeOK'
  <2>1. Tagged(tensor[t].root, Buffer(t)) \in Tensor
    BY <1>8, TensorFacts DEF View, Readable, Tagged, Tensor
  <2> QED BY <1>8, <2>1 DEF View, Derived, table
<1>9. ASSUME NEW t \in Tensors, NEW u \in Tensors, NEW r \in Roots,
             NEW e \in Extents, Copy(t, u, r, e)
      PROVE  TypeOK'
  <2>1. Latched(t) \in Tensor
    BY <1>9, TensorFacts DEF Copy, Latched, Readable, Tensor
  <2>2. Tagged(r, e) \in Tensor /\ Untagged(r) \in Tensor
    BY DEF Tagged, Untagged, Tensor
  <2>3. Buffer(t) \in Extents
    BY <1>9, TensorFacts DEF Copy
  <2> QED BY <1>9, <2>1, <2>2, <2>3 DEF Copy, Fill, Derived, table
<1>10. CASE UNCHANGED vars
  BY <1>10 DEF vars, table
<1> QED BY <1>1, <1>2, <1>3, <1>4, <1>5, <1>6, <1>7, <1>8, <1>9, <1>10 DEF Next

\* A new buffer disturbs no tensor, no witness and no data in use.
LEMMA FillFrame ==
  ASSUME EpochInv, NEW r \in Roots, NEW e \in Extents, NEW c, Fill(r, e, c)
  PROVE  /\ \A t \in Tensors : Alive(t) =>
              /\ at'[tensor[t].root] = Buffer(t)
              /\ content'[Buffer(t)] = content[Buffer(t)]
         /\ \A d \in Extents : witness[d] # None => at'[witness[d]] = d
         /\ epochs[e] = 0
<1> USE DEF EpochInv
<1>1. ASSUME NEW t \in Tensors, Alive(t)
      PROVE  /\ at'[tensor[t].root] = Buffer(t)
             /\ content'[Buffer(t)] = content[Buffer(t)]
  <2>1. tensor[t].root \in Roots /\ Buffer(t) \in Extents
    BY <1>1, TensorFacts
  <2>2. tensor[t].root # r /\ Buffer(t) # e
    BY <2>1 DEF Fill, Unused, Buffer
  <2> QED BY <2>1, <2>2 DEF Fill, TypeOK, Buffer
<1>2. ASSUME NEW d \in Extents, witness[d] # None PROVE at'[witness[d]] = d
  <2>1. witness[d] \in Roots /\ at[witness[d]] = d
    BY <1>2 DEF TypeOK, WitnessesAlive
  <2> QED BY <2>1 DEF Fill, TypeOK
<1>3. epochs[e] = 0
  <2>1. epochs[e] \in Nat
    BY DEF TypeOK
  <2>2. epochs[e] > 0 => witness[e] \in Roots /\ at[witness[e]] = e
    BY DEF TypeOK, CountsOfLiveBuffers
  <2> QED BY <2>1, <2>2 DEF Fill, Unused
<1> QED BY <1>1, <1>2, <1>3

\* The parts of the invariant that do not speak of tensors.
LEMMA CountsStep ==
  ASSUME EpochInv, [Next]_vars
  PROVE  WitnessesAlive' /\ CountsOfLiveBuffers'
<1> USE DEF EpochInv, WitnessesAlive, CountsOfLiveBuffers
<1>1. ASSUME NEW r \in Roots, NEW e \in Extents, NEW c, Fill(r, e, c), UNCHANGED table
      PROVE  WitnessesAlive' /\ CountsOfLiveBuffers'
  BY <1>1, FillFrame DEF table
<1>2. ASSUME NEW r \in Roots, NEW e \in Extents, Share(r, e)
      PROVE  WitnessesAlive' /\ CountsOfLiveBuffers'
  <2>1. \A d \in Extents : witness[d] # None => witness[d] \in Roots /\ witness[d] # r
    BY <1>2 DEF Share, TypeOK
  <2> QED BY <1>2, <2>1 DEF Share, TypeOK, table
<1>3. ASSUME NEW r \in Roots, Write(r) PROVE WitnessesAlive' /\ CountsOfLiveBuffers'
  <2>1. at[r] \in Extents
    BY <1>3 DEF Write, TypeOK
  <2> QED BY <1>3, <2>1 DEF Write, NoteWrite, TypeOK
<1>4. ASSUME NEW r \in Roots, Die(r) PROVE WitnessesAlive' /\ CountsOfLiveBuffers'
  <2>1. at[r] \in Extents
    BY <1>4 DEF Die, TypeOK
  <2>2. \A d \in Extents : witness'[d] # None => witness'[d] = witness[d] /\ witness[d] # r
    BY <1>4, <2>1 DEF Die, Drop, TypeOK, table
  <2>3. \A d \in Extents : epochs'[d] > 0 => epochs[d] > 0 /\ witness'[d] = witness[d]
    BY <1>4, <2>1 DEF Die, Drop, TypeOK, table
  <2>4. at' = [at EXCEPT ![r] = None]
    BY <1>4 DEF Die
  <2>5. \A d \in Extents : witness[d] \in Roots \cup {None}
    BY DEF TypeOK
  <2>6. \A d \in Extents : witness'[d] # None => at'[witness'[d]] = d
    BY <2>2, <2>4, <2>5 DEF TypeOK
  <2>7. \A d \in Extents : epochs'[d] > 0 => witness'[d] # None
    BY <2>3
  <2> QED BY <2>6, <2>7
<1>5. ASSUME UNCHANGED <<at, table>> PROVE WitnessesAlive' /\ CountsOfLiveBuffers'
  BY <1>5 DEF table
<1>6. ASSUME NEW t \in Tensors, NEW r \in Roots, AsSymmetric(t, r)
      PROVE  WitnessesAlive' /\ CountsOfLiveBuffers'
  BY <1>1, <1>5, <1>6 DEF AsSymmetric, table
<1>7. ASSUME NEW t \in Tensors, NEW u \in Tensors, NEW r \in Roots,
             NEW e \in Extents, Copy(t, u, r, e)
      PROVE  WitnessesAlive' /\ CountsOfLiveBuffers'
  BY <1>1, <1>7 DEF Copy
<1> QED
  BY <1>1, <1>2, <1>3, <1>4, <1>5, <1>6, <1>7 DEF Next, Make, Read, Release, View, vars, table

\* A tensor that is kept stays sound, and its tag is not revived.
LEMMA KeptTensor ==
  ASSUME EpochInv, TypeOK', NEW t \in Tensors, Alive(t), Keeps(t)
  PROVE  Sound(t)' /\ (Revived(t) => t \in lost')
<1> DEFINE b == Buffer(t)
<1>1. /\ tensor[t] \in Tensor /\ tensor[t].stamp \in Nat /\ b \in Extents
  BY TensorFacts DEF EpochInv
<1>2. b # None /\ epochs[b] \in Nat /\ epochs'[b] \in Nat
  BY <1>1 DEF EpochInv, TypeOK
<1>3. t \notin lost => tensor[t].stamp <= epochs[b]
  BY DEF EpochInv, StampsPast
<1>4. Readable(t) /\ t \notin lost => content[b] = "exact"
  BY DEF EpochInv, TagHonest
<1>5. Buffer(t)' = b
  BY DEF Keeps, Buffer
<1>6. Readable(t)' => tensor[t].raw /\ tensor[t].stamp = epochs'[b]
  BY <1>5 DEF Keeps, Readable
<1>7. t \notin lost' => tensor[t].stamp <= epochs[b] /\ epochs[b] <= epochs'[b]
  BY <1>2, <1>3 DEF Keeps
<1>8. Readable(t)' /\ t \notin lost' => Readable(t) /\ content'[b] = content[b]
  <2> SUFFICES ASSUME Readable(t)', t \notin lost'
               PROVE  Readable(t) /\ content'[b] = content[b]
    OBVIOUS
  <2>1. tensor[t].stamp = epochs[b] /\ epochs'[b] = epochs[b]
    BY <1>1, <1>2, <1>6, <1>7
  <2>2. tensor[t].raw
    BY <1>6
  <2>3. Readable(t)
    BY <2>1, <2>2 DEF Readable
  <2>4. content'[b] = content[b]
    BY <2>1, <1>2 DEF Keeps
  <2> QED BY <2>3, <2>4
<1>9. t \notin lost' => t \notin lost
  BY DEF Keeps
<1>10. Sound(t)'
  <2>1. t \notin lost' => tensor'[t].stamp <= epochs'[b]
    BY <1>1, <1>2, <1>7 DEF Keeps
  <2>2. Readable(t)' /\ t \notin lost' => content'[b] = "exact"
    BY <1>4, <1>8, <1>9
  <2> QED BY <1>2, <1>5, <2>1, <2>2 DEF Sound
<1>11. Revived(t) => t \in lost'
  BY <1>8 DEF Revived
<1> QED BY <1>10, <1>11

\* A tensor that is born is sound, and was not there to be revived.
LEMMA BornTensor ==
  ASSUME NEW t \in Tensors, Born(t)
  PROVE  Sound(t)' /\ ~ Revived(t)
<1>1. ~ Revived(t)
  BY DEF Born, Revived
<1>2. Buffer(t)' # None
  BY DEF Born
<1>3. Readable(t)' => tensor'[t].raw
  BY DEF Readable
<1> QED BY <1>1, <1>2, <1>3 DEF Sound, Born

\* Every step keeps a tensor, or it is born, or it is not there afterwards.
LEMMA TensorFates ==
  ASSUME EpochInv, TypeOK', [Next]_vars, NEW t \in Tensors
  PROVE  (Alive(t) /\ Keeps(t)) \/ Born(t) \/ ~ Alive(t)'
<1> SUFFICES ASSUME Alive(t)' PROVE (Alive(t) /\ Keeps(t)) \/ Born(t)
  OBVIOUS
<1>0. Alive(t) => /\ tensor[t] \in Tensor /\ tensor[t].root \in Roots
                  /\ Buffer(t) \in Extents
  BY TensorFacts DEF EpochInv
<1>t. TypeOK
  BY DEF EpochInv
<1>u. ASSUME UNCHANGED <<at, content, table>>, tensor'[t] = tensor[t],
             t \in lost => t \in lost'
      PROVE  Alive(t) /\ Keeps(t)
  <2>1. Alive(t)
    BY <1>u DEF Alive
  <2> QED BY <1>0, <1>u, <2>1 DEF Keeps, Buffer, table
<1>f. ASSUME NEW r \in Roots, NEW e \in Extents, NEW c, Fill(r, e, c),
             UNCHANGED table, tensor'[t] = tensor[t], t \in lost => t \in lost'
      PROVE  Alive(t) /\ Keeps(t)
  <2>1. Alive(t)
    BY <1>f DEF Alive
  <2>2. at'[tensor[t].root] = Buffer(t) /\ content'[Buffer(t)] = content[Buffer(t)]
    BY <1>f, <2>1, FillFrame
  <2> QED BY <1>0, <1>f, <2>1, <2>2 DEF Keeps, table
<1>1. ASSUME NEW r \in Roots, NEW e \in Extents, NEW c \in Content, Make(r, e, c)
      PROVE  Alive(t) /\ Keeps(t)
  BY <1>1, <1>f DEF Make
<1>2. ASSUME NEW r \in Roots, NEW e \in Extents, Share(r, e)
      PROVE  Alive(t) /\ Keeps(t)
  <2>1. Alive(t)
    BY <1>2 DEF Share, Alive
  <2>2. tensor[t].root # r
    BY <1>0, <1>2, <2>1 DEF Share, Buffer
  <2>3. at'[tensor[t].root] = Buffer(t)
    BY <1>0, <1>2, <1>t, <2>1, <2>2 DEF Share, Buffer, TypeOK
  <2> QED BY <1>0, <1>2, <2>1, <2>3 DEF Share, Keeps, table
<1>3. ASSUME NEW r \in Roots, Write(r) PROVE Alive(t) /\ Keeps(t)
  <2>1. Alive(t)
    BY <1>3 DEF Write, Alive
  <2>2. at'[tensor[t].root] = Buffer(t)
    BY <1>3 DEF Write, Buffer
  <2>3. \/ epochs'[Buffer(t)] > epochs[Buffer(t)]
        \/ /\ epochs'[Buffer(t)] = epochs[Buffer(t)]
           /\ content'[Buffer(t)] = content[Buffer(t)]
    <3>1. CASE Buffer(t) = at[r]
      BY <1>0, <1>3, <1>t, <2>1, <3>1 DEF Write, NoteWrite, TypeOK
    <3>2. CASE Buffer(t) # at[r]
      BY <1>0, <1>3, <1>t, <2>1, <3>2 DEF Write, NoteWrite, TypeOK
    <3> QED BY <3>1, <3>2
  <2> QED BY <1>0, <1>3, <2>1, <2>2, <2>3 DEF Write, Keeps
<1>4. ASSUME NEW r \in Roots, Die(r) PROVE Alive(t) /\ Keeps(t)
  <2>1. Alive(t)
    BY <1>4 DEF Die, Alive
  <2>2. tensor[t].root # r
    BY <1>4, <2>1 DEF Die
  <2>3. at'[tensor[t].root] = Buffer(t)
    BY <1>0, <1>4, <1>t, <2>1, <2>2 DEF Die, Buffer, TypeOK
  <2>4. /\ lost \subseteq lost'
        /\ t \notin lost' => epochs'[Buffer(t)] = epochs[Buffer(t)]
    BY <1>0, <1>4, <1>t, <2>1 DEF Die, Drop, TypeOK, table
  <2> QED BY <1>0, <1>4, <2>1, <2>3, <2>4 DEF Die, Keeps
<1>5. ASSUME NEW s \in Tensors, Read(s) PROVE Alive(t) /\ Keeps(t)
  <2>1. CASE t # s
    <3>1. tensor'[t] = tensor[t]
      BY <1>5, <1>t, <2>1 DEF Read, TypeOK
    <3> QED BY <1>5, <1>u, <3>1 DEF Read
  <2>2. CASE t = s
    <3>1. Alive(t) /\ tensor'[t] = Latched(t)
      BY <1>5, <1>t, <2>2 DEF Read, TypeOK
    <3>2. /\ tensor'[t] \in Tensor
          /\ tensor'[t].root = tensor[t].root
          /\ tensor'[t].stamp = tensor[t].stamp
          /\ tensor'[t].raw => tensor[t].raw
      BY <1>0, <3>1 DEF Latched, Readable, Tensor
    <3> QED BY <1>5, <3>1, <3>2 DEF Read, Keeps, Buffer, table
  <2> QED BY <2>1, <2>2
<1>6. ASSUME NEW s \in Tensors, Release(s) PROVE Alive(t) /\ Keeps(t)
  <2>1. t # s /\ tensor'[t] = tensor[t]
    BY <1>6, <1>t DEF Release, Alive, TypeOK
  <2> QED BY <1>6, <1>u, <2>1 DEF Release
<1>7. ASSUME NEW s \in Tensors, NEW r \in Roots, AsSymmetric(s, r)
      PROVE  (Alive(t) /\ Keeps(t)) \/ Born(t)
  <2>1. CASE t # s
    <3>1. tensor'[t] = tensor[t]
      BY <1>7, <1>t, <2>1 DEF AsSymmetric, TypeOK
    <3> QED BY <1>7, <1>f, <1>u, <3>1 DEF AsSymmetric, table
  <2>2. CASE t = s
    <3>1. ~ Alive(t) /\ epochs' = epochs
      BY <1>7, <2>2 DEF AsSymmetric, table
    <3>2. CASE content[at[r]] = "exact" /\ tensor' = [tensor EXCEPT ![s] = Tagged(r, at[r])]
                 /\ UNCHANGED <<at, content>>
      <4>1. at[r] \in Extents /\ tensor'[t] = Tagged(r, at[r])
        BY <1>7, <1>t, <2>2, <3>2 DEF AsSymmetric, TypeOK
      <4>2. /\ tensor'[t].root = r /\ tensor'[t].stamp = epochs[at[r]]
            /\ epochs[at[r]] \in Nat
        BY <1>t, <4>1 DEF Tagged, TypeOK
      <4> QED BY <3>1, <3>2, <4>1, <4>2 DEF Born, Buffer
    <3>3. ASSUME NEW n \in Roots, NEW e \in Extents, Fill(n, e, "exact"),
                 tensor' = [tensor EXCEPT ![s] = Tagged(n, e)]
          PROVE  Born(t)
      <4>1. tensor'[t] = Tagged(n, e) /\ at'[n] = e /\ content'[e] = "exact"
        BY <1>t, <2>2, <3>3 DEF Fill, TypeOK
      <4>2. /\ tensor'[t].root = n /\ tensor'[t].stamp = epochs[e]
            /\ epochs[e] \in Nat
        BY <1>t, <4>1 DEF Tagged, TypeOK
      <4> QED BY <3>1, <4>1, <4>2 DEF Born, Buffer
    <3> QED BY <1>7, <3>2, <3>3 DEF AsSymmetric
  <2> QED BY <2>1, <2>2
<1>8. ASSUME NEW s \in Tensors, NEW u \in Tensors, View(s, u)
      PROVE  (Alive(t) /\ Keeps(t)) \/ Born(t)
  <2>1. CASE t # u
    <3>1. tensor'[t] = tensor[t] /\ (t \in lost => t \in lost')
      BY <1>8, <1>t, <2>1 DEF View, Derived, TypeOK
    <3> QED BY <1>8, <1>u, <3>1 DEF View
  <2>2. CASE t = u
    <3>1. /\ Alive(s) /\ Readable(s) /\ ~ Alive(t)
          /\ UNCHANGED <<at, content, table>>
      BY <1>8, <2>2 DEF View, Readable
    <3>2. tensor[s].root \in Roots /\ Buffer(s) \in Extents /\ epochs[Buffer(s)] \in Nat
      BY <1>t, <3>1, TensorFacts DEF EpochInv, TypeOK
    <3>3. tensor'[t] = Tagged(tensor[s].root, Buffer(s))
      BY <1>8, <1>t, <2>2 DEF View, TypeOK
    <3>4. tensor'[t].root = tensor[s].root /\ tensor'[t].stamp = epochs[Buffer(s)]
      BY <3>3 DEF Tagged
    <3>5. Buffer(t)' = Buffer(s)
      BY <3>1, <3>4 DEF Buffer
    <3>6. t \notin lost' => s \notin lost
      BY <1>8, <1>t, <2>2 DEF View, Derived, TypeOK
    <3>7. s \notin lost => content[Buffer(s)] = "exact"
      BY <3>1 DEF EpochInv, TagHonest
    <3> QED BY <3>1, <3>2, <3>4, <3>5, <3>6, <3>7 DEF Born, table
  <2> QED BY <2>1, <2>2
<1>9. ASSUME NEW s \in Tensors, NEW u \in Tensors, NEW r \in Roots,
             NEW e \in Extents, Copy(s, u, r, e)
      PROVE  (Alive(t) /\ Keeps(t)) \/ Born(t)
  <2>0. /\ Alive(s) /\ ~ Alive(u) /\ s # u
        /\ Fill(r, e, content[Buffer(s)]) /\ epochs' = epochs
        /\ t \in lost => t \in lost'
    BY <1>9 DEF Copy, Derived, table
  <2>1. CASE t # u /\ t # s
    <3>1. tensor'[t] = tensor[t]
      BY <1>9, <1>t, <2>1 DEF Copy, TypeOK
    <3> QED BY <1>9, <1>f, <2>0, <3>1 DEF Copy
  <2>2. CASE t = s
    <3>1. tensor'[t] = Latched(t)
      BY <1>9, <1>t, <2>0, <2>2 DEF Copy, TypeOK
    <3>2. /\ tensor'[t] \in Tensor
          /\ tensor'[t].root = tensor[t].root
          /\ tensor'[t].stamp = tensor[t].stamp
          /\ tensor'[t].raw => tensor[t].raw
      BY <1>0, <2>0, <2>2, <3>1 DEF Latched, Readable, Tensor
    <3>3. at'[tensor[t].root] = Buffer(t) /\ content'[Buffer(t)] = content[Buffer(t)]
      BY <2>0, <2>2, FillFrame
    <3> QED BY <2>0, <2>2, <3>2, <3>3 DEF Keeps
  <2>3. CASE t = u
    <3>1. at'[r] = e /\ content'[e] = content[Buffer(s)] /\ epochs[e] \in Nat
      BY <1>t, <2>0 DEF Fill, TypeOK
    <3>2. tensor'[t] = IF Readable(s) THEN Tagged(r, e) ELSE Untagged(r)
      BY <1>9, <1>t, <2>3 DEF Copy, TypeOK
    <3>3. /\ tensor'[t].root = r
          /\ tensor'[t].stamp <= epochs[e]
          /\ tensor'[t].raw => Readable(s)
      BY <3>1, <3>2 DEF Tagged, Untagged
    <3>4. Buffer(t)' = e
      BY <3>1, <3>3 DEF Buffer
    <3>5. t \notin lost' => s \notin lost
      BY <1>9, <1>t, <2>3 DEF Copy, Derived, TypeOK
    <3>6. Readable(s) /\ s \notin lost => content[Buffer(s)] = "exact"
      BY DEF EpochInv, TagHonest
    <3> QED BY <2>0, <2>3, <3>1, <3>3, <3>4, <3>5, <3>6 DEF Born
  <2> QED BY <2>1, <2>2, <2>3
<1>10. CASE UNCHANGED vars
  BY <1>10, <1>u DEF vars
<1> QED BY <1>1, <1>2, <1>3, <1>4, <1>5, <1>6, <1>7, <1>8, <1>9, <1>10 DEF Next

\* Every step preserves the invariant and revives no tag.
LEMMA EpochStep ==
  ASSUME EpochInv, [Next]_vars
  PROVE  EpochInv' /\ \A t \in Tensors : Revived(t) => t \in lost'
<1>1. TypeOK'
  BY TypesStep
<1>2. WitnessesAlive' /\ CountsOfLiveBuffers'
  BY CountsStep
<1>3. ASSUME NEW t \in Tensors PROVE Sound(t)' /\ (Revived(t) => t \in lost')
  <2>1. CASE Alive(t) /\ Keeps(t)
    BY <1>1, <2>1, KeptTensor
  <2>2. CASE Born(t)
    BY <2>2, BornTensor
  <2>3. CASE ~ Alive(t)'
    BY <2>3 DEF Sound, Revived
  <2> QED BY <1>1, <2>1, <2>2, <2>3, TensorFates
<1>4. RootsAlive' /\ StampsPast' /\ TagHonest'
  <2>1. ASSUME NEW t \in Tensors PROVE Readable(t)' => Alive(t)'
    BY DEF Readable
  <2> QED BY <1>3, <2>1 DEF Sound, RootsAlive, StampsPast, TagHonest
<1> QED BY <1>1, <1>2, <1>3, <1>4 DEF EpochInv

\* The invariant holds in every reachable state.
LEMMA EpochInvariant == Spec => []EpochInv
<1>1. EpochInv /\ [Next]_vars => EpochInv'
  BY EpochStep
<1> QED BY <1>1, EpochInit, PTL DEF Spec

-----------------------------------------------------------------------------
\* Every variable of the write counts keeps its type.
THEOREM EpochTypes == Spec => []TypeOK
<1>1. EpochInv => TypeOK
  BY DEF EpochInv
<1> QED BY <1>1, EpochInvariant, PTL

\* A tag the cost model honours is true of the data (the getter of _symmetry),
\* as long as no count is dropped while a root still covers the memory.
THEOREM TagsHonest == Spec => []TagHonest
<1>1. EpochInv => TagHonest
  BY DEF EpochInv
<1> QED BY <1>1, EpochInvariant, PTL

\* The table of counts speaks of living buffers only: memory used again starts
\* from zero (note_write and the finalizer it installs).
THEOREM CountsDieWithBuffers == Spec => []CountsOfLiveBuffers
<1>1. EpochInv => CountsOfLiveBuffers
  BY DEF EpochInv
<1> QED BY <1>1, EpochInvariant, PTL

\* No write, copy, view or reuse of memory revives a void tag; only a dropped
\* count can.
THEOREM VoidTagsStayVoid == Spec => VoidForGood
<1>1. EpochInv /\ [Next]_vars => [\A t \in Tensors : Revived(t) => t \in lost']_vars
  BY EpochStep
<1> QED BY <1>1, EpochInvariant, PTL DEF Spec, VoidForGood
=============================================================================
