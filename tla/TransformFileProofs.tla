------------------------ MODULE TransformFileProofs ------------------------
(***************************************************************************)
(* Proofs about TransformFile, for every number of threads, files, names   *)
(* and blocks, on volumes with and without streams, under every fault.     *)
(***************************************************************************)
EXTENDS TransformFile, TLAPS

-----------------------------------------------------------------------------
(* Blocks and tags *)

\* A second XOR with the same keystream restores the block.
LEMMA XorTwice ==
    ASSUME NEW b \in BlockValues, NEW s \in Seeds
    PROVE  Xor(b, s) \in BlockValues /\ Xor(Xor(b, s), s) = b
BY DEF Xor, BlockValues

\* What is hashed is a sequence of blocks of the file.
LEMMA PrefixType ==
    ASSUME NEW c \in Contents, NEW p \in 0..N
    PROVE  /\ Prefix(c, p) \in Seq(BlockValues)
           /\ DOMAIN Prefix(c, p) = 1..p
           /\ \A i \in 1..p : i \in Blocks /\ Prefix(c, p)[i] = c[i]
BY LengthAssumption DEF Prefix, Contents, Blocks

\* The content of a new file is well formed.
LEMMA PlainType ==
    ASSUME NEW f \in Files \cup {Foreign}
    PROVE  PlainContent(f) \in Contents
BY DEF PlainContent, Contents, BlockValues

\* The sidecar of an earlier file is a sound tag.
LEMMA StaleTagSound ==
    ASSUME NEW n \in Names
    PROVE  StaleTag(n) \in Hmacs /\ Sound(StaleTag(n))
<1> DEFINE s == SeedForPath(n, FALSE)
           c == PlainContent(Foreign)
           x == XorAll(c, s)
<1>1. s \in Seeds
  BY DEF SeedForPath, Seeds
<1>2. c \in Contents /\ DOMAIN c = Blocks
  BY PlainType DEF Contents
<1>3. \A i \in Blocks : x[i] = Xor(c[i], s) /\ x[i] \in BlockValues
  BY <1>1, <1>2, XorTwice DEF XorAll, Contents
<1>4. x \in Seq(BlockValues) /\ DOMAIN x = Blocks
  <2>1. x = Prefix(x, N)
    BY <1>2 DEF XorAll, Prefix, Blocks
  <2>2. x \in Contents
    BY <1>2, <1>3 DEF XorAll, Contents
  <2>3. N \in 0..N
    BY LengthAssumption
  <2> HIDE DEF s, c, x
  <2>4. Prefix(x, N) \in Seq(BlockValues) /\ DOMAIN Prefix(x, N) = 1..N
    BY <2>2, <2>3, PrefixType
  <2>5. QED
    BY <2>1, <2>4 DEF Blocks
<1>5. QED
  BY <1>1, <1>2, <1>3, <1>4 DEF StaleTag, Sound, Hmac, Hmacs

\* The three kinds of tags are told apart by their kind.
LEMMA TagKinds ==
    ASSUME NEW t \in Tags
    PROVE  /\ t.kind = "hmac" => t \in Hmacs
           /\ t = NoTag => t.kind = "none"
           /\ t = EmptyTag => t.kind = "empty"
           /\ t.kind # "hmac" => Sound(t)
BY DEF Tags, Hmacs, NoTag, EmptyTag, Sound

\* The thread that is in no operation.
LEMMA IdleType == Idle \in OpType /\ Idle.pc = "idle" /\ Sound(Idle.stored)
BY LengthAssumption DEF Idle, OpType, Places, NoTag, Tags, Sound

-----------------------------------------------------------------------------
(* The inductive invariant *)

LEMMA InitIInv == Init => IInv
<1> SUFFICES ASSUME Init PROVE IInv
  OBVIOUS
<1> USE DEF Init
<1>1. VolumeTypeOK
  <2>1. data \in [Files -> Contents]
    BY PlainType
  <2>2. ads \in [Files -> Tags] /\ sidecar \in [Names -> Tags]
    BY StaleTagSound DEF Tags
  <2>3. \A t \in issued : t \in Hmacs
    BY StaleTagSound, NameAssumption
  <2>4. QED
    BY <2>1, <2>2, <2>3, BoundAssumption DEF VolumeTypeOK
<1>2. op \in [Actors -> OpType] /\ \A a \in Actors : op[a] = Idle
  BY IdleType
<1>3. TypeOK
  BY <1>1, <1>2 DEF TypeOK
<1>4. Exclusive /\ \A a \in Actors : OpSound(op[a])
  BY <1>2, IdleType
     DEF Exclusive, OpSound, HandleHolds, InPlace, Checked, Transforming
<1>5. TagsSound
  BY StaleTagSound DEF TagsSound, Sound, NoTag
<1>6. QED
  BY <1>3, <1>4, <1>5 DEF IInv

\* An operation of another thread stays sound while its file keeps its name and
\* its blocks.
LEMMA Frame ==
    ASSUME IInv, NEW b \in Actors, op'[b] = op[b],
           op[b].pc \in Transforming =>
               /\ dir'[op[b].name] = dir[op[b].name]
               /\ data'[op[b].file] = data[op[b].file]
    PROVE  OpSound(op[b])'
BY DEF IInv, OpSound, HandleHolds, InPlace, Checked, Sound, Transforming

\* What is left to show of a step that only the operation of thread a takes.
LEMMA ThreadStep ==
    ASSUME IInv, NEW a \in Actors,
           op' = [op EXCEPT ![a] = op'[a]],
           op'[a] \in OpType,
           result' \in [Actors -> {"none", "ok", "fail"}],
           VolumeTypeOK', TagsSound', OpSound(op[a])',
           \A b \in Actors \ {a} : op[b].pc \in Transforming =>
               /\ dir'[op[b].name] = dir[op[b].name]
               /\ data'[op[b].file] = data[op[b].file]
               /\ op'[a].pc \in Transforming => op'[a].file # op[b].file
    PROVE  IInv'
<1>1. op \in [Actors -> OpType]
  BY DEF IInv, TypeOK
<1>2. op' \in [Actors -> OpType] /\ \A b \in Actors \ {a} : op'[b] = op[b]
  BY <1>1
<1>3. TypeOK'
  BY <1>2 DEF TypeOK
<1>4. \A b \in Actors : OpSound(op[b])'
  BY <1>2, Frame
<1>5. Exclusive'
  BY <1>2 DEF IInv, Exclusive
<1>6. QED
  BY <1>3, <1>4, <1>5 DEF IInv

\* A thread that leaves its operation, or fails to start one.
LEMMA ReturnStep ==
    ASSUME IInv, NEW a \in Actors, op' = [op EXCEPT ![a] = Idle],
           result' \in [Actors -> {"none", "ok", "fail"}],
           VolumeTypeOK', TagsSound',
           \A b \in Actors \ {a} : op[b].pc \in Transforming =>
               /\ dir'[op[b].name] = dir[op[b].name]
               /\ data'[op[b].file] = data[op[b].file]
    PROVE  IInv'
<1>1. op'[a] = Idle
  BY DEF IInv, TypeOK
<1>2. OpSound(op[a])'
  BY <1>1, IdleType DEF OpSound, HandleHolds, InPlace, Checked, Transforming, Sound
<1>3. op'[a].pc \notin Transforming
  BY <1>1, IdleType DEF Transforming
<1>4. QED
  BY <1>1, <1>2, <1>3, IdleType, ThreadStep

-----------------------------------------------------------------------------
(* What the steps have in common *)

\* Faults and edits stay within their bounds.
LEMMA BoundStep ==
    ASSUME IInv
    PROVE  /\ NoFault => faults' \in 0..MaxFaults
           /\ \A k : Fault(k) => faults' \in 0..MaxFaults
           /\ Edit => edits' \in 0..MaxEdits
BY BoundAssumption DEF IInv, TypeOK, VolumeTypeOK, NoFault, Fault, Edit

\* A step that leaves the volume alone.
LEMMA DiskStep ==
    ASSUME IInv, UNCHANGED <<disk, issued, edits>>, faults' \in 0..MaxFaults
    PROVE  VolumeTypeOK' /\ TagsSound'
BY DEF IInv, TypeOK, VolumeTypeOK, TagsSound, Sound, disk

\* The thread of an open file and what it knows.
LEMMA ThreadFacts ==
    ASSUME IInv, NEW a \in Actors
    PROVE  /\ op[a] \in OpType
           /\ OpSound(op[a])
           /\ op[a].stored \in Tags
           /\ op[a].pos \in 1..(N + 1)
           /\ op[a].pc \in Transforming =>
                 /\ op[a].name \in Names
                 /\ op[a].file \in Files
                 /\ op[a].seed \in Seeds
                 /\ data[op[a].file] \in Contents
BY DEF IInv, TypeOK, VolumeTypeOK, OpType, OpSound, HandleHolds

\* What the steps of a pass change in its record keeps the record's type.
LEMMA AdvanceType ==
    ASSUME NEW c \in OpType, c.pos \in 1..N
    PROVE  [c EXCEPT !.pos = @ + 1] \in OpType
<1>1. c.pos + 1 \in 1..(N + 1)
  BY LengthAssumption
<1>2. ASSUME NEW p \in 1..(N + 1)
      PROVE  [c EXCEPT !.pos = p] \in OpType
  BY DEF OpType
<1>3. QED
  BY <1>1, <1>2

LEMMA StageType ==
    ASSUME NEW c \in OpType, NEW p \in Transforming, NEW b \in Contents
    PROVE  [c EXCEPT !.pc = p, !.before = b] \in OpType
<1> DEFINE pcs == {"idle", "audit", "delete"} \cup Transforming
           befores == Contents \cup {<<>>}
<1>1. p \in pcs /\ b \in befores
  OBVIOUS
<1> HIDE DEF pcs, befores
<1>2. QED
  BY <1>1 DEF OpType, pcs, befores

LEMMA StoredType ==
    ASSUME NEW c \in OpType, NEW t \in Tags
    PROVE  [c EXCEPT !.stored = t] \in OpType
BY DEF OpType

LEMMA PlaceType ==
    ASSUME NEW c \in OpType, NEW p \in Places
    PROVE  [c EXCEPT !.place = p] \in OpType
BY DEF OpType

\* Return is a return, whatever it returns.
LEMMA ReturnType ==
    ASSUME IInv, NEW a \in Actors, NEW r \in {"none", "ok", "fail"}, Return(a, r)
    PROVE  /\ op' = [op EXCEPT ![a] = Idle]
           /\ result' \in [Actors -> {"none", "ok", "fail"}]
BY DEF IInv, TypeOK, Return

\* A step of a thread that returns and leaves the volume alone.
LEMMA QuietReturn ==
    ASSUME IInv, NEW a \in Actors, NEW r \in {"none", "ok", "fail"}, Return(a, r),
           UNCHANGED <<disk, issued, edits>>, faults' \in 0..MaxFaults
    PROVE  IInv'
<1>1. VolumeTypeOK' /\ TagsSound'
  BY DiskStep
<1>2. UNCHANGED <<dir, data>>
  BY DEF disk
<1>3. QED
  BY <1>1, <1>2, ReturnType, ReturnStep

\* Only one thread has a file open.
LEMMA OthersElsewhere ==
    ASSUME IInv, NEW a \in Actors, op[a].pc \in Transforming,
           NEW b \in Actors \ {a}, op[b].pc \in Transforming
    PROVE  op[b].file # op[a].file /\ op[b].name # op[a].name
BY DEF IInv, Exclusive, OpSound, HandleHolds

\* A step of a thread that goes on inside its operation and leaves the volume
\* alone.
LEMMA QuietStep ==
    ASSUME IInv, NEW a \in Actors, op[a].pc \in Transforming,
           op' = [op EXCEPT ![a] = op'[a]],
           op'[a] \in OpType, op'[a].file = op[a].file, OpSound(op[a])',
           UNCHANGED <<disk, issued, edits, result>>, faults' \in 0..MaxFaults
    PROVE  IInv'
<1>1. VolumeTypeOK' /\ TagsSound'
  BY DiskStep
<1>2. UNCHANGED <<dir, data>> /\ result' \in [Actors -> {"none", "ok", "fail"}]
  BY DEF disk, IInv, TypeOK
<1>3. QED
  BY <1>1, <1>2, ThreadStep, OthersElsewhere

-----------------------------------------------------------------------------
(* The actions of TransformFile *)

LEMMA OpenStep ==
    ASSUME IInv, NEW a \in Actors, NEW n \in Names, Open(a, n)
    PROVE  IInv'
<1>1. PICK serial \in BOOLEAN :
          op' = [op EXCEPT ![a] = [Idle EXCEPT !.pc = "open", !.name = n,
                    !.file = dir[n], !.seed = SeedForPath(n, serial)]]
  BY DEF Open
<1> DEFINE s == SeedForPath(n, serial)
<1>2. op'[a] = [pc |-> "open", name |-> n, file |-> dir[n], seed |-> s,
                place |-> "ads", stored |-> NoTag, pos |-> 1, before |-> <<>>]
  BY <1>1 DEF IInv, TypeOK, Idle
<1>3. s \in Seeds
  BY DEF SeedForPath, Seeds
<1>4. dir[n] \in Files
  BY DEF Open, IInv, TypeOK, VolumeTypeOK
<1> HIDE DEF s
<1>5. op'[a] \in OpType
  BY <1>2, <1>3, <1>4, LengthAssumption
     DEF OpType, Seeds, Transforming, Places, Tags
<1>6. VolumeTypeOK' /\ TagsSound' /\ UNCHANGED <<dir, data>>
  BY BoundStep, DiskStep DEF Open, disk
<1>7. OpSound(op[a])'
  BY <1>2, <1>3, <1>4, <1>6 DEF OpSound, HandleHolds, InPlace, Checked, Sound, NoTag
<1>8. \A b \in Actors \ {a} : op[b].pc \in Transforming => op[b].file # op'[a].file
  BY <1>2 DEF Open, IsOpen, HasOpen
<1>9. result' \in [Actors -> {"none", "ok", "fail"}]
  BY DEF Open, IInv, TypeOK
<1>10. op' = [op EXCEPT ![a] = op'[a]]
  BY <1>1 DEF IInv, TypeOK
<1>11. QED
  BY <1>5, <1>6, <1>7, <1>8, <1>9, <1>10, ThreadStep

LEMMA OpenFailsStep ==
    ASSUME IInv, NEW a \in Actors, NEW n \in Names, OpenFails(a, n)
    PROVE  IInv'
BY QuietReturn, BoundStep DEF OpenFails, NoFault

\* ReadAdsData returns a sound tag.
LEMMA FoundTagSound ==
    ASSUME IInv, NEW n \in Names, dir[n] \in Files
    PROVE  /\ FoundTag(n) \in Tags
           /\ Sound(FoundTag(n))
           /\ TagPlace(n) \in Places
BY DEF IInv, TypeOK, VolumeTypeOK, TagsSound, FoundTag, TagAt, TagPlace, Places

LEMMA ReadTagStep ==
    ASSUME IInv, NEW a \in Actors, ReadTag(a)
    PROVE  IInv'
<1> DEFINE n == op[a].name
           f == op[a].file
           tag == FoundTag(n)
           place == TagPlace(n)
<1>1. /\ op[a].pc = "open"
      /\ UNCHANGED <<disk, issued, edits>>
      /\ faults' \in 0..MaxFaults
  BY BoundStep DEF ReadTag
<1>2. op[a].pc \in Transforming
  BY <1>1 DEF Transforming
<1>3. n \in Names /\ f \in Files /\ dir[n] = f
  BY <1>2, ThreadFacts DEF OpSound, HandleHolds
<1>4. tag \in Tags /\ Sound(tag) /\ place \in Places
  BY <1>3, FoundTagSound
<1>5. op \in [Actors -> OpType] /\ op[a] \in OpType
  BY DEF IInv, TypeOK
<1>6. CASE \E r \in {"none", "ok", "fail"} : Return(a, r)
  BY <1>1, <1>6, QuietReturn
<1>7. CASE /\ tag.kind = "hmac" /\ UNCHANGED result
           /\ op' = [op EXCEPT ![a].pc = "verify", ![a].place = place,
                               ![a].stored = tag]
  <2> HIDE DEF tag, place
  <2>1. op'[a] = [op[a] EXCEPT !.pc = "verify", !.place = place, !.stored = tag]
    BY <1>5, <1>7
  <2>2. op'[a] \in OpType
    <3> DEFINE c == [op[a] EXCEPT !.place = place]
               d == [c EXCEPT !.stored = tag]
               p == "verify"
    <3>1. c \in OpType
      BY <1>4, <1>5, PlaceType
    <3>2. op'[a] = [d EXCEPT !.pc = p]
      BY <2>1
    <3> HIDE DEF c
    <3>3. d \in OpType
      BY <1>4, <3>1, StoredType
    <3>4. p \in Transforming
      BY DEF Transforming
    <3> HIDE DEF d, p
    <3>5. QED
      BY <3>2, <3>3, <3>4 DEF OpType
  <2>3. OpSound(op[a])'
    BY <2>1, <1>1, <1>2, <1>4, <1>5, <1>7, ThreadFacts
       DEF OpType, OpSound, HandleHolds, InPlace, Checked, Sound, disk
  <2>4. op' = [op EXCEPT ![a] = op'[a]] /\ op'[a].file = op[a].file
    BY <2>1, <1>5, <1>7 DEF OpType
  <2>5. QED
    BY <2>2, <2>3, <2>4, <1>1, <1>2, <1>7, QuietStep
<1>8. CASE /\ UNCHANGED result
           /\ op' = [op EXCEPT ![a].pc = "encrypt", ![a].place = place,
                               ![a].before = data[f]]
  <2> HIDE DEF tag, place
  <2>1. op'[a] = [op[a] EXCEPT !.pc = "encrypt", !.place = place,
                               !.before = data[f]]
    BY <1>5, <1>8
  <2>2. op'[a] \in OpType
    <3> DEFINE c == [op[a] EXCEPT !.place = place]
               p == "encrypt"
               before == data[f]
    <3>1. before \in Contents
      BY <1>2, ThreadFacts
    <3>2. p \in Transforming
      BY DEF Transforming
    <3>3. c \in OpType
      BY <1>4, <1>5, PlaceType
    <3>4. op'[a] = [c EXCEPT !.pc = p, !.before = before]
      BY <2>1
    <3> HIDE DEF c, p, before
    <3>5. [c EXCEPT !.pc = p, !.before = before] \in OpType
      BY <3>1, <3>2, <3>3, StageType
    <3>6. QED
      BY <3>4, <3>5
  <2>3. op[a].pos = 1 /\ data[f] \in Contents /\ Sound(op[a].stored)
    BY <1>1, <1>2, ThreadFacts DEF OpSound, InPlace
  <2>4. OpSound(op[a])'
    BY <2>1, <2>3, <1>1, <1>3, <1>5, <1>2, ThreadFacts
       DEF OpType, OpSound, HandleHolds, InPlace, Checked, Sound, disk, Blocks
  <2>5. op' = [op EXCEPT ![a] = op'[a]] /\ op'[a].file = op[a].file
    BY <2>1, <1>5, <1>8 DEF OpType
  <2>6. QED
    BY <2>2, <2>4, <2>5, <1>1, <1>2, <1>8, QuietStep
<1>9. QED
  BY <1>6, <1>7, <1>8 DEF ReadTag

LEMMA VerifyStep ==
    ASSUME IInv, NEW a \in Actors, Verify(a)
    PROVE  IInv'
<1> DEFINE content == data[op[a].file]
           stored == op[a].stored
<1>1. /\ op[a].pc = "verify"
      /\ UNCHANGED <<disk, issued, edits>>
      /\ faults' \in 0..MaxFaults
  BY BoundStep DEF Verify, Hashed
<1>2. op[a].pc \in Transforming
  BY <1>1 DEF Transforming
<1>3. op \in [Actors -> OpType] /\ op[a] \in OpType
  BY DEF IInv, TypeOK
<1>4. content \in Contents /\ Sound(stored) /\ stored.kind = "hmac" /\ op[a].pos = 1
  BY <1>1, <1>2, ThreadFacts DEF OpSound, InPlace, Checked
<1>5. CASE \E r \in {"none", "ok", "fail"} : Return(a, r)
  BY <1>1, <1>5, QuietReturn
<1>6. ASSUME NEW p \in 0..N,
             stored.seed = op[a].seed, stored.over = Prefix(content, p),
             op' = [op EXCEPT ![a].pc = "decrypt", ![a].before = content],
             UNCHANGED result
      PROVE  IInv'
  <2>1. op'[a] = [op[a] EXCEPT !.pc = "decrypt", !.before = content]
    BY <1>3, <1>6
  <2>2. op'[a] \in OpType
    <3> DEFINE c == op[a]
               p1 == "decrypt"
    <3>1. p1 \in Transforming
      BY DEF Transforming
    <3>2. c \in OpType /\ content \in Contents
      BY <1>3, <1>4
    <3>3. op'[a] = [c EXCEPT !.pc = p1, !.before = content]
      BY <2>1
    <3> HIDE DEF content, stored, c, p1
    <3>4. [c EXCEPT !.pc = p1, !.before = content] \in OpType
      BY <3>1, <3>2, StageType
    <3>5. QED
      BY <3>3, <3>4
  <2>3. \A i \in DOMAIN stored.over : content[i] = stored.over[i]
    <3> HIDE DEF content, stored
    <3>1. /\ DOMAIN Prefix(content, p) = 1..p
          /\ \A i \in 1..p : Prefix(content, p)[i] = content[i]
      BY <1>4, PrefixType
    <3>2. QED
      BY <3>1, <1>6
  <2>4. OpSound(op[a])'
    <3>1. HandleHolds(op[a])'
      BY <2>1, <1>1, <1>2, <1>3, ThreadFacts DEF OpType, OpSound, HandleHolds, disk
    <3>2. InPlace(op[a])'
      BY <2>1, <1>1, <1>3, <1>4 DEF OpType, InPlace, disk, Blocks
    <3>3. Checked(op[a])' /\ Sound(op[a].stored)'
      BY <2>1, <2>3, <1>3, <1>4, <1>6 DEF OpType, Checked, Sound
    <3>4. QED
      BY <3>1, <3>2, <3>3 DEF OpSound
  <2>5. op' = [op EXCEPT ![a] = op'[a]] /\ op'[a].file = op[a].file
    BY <2>1, <1>3, <1>6 DEF OpType
  <2>6. QED
    BY <2>2, <2>4, <2>5, <1>1, <1>2, <1>6, QuietStep
<1>7. QED
  BY <1>5, <1>6 DEF Verify

LEMMA ComputeTagStep ==
    ASSUME IInv, NEW a \in Actors, ComputeTag(a)
    PROVE  IInv'
<1> DEFINE content == data[op[a].file]
<1>1. /\ op[a].pc = "encrypt" /\ op[a].pos = N + 1
      /\ UNCHANGED <<disk, issued, edits>>
      /\ faults' \in 0..MaxFaults
  BY BoundStep DEF ComputeTag, Hashed
<1>2. op[a].pc \in Transforming
  BY <1>1 DEF Transforming
<1>3. op \in [Actors -> OpType] /\ op[a] \in OpType
  BY DEF IInv, TypeOK
<1>4. content \in Contents /\ op[a].before \in Contents /\ op[a].seed \in Seeds
  BY <1>1, <1>2, ThreadFacts DEF OpSound, InPlace
<1>5. CASE \E r \in {"none", "ok", "fail"} : Return(a, r)
  BY <1>1, <1>5, QuietReturn
<1>6. ASSUME NEW p \in 0..N,
             op' = [op EXCEPT ![a].pc = "tag", ![a].stored =
                       Hmac(op[a].seed, Prefix(content, p), op[a].before)],
             UNCHANGED result
      PROVE  IInv'
  <2> DEFINE t == Hmac(op[a].seed, Prefix(content, p), op[a].before)
  <2>1. op'[a] = [op[a] EXCEPT !.pc = "tag", !.stored = t]
    BY <1>3, <1>6
  <2>2. t \in Tags
    BY <1>4, PrefixType DEF Hmac, Hmacs, Tags
  <2>3. Sound(t) /\ t.kind = "hmac"
    <3>1. \A i \in Blocks : content[i] = Xor(op[a].before[i], op[a].seed)
      BY <1>1, <1>3, ThreadFacts, LengthAssumption DEF OpSound, InPlace, Blocks
    <3>2. DOMAIN Prefix(content, p) = 1..p
          /\ \A i \in 1..p : i \in Blocks /\ Prefix(content, p)[i] = content[i]
      BY <1>4, PrefixType
    <3>3. QED
      BY <3>1, <3>2 DEF Sound, Hmac
  <2> HIDE DEF t
  <2>4. op'[a] \in OpType
    BY <2>1, <2>2, <1>3 DEF OpType, Transforming
  <2>5. OpSound(op[a])'
    BY <2>1, <2>3, <1>1, <1>2, <1>3, ThreadFacts
       DEF OpType, OpSound, HandleHolds, InPlace, Checked, Sound, disk
  <2>6. op' = [op EXCEPT ![a] = op'[a]] /\ op'[a].file = op[a].file
    BY <2>1, <1>3, <1>6 DEF OpType, t
  <2>7. QED
    BY <2>4, <2>5, <2>6, <1>1, <1>2, <1>6, QuietStep
<1>7. QED
  BY <1>5, <1>6 DEF ComputeTag

\* One block of an open file is transformed.
LEMMA XorData ==
    ASSUME IInv, NEW a \in Actors, op[a].pc \in {"encrypt", "decrypt"},
           op[a].pos <= N,
           data' = [data EXCEPT ![op[a].file][op[a].pos] = Xor(@, op[a].seed)]
    PROVE  /\ data' \in [Files -> Contents]
           /\ \A i \in Blocks : data'[op[a].file][i] =
                 IF i = op[a].pos THEN Xor(data[op[a].file][i], op[a].seed)
                                  ELSE data[op[a].file][i]
           /\ \A f \in Files \ {op[a].file} : data'[f] = data[f]
           /\ \A b \in Actors \ {a} : op[b].pc \in Transforming =>
                 data'[op[b].file] = data[op[b].file]
<1> DEFINE f == op[a].file
           i == op[a].pos
           s == op[a].seed
<1>1. /\ op[a].pc \in Transforming
      /\ f \in Files /\ s \in Seeds /\ i \in Blocks
      /\ data \in [Files -> Contents]
  BY ThreadFacts, LengthAssumption
     DEF Transforming, Blocks, IInv, TypeOK, VolumeTypeOK
<1>2. data[f][i] \in BlockValues /\ Xor(data[f][i], s) \in BlockValues
  BY <1>1, XorTwice DEF Contents
<1> HIDE DEF f, i, s
<1>3. data' = [data EXCEPT ![f] = [data[f] EXCEPT ![i] = Xor(data[f][i], s)]]
  BY DEF f, i, s
<1>4. [data[f] EXCEPT ![i] = Xor(data[f][i], s)] \in Contents
  BY <1>1, <1>2 DEF Contents
<1>5. \A b \in Actors \ {a} : op[b].pc \in Transforming =>
          op[b].file \in Files \ {f}
  BY <1>1, ThreadFacts, OthersElsewhere DEF f
<1>6. data' \in [Files -> Contents] /\ \A g \in Files \ {f} : data'[g] = data[g]
  BY <1>1, <1>3, <1>4
<1>7. \A j \in Blocks : data'[f][j] =
          IF j = i THEN Xor(data[f][j], s) ELSE data[f][j]
  BY <1>1, <1>3 DEF Contents
<1>8. QED
  BY <1>5, <1>6, <1>7 DEF f, i, s

LEMMA XorBlockStep ==
    ASSUME IInv, NEW a \in Actors, XorBlock(a)
    PROVE  IInv'
<1>1. /\ op[a].pc \in {"encrypt", "decrypt"}
      /\ op[a].pc \in Transforming
      /\ op[a].pos \in 1..N
      /\ op' = [op EXCEPT ![a].pos = @ + 1]
      /\ UNCHANGED <<dir, ads, sidecar, result, issued, faults, edits>>
  BY ThreadFacts, LengthAssumption DEF XorBlock, Transforming
<1>2. op \in [Actors -> OpType] /\ op[a] \in OpType
  BY DEF IInv, TypeOK
<1>3. op'[a] = [op[a] EXCEPT !.pos = @ + 1]
  BY <1>1, <1>2
<1>4. /\ data' \in [Files -> Contents]
      /\ \A i \in Blocks : data'[op[a].file][i] =
            IF i = op[a].pos THEN Xor(data[op[a].file][i], op[a].seed)
                             ELSE data[op[a].file][i]
      /\ \A b \in Actors \ {a} : op[b].pc \in Transforming =>
            data'[op[b].file] = data[op[b].file]
  BY <1>1, XorData DEF XorBlock
<1>5. VolumeTypeOK' /\ TagsSound'
  BY <1>1, <1>4 DEF IInv, TypeOK, VolumeTypeOK, TagsSound, Sound
<1>6. op'[a] \in OpType
  BY <1>1, <1>2, <1>3, AdvanceType
<1>7. OpSound(op[a])'
  <2>1. HandleHolds(op[a])' /\ Checked(op[a])' /\ Sound(op[a].stored)'
    BY <1>1, <1>2, <1>3, ThreadFacts DEF OpType, OpSound, HandleHolds, Checked, Sound
  <2>2. InPlace(op[a])
    BY ThreadFacts DEF OpSound
  <2>3. InPlace(op[a])'
    BY <1>1, <1>2, <1>3, <1>4, <2>2 DEF OpType, InPlace, Blocks
  <2>4. QED
    BY <2>1, <2>3 DEF OpSound
<1>8. op' = [op EXCEPT ![a] = op'[a]] /\ op'[a].file = op[a].file
  BY <1>1, <1>2, <1>3 DEF OpType
<1>9. result' \in [Actors -> {"none", "ok", "fail"}]
  BY <1>1 DEF IInv, TypeOK
<1>10. \A b \in Actors \ {a} : op[b].pc \in Transforming =>
            /\ dir'[op[b].name] = dir[op[b].name]
            /\ data'[op[b].file] = data[op[b].file]
            /\ op'[a].file # op[b].file
  BY <1>1, <1>4, <1>8, OthersElsewhere
<1>11. QED
  BY <1>5, <1>6, <1>7, <1>8, <1>9, <1>10, ThreadStep

LEMMA XorBlockFailsStep ==
    ASSUME IInv, NEW a \in Actors, XorBlockFails(a)
    PROVE  IInv'
<1>1. /\ op[a].pc \in {"encrypt", "decrypt"} /\ op[a].pos <= N
      /\ Return(a, "fail")
      /\ faults' \in 0..MaxFaults
      /\ UNCHANGED <<dir, ads, sidecar, issued, edits>>
  BY BoundStep DEF XorBlockFails, disk
<1>2. CASE UNCHANGED data
  BY <1>1, <1>2, QuietReturn DEF disk
<1>3. CASE data' = [data EXCEPT ![op[a].file][op[a].pos] = Xor(@, op[a].seed)]
  <2>1. /\ data' \in [Files -> Contents]
        /\ \A b \in Actors \ {a} : op[b].pc \in Transforming =>
              data'[op[b].file] = data[op[b].file]
    BY <1>1, <1>3, XorData
  <2>2. VolumeTypeOK' /\ TagsSound'
    BY <1>1, <2>1 DEF IInv, TypeOK, VolumeTypeOK, TagsSound, Sound
  <2>3. QED
    BY <1>1, <2>1, <2>2, ReturnType, ReturnStep
<1>4. QED
  BY <1>2, <1>3 DEF XorBlockFails

\* A sound tag goes to where ReadAdsData looked for one.
LEMMA SetTagType ==
    ASSUME IInv, NEW a \in Actors, op[a].pc \in Transforming,
           NEW t \in Tags, Sound(t), SetTag(a, t)
    PROVE  /\ ads' \in [Files -> Tags] /\ sidecar' \in [Names -> Tags]
           /\ TagsSound'
<1>1. op[a].file \in Files /\ op[a].name \in Names
  BY ThreadFacts
<1>2. CASE ads' = [ads EXCEPT ![op[a].file] = t] /\ UNCHANGED sidecar
  BY <1>1, <1>2 DEF IInv, TypeOK, VolumeTypeOK, TagsSound, Sound
<1>3. CASE sidecar' = [sidecar EXCEPT ![op[a].name] = t] /\ UNCHANGED ads
  BY <1>1, <1>3 DEF IInv, TypeOK, VolumeTypeOK, TagsSound, Sound
<1>4. QED
  BY <1>2, <1>3 DEF SetTag

\* A step that may set a tag and leaves names and blocks alone.
LEMMA TagStep ==
    ASSUME IInv, NEW a \in Actors, op[a].pc \in Transforming,
           NEW t \in Tags, Sound(t),
           SetTag(a, t) \/ UNCHANGED <<ads, sidecar>>,
           issued' \subseteq issued \cup Hmacs, faults' \in 0..MaxFaults,
           UNCHANGED <<dir, data, edits>>
    PROVE  VolumeTypeOK' /\ TagsSound'
<1>1. /\ ads' \in [Files -> Tags] /\ sidecar' \in [Names -> Tags]
      /\ TagsSound'
  <2>1. CASE SetTag(a, t)
    BY <2>1, SetTagType
  <2>2. CASE UNCHANGED <<ads, sidecar>>
    BY <2>2 DEF IInv, TypeOK, VolumeTypeOK, TagsSound, Sound
  <2>3. QED
    BY <2>1, <2>2
<1>2. QED
  BY <1>1 DEF IInv, TypeOK, VolumeTypeOK

LEMMA DeleteTagStep ==
    ASSUME IInv, NEW a \in Actors, DeleteTag(a)
    PROVE  IInv'
<1>1. /\ op[a].pc \in Transforming
      /\ Return(a, "ok")
      /\ faults' \in 0..MaxFaults
      /\ UNCHANGED <<dir, data, issued, edits>>
      /\ SetTag(a, NoTag) \/ UNCHANGED <<ads, sidecar>>
  BY BoundStep DEF DeleteTag, Transforming
<1>2. NoTag \in Tags /\ Sound(NoTag)
  BY DEF Tags, NoTag, Sound
<1>3. VolumeTypeOK' /\ TagsSound'
  BY <1>1, <1>2, TagStep
<1>4. QED
  BY <1>1, <1>3, ReturnType, ReturnStep

LEMMA CreateTagStep ==
    ASSUME IInv, NEW a \in Actors, CreateTag(a)
    PROVE  IInv'
<1>1. /\ op[a].pc = "tag" /\ op[a].pc \in Transforming
      /\ faults' \in 0..MaxFaults
      /\ UNCHANGED <<dir, data, issued, edits>>
      /\ SetTag(a, EmptyTag) \/ UNCHANGED <<ads, sidecar>>
  BY BoundStep DEF CreateTag, Transforming
<1>2. EmptyTag \in Tags /\ Sound(EmptyTag)
  BY DEF Tags, EmptyTag, Sound
<1>3. VolumeTypeOK' /\ TagsSound'
  BY <1>1, <1>2, TagStep
<1>4. CASE Return(a, "fail")
  BY <1>1, <1>3, <1>4, ReturnType, ReturnStep
<1>5. CASE op' = [op EXCEPT ![a].pc = "tagwrite"] /\ UNCHANGED result
  <2>1. op \in [Actors -> OpType] /\ op[a] \in OpType
    BY DEF IInv, TypeOK
  <2>2. op'[a] = [op[a] EXCEPT !.pc = "tagwrite"]
    BY <1>5, <2>1
  <2>3. op'[a] \in OpType
    BY <2>1, <2>2 DEF OpType, Transforming
  <2>4. OpSound(op[a])'
    BY <2>1, <2>2, <1>1, ThreadFacts
       DEF OpType, OpSound, HandleHolds, InPlace, Checked, Sound
  <2>5. op' = [op EXCEPT ![a] = op'[a]] /\ op'[a].file = op[a].file
    BY <2>1, <2>2, <1>5 DEF OpType
  <2>6. result' \in [Actors -> {"none", "ok", "fail"}]
    BY <1>5 DEF IInv, TypeOK
  <2>7. QED
    BY <2>3, <2>4, <2>5, <2>6, <1>1, <1>3, OthersElsewhere, ThreadStep
<1>6. QED
  BY <1>4, <1>5 DEF CreateTag

LEMMA WriteTagStep ==
    ASSUME IInv, NEW a \in Actors, WriteTag(a)
    PROVE  IInv'
<1>1. /\ op[a].pc = "tagwrite" /\ op[a].pc \in Transforming
      /\ faults' \in 0..MaxFaults
      /\ UNCHANGED <<dir, data, edits>>
      /\ SetTag(a, op[a].stored) \/ UNCHANGED <<ads, sidecar>>
      /\ issued' \subseteq issued \cup {op[a].stored}
      /\ \E r \in {"none", "ok", "fail"} : Return(a, r)
  BY BoundStep DEF WriteTag, Transforming
<1>2. /\ op[a].stored \in Tags /\ Sound(op[a].stored)
      /\ op[a].stored \in Hmacs
  BY <1>1, ThreadFacts, TagKinds DEF OpSound, Checked
<1>3. VolumeTypeOK' /\ TagsSound'
  BY <1>1, <1>2, TagStep
<1>4. QED
  BY <1>1, <1>3, ReturnType, ReturnStep

-----------------------------------------------------------------------------
(* The other operations, other programs, and the crash *)

\* A step in which no thread but one that has no file open moves.
LEMMA VolumeStep ==
    ASSUME IInv, VolumeTypeOK', TagsSound', UNCHANGED <<op, result>>,
           \A b \in Actors : op[b].pc \in Transforming =>
               /\ dir'[op[b].name] = dir[op[b].name]
               /\ data'[op[b].file] = data[op[b].file]
    PROVE  IInv'
<1>1. \A b \in Actors : OpSound(op[b])'
  BY Frame
<1>2. QED
  BY <1>1 DEF IInv, TypeOK, Exclusive

\* A file that no thread has open is not under transformation, nor is its name.
LEMMA NotOpen ==
    ASSUME IInv, NEW n \in Names, dir[n] = NoFile \/ ~ IsOpen(dir[n]),
           NEW b \in Actors, op[b].pc \in Transforming
    PROVE  op[b].name # n /\ op[b].file # dir[n]
BY ThreadFacts, NameAssumption DEF IsOpen, HasOpen, OpSound, HandleHolds

\* The state of the volume, piece by piece.
LEMMA VolumeFacts ==
    ASSUME IInv
    PROVE  /\ dir \in [Names -> Files \cup {NoFile}]
           /\ data \in [Files -> Contents]
           /\ ads \in [Files -> Tags]
           /\ sidecar \in [Names -> Tags]
           /\ op \in [Actors -> OpType]
           /\ NoTag \in Tags /\ Sound(NoTag)
BY DEF IInv, TypeOK, VolumeTypeOK, Tags, NoTag, Sound

LEMMA AuditOpenStep ==
    ASSUME IInv, NEW a \in Actors, NEW n \in Names, AuditOpen(a, n)
    PROVE  IInv'
<1>1. op'[a] = [pc |-> "audit", name |-> n, file |-> dir[n],
                seed |-> [name |-> NoName, serial |-> FALSE],
                place |-> TagPlace(n), stored |-> NoTag, pos |-> 1,
                before |-> <<>>]
  BY VolumeFacts DEF AuditOpen, Idle
<1>2. op' = [op EXCEPT ![a] = op'[a]]
  BY VolumeFacts DEF AuditOpen
<1>3. op'[a] \in OpType
  BY <1>1, VolumeFacts, LengthAssumption DEF OpType, TagPlace, Places
<1>4. VolumeTypeOK' /\ TagsSound' /\ UNCHANGED <<dir, data>>
  <2>1. faults' \in 0..MaxFaults /\ UNCHANGED <<disk, issued, edits>>
    BY DEF AuditOpen, IInv, TypeOK, VolumeTypeOK
  <2>2. QED
    BY <2>1, DiskStep DEF disk
<1>5. OpSound(op[a])' /\ op'[a].pc \notin Transforming
  BY <1>1 DEF OpSound, HandleHolds, InPlace, Checked, Sound, Transforming, NoTag
<1>6. result' \in [Actors -> {"none", "ok", "fail"}]
  BY DEF AuditOpen, IInv, TypeOK
<1>7. QED
  BY <1>2, <1>3, <1>4, <1>5, <1>6, ThreadStep

LEMMA AuditCloseStep ==
    ASSUME IInv, NEW a \in Actors, AuditClose(a)
    PROVE  IInv'
<1>1. faults' \in 0..MaxFaults /\ UNCHANGED <<disk, issued, edits>>
  BY DEF AuditClose, IInv, TypeOK, VolumeTypeOK
<1>2. VolumeTypeOK' /\ TagsSound' /\ UNCHANGED <<dir, data>>
  BY <1>1, DiskStep DEF disk
<1>3. /\ op' = [op EXCEPT ![a] = Idle]
      /\ result' \in [Actors -> {"none", "ok", "fail"}]
  BY DEF AuditClose, IInv, TypeOK
<1>4. QED
  BY <1>2, <1>3, ReturnStep

LEMMA RenameStep ==
    ASSUME IInv, NEW a \in Actors, NEW m \in Names, NEW n \in Names,
           Rename(a, m, n)
    PROVE  IInv'
<1>1. /\ dir' = [dir EXCEPT ![m] = NoFile, ![n] = dir[m]]
      /\ edits' \in 0..MaxEdits
      /\ UNCHANGED <<data, ads, sidecar, op, result, issued, faults>>
  BY BoundStep DEF Rename
<1>2. VolumeTypeOK' /\ TagsSound'
  BY <1>1, VolumeFacts DEF IInv, TypeOK, VolumeTypeOK, TagsSound, Sound
<1>3. \A b \in Actors : op[b].pc \in Transforming =>
          op[b].name \in Names \ {m, n}
  BY NotOpen, ThreadFacts DEF Rename
<1>4. QED
  BY <1>1, <1>2, <1>3, VolumeFacts, VolumeStep

LEMMA DeleteSidecarStep ==
    ASSUME IInv, NEW a \in Actors, NEW n \in Names, DeleteSidecar(a, n)
    PROVE  IInv'
<1>1. op'[a] = [pc |-> "delete", name |-> n, file |-> NoFile,
                seed |-> [name |-> NoName, serial |-> FALSE], place |-> "ads",
                stored |-> NoTag, pos |-> 1, before |-> <<>>]
  BY VolumeFacts DEF DeleteSidecar, Idle
<1>2. op' = [op EXCEPT ![a] = op'[a]]
  BY VolumeFacts DEF DeleteSidecar
<1>3. op'[a] \in OpType
  BY <1>1, VolumeFacts, LengthAssumption DEF OpType, Places
<1>4. /\ sidecar' = sidecar \/ sidecar' = [sidecar EXCEPT ![n] = NoTag]
      /\ edits' \in 0..MaxEdits
      /\ UNCHANGED <<dir, data, ads, result, issued, faults>>
  BY BoundStep DEF DeleteSidecar
<1>5. VolumeTypeOK' /\ TagsSound'
  BY <1>4, VolumeFacts DEF IInv, TypeOK, VolumeTypeOK, TagsSound, Sound
<1>6. OpSound(op[a])' /\ op'[a].pc \notin Transforming
  BY <1>1 DEF OpSound, HandleHolds, InPlace, Checked, Sound, Transforming, NoTag
<1>7. result' \in [Actors -> {"none", "ok", "fail"}]
  BY <1>4 DEF IInv, TypeOK
<1>8. QED
  BY <1>2, <1>3, <1>4, <1>5, <1>6, <1>7, ThreadStep

\* A name and its stream disappear.
LEMMA DeletedStep ==
    ASSUME IInv, NEW n \in Names, dir[n] # NoFile,
           dir' = [dir EXCEPT ![n] = NoFile],
           ads' = [ads EXCEPT ![dir[n]] = NoTag],
           faults' \in 0..MaxFaults, edits' \in 0..MaxEdits,
           UNCHANGED <<data, sidecar, issued>>
    PROVE  VolumeTypeOK' /\ TagsSound'
BY VolumeFacts DEF IInv, TypeOK, VolumeTypeOK, TagsSound, Sound

LEMMA DeleteFileStep ==
    ASSUME IInv, NEW a \in Actors, DeleteFile(a)
    PROVE  IInv'
<1> DEFINE n == op[a].name
           f == dir[n]
<1>1. /\ op[a].pc = "delete"
      /\ faults' \in 0..MaxFaults
      /\ edits' \in 0..MaxEdits
      /\ op' = [op EXCEPT ![a] = Idle]
      /\ result' \in [Actors -> {"none", "ok", "fail"}]
      /\ UNCHANGED <<data, sidecar, issued>>
  BY BoundStep DEF DeleteFile, IInv, TypeOK, VolumeTypeOK
<1>2. CASE UNCHANGED <<dir, ads>>
  <2>1. VolumeTypeOK' /\ TagsSound'
    BY <1>1, <1>2 DEF IInv, TypeOK, VolumeTypeOK, TagsSound, Sound
  <2>2. QED
    BY <1>1, <1>2, <2>1, ReturnStep
<1>3. CASE /\ f # NoFile /\ ~ IsOpen(f)
           /\ dir' = [dir EXCEPT ![n] = NoFile]
           /\ ads' = [ads EXCEPT ![f] = NoTag]
           /\ n \in Names
  <2>1. VolumeTypeOK' /\ TagsSound'
    BY <1>1, <1>3, DeletedStep
  <2>2. \A b \in Actors : op[b].pc \in Transforming =>
            op[b].name \in Names \ {n}
    BY <1>3, NotOpen, ThreadFacts
  <2>3. QED
    BY <1>1, <1>3, <2>1, <2>2, VolumeFacts, ReturnStep
<1>4. n \in Names
  BY <1>1, ThreadFacts DEF OpSound, HandleHolds
<1>5. QED
  BY <1>2, <1>3, <1>4 DEF DeleteFile

LEMMA ForeignWriteStep ==
    ASSUME IInv, NEW n \in Names, NEW i \in Blocks, ForeignWrite(n, i)
    PROVE  IInv'
<1> DEFINE f == dir[n]
           b0 == [base |-> Foreign, keys |-> {}]
<1>1. /\ f \in Files
      /\ data' = [data EXCEPT ![f][i] = b0]
      /\ edits' \in 0..MaxEdits
      /\ UNCHANGED <<dir, ads, sidecar, op, result, issued, faults>>
  BY BoundStep, VolumeFacts DEF ForeignWrite
<1>2. b0 \in BlockValues
  BY DEF BlockValues
<1> HIDE DEF f, b0
<1>3. [data[f] EXCEPT ![i] = b0] \in Contents
  BY <1>1, <1>2, VolumeFacts DEF Contents
<1>4. data' = [data EXCEPT ![f] = [data[f] EXCEPT ![i] = b0]]
  BY <1>1
<1>5. data' \in [Files -> Contents] /\ \A g \in Files \ {f} : data'[g] = data[g]
  BY <1>1, <1>3, <1>4, VolumeFacts
<1>6. VolumeTypeOK' /\ TagsSound'
  BY <1>1, <1>5 DEF IInv, TypeOK, VolumeTypeOK, TagsSound, Sound
<1>7. \A b \in Actors : op[b].pc \in Transforming => op[b].file \in Files \ {f}
  BY NotOpen, ThreadFacts DEF ForeignWrite, f
<1>8. QED
  BY <1>1, <1>5, <1>6, <1>7, VolumeStep

LEMMA ForeignDeleteStep ==
    ASSUME IInv, NEW n \in Names, ForeignDelete(n)
    PROVE  IInv'
<1>1. /\ dir[n] # NoFile /\ ~ IsOpen(dir[n])
      /\ dir' = [dir EXCEPT ![n] = NoFile]
      /\ ads' = [ads EXCEPT ![dir[n]] = NoTag]
      /\ edits' \in 0..MaxEdits
      /\ faults' \in 0..MaxFaults
      /\ UNCHANGED <<data, sidecar, op, result, issued>>
  BY BoundStep DEF ForeignDelete, IsOpen, IInv, TypeOK, VolumeTypeOK
<1>2. VolumeTypeOK' /\ TagsSound'
  BY <1>1, DeletedStep
<1>3. \A b \in Actors : op[b].pc \in Transforming => op[b].name \in Names \ {n}
  BY <1>1, NotOpen, ThreadFacts
<1>4. QED
  BY <1>1, <1>2, <1>3, VolumeFacts, VolumeStep

LEMMA ForeignCreateStep ==
    ASSUME IInv, NEW n \in Names, NEW f \in Files, ForeignCreate(n, f)
    PROVE  IInv'
<1>1. /\ dir[n] = NoFile
      /\ \A m \in Names : dir[m] # f
      /\ dir' = [dir EXCEPT ![n] = f]
      /\ data' = [data EXCEPT ![f] = PlainContent(Foreign)]
      /\ ads' = [ads EXCEPT ![f] = NoTag]
      /\ edits' \in 0..MaxEdits
      /\ UNCHANGED <<sidecar, op, result, issued, faults>>
  BY BoundStep DEF ForeignCreate
<1>2. VolumeTypeOK' /\ TagsSound'
  BY <1>1, VolumeFacts, PlainType
     DEF IInv, TypeOK, VolumeTypeOK, TagsSound, Sound
<1>3. \A b \in Actors : op[b].pc \in Transforming =>
          /\ op[b].name \in Names \ {n}
          /\ op[b].file \in Files \ {f}
  BY <1>1, NotOpen, ThreadFacts DEF OpSound, HandleHolds
<1>4. QED
  BY <1>1, <1>2, <1>3, VolumeFacts, VolumeStep

LEMMA CrashStep == ASSUME IInv, Crash PROVE IInv'
<1>1. /\ op' = [a \in Actors |-> Idle]
      /\ result' = [a \in Actors |-> "none"]
      /\ faults' \in 0..MaxFaults
      /\ UNCHANGED <<disk, issued, edits>>
  BY BoundStep DEF Crash
<1>2. VolumeTypeOK' /\ TagsSound'
  BY <1>1, DiskStep
<1>3. \A a \in Actors : op'[a] = Idle /\ OpSound(op[a])' /\ op'[a].pc \notin Transforming
  BY <1>1, IdleType DEF OpSound, HandleHolds, InPlace, Checked, Sound, Transforming
<1>4. TypeOK'
  BY <1>1, <1>2, IdleType DEF TypeOK
<1>5. QED
  BY <1>2, <1>3, <1>4 DEF IInv, Exclusive

\* A step that changes nothing.
LEMMA StutterStep == ASSUME IInv, UNCHANGED vars PROVE IInv'
<1>1. VolumeTypeOK' /\ TagsSound'
  BY DEF IInv, TypeOK, VolumeTypeOK, TagsSound, Sound, vars
<1>2. QED
  BY <1>1, VolumeStep DEF vars

-----------------------------------------------------------------------------
(* The theorems *)

LEMMA TransformStep ==
    ASSUME IInv, NEW a \in Actors, Transform(a)
    PROVE  IInv'
BY OpenStep, OpenFailsStep, ReadTagStep, VerifyStep, XorBlockStep,
   XorBlockFailsStep, DeleteTagStep, ComputeTagStep, CreateTagStep, WriteTagStep
   DEF Transform

LEMMA StepIInv == IInv /\ [Next]_vars => IInv'
<1> SUFFICES ASSUME IInv, [Next]_vars PROVE IInv'
  OBVIOUS
<1>1. ASSUME NEW a \in Actors, Explorer(a) PROVE IInv'
  BY <1>1, TransformStep, AuditOpenStep, AuditCloseStep, RenameStep,
     DeleteSidecarStep, DeleteFileStep DEF Explorer
<1>2. ASSUME Environment PROVE IInv'
  BY <1>2, ForeignWriteStep, ForeignDeleteStep, ForeignCreateStep, CrashStep
     DEF Environment
<1>3. QED
  BY <1>1, <1>2, StutterStep DEF Next

\* The inductive invariant holds of every behaviour, whatever fails.
THEOREM Invariant == Spec => []IInv
BY InitIInv, StepIInv, PTL DEF Spec

\* Every variable keeps its type: in particular no loop of TransformFileInPlace
\* runs past the end of its file.
THEOREM TypeCorrect == Spec => []TypeOK
<1>1. IInv => TypeOK
  BY DEF IInv
<1>2. QED
  BY <1>1, Invariant, PTL

LEMMA RoundTripByIInv == ASSUME IInv PROVE RoundTrip
<1> SUFFICES ASSUME NEW a \in Actors, op[a].pc = "decrypt",
                    op[a].pos = N + 1, NEW i \in DOMAIN op[a].stored.over
             PROVE  data[op[a].file][i] = op[a].stored.from[i]
  BY DEF RoundTrip
<1> DEFINE t == op[a].stored
           s == op[a].seed
<1>1. /\ t \in Hmacs /\ s \in Seeds /\ t.seed = s
      /\ i \in Blocks /\ t.over[i] = Xor(t.from[i], s)
      /\ op[a].before[i] = t.over[i]
      /\ i < op[a].pos => data[op[a].file][i] = Xor(op[a].before[i], s)
  BY ThreadFacts, TagKinds DEF OpSound, Checked, Sound, InPlace, Transforming
<1>2. i < op[a].pos
  BY <1>1, LengthAssumption DEF Blocks
<1>3. t.from[i] \in BlockValues
  BY <1>1 DEF Hmacs, Contents
<1>4. Xor(Xor(t.from[i], s), s) = t.from[i]
  BY <1>1, <1>3, XorTwice
<1>5. QED
  BY <1>1, <1>2, <1>4

\* A decryption that TransformFile completes restores, on every block its tag
\* covers, the content that the encryption found, for any number of threads,
\* files and blocks and whatever failed, crashed, was renamed or was edited.
THEOREM RoundTripHolds == Spec => []RoundTrip
<1>1. IInv => RoundTrip
  BY RoundTripByIInv
<1>2. QED
  BY <1>1, Invariant, PTL

-----------------------------------------------------------------------------
(* Tampering.  Without read errors under ComputeHmacForFile every tag covers *)
(* the whole file; with them it does not (run short_hmac).                   *)

Whole(t) == t.kind = "hmac" => DOMAIN t.over = Blocks

WholeTags ==
    /\ \A f \in Files : Whole(ads[f])
    /\ \A n \in Names : Whole(sidecar[n])
    /\ \A a \in Actors : Whole(op[a].stored)

\* The tags that are not HMACs, and those of earlier files, are whole.
LEMMA WholeSources ==
    /\ Whole(NoTag) /\ Whole(EmptyTag) /\ Whole(Idle.stored)
    /\ \A n \in Names : Whole(StaleTag(n))
BY DEF Whole, NoTag, EmptyTag, Idle, StaleTag, Hmac, XorAll, PlainContent

\* A thread that returns drops its tag.
LEMMA WholeReturn ==
    ASSUME IInv, WholeTags, NEW a \in Actors, op' = [op EXCEPT ![a] = Idle]
    PROVE  \A b \in Actors : Whole(op[b].stored)'
<1>1. \A b \in Actors : op'[b] = Idle \/ op'[b] = op[b]
  BY VolumeFacts
<1>2. QED
  BY <1>1, WholeSources DEF WholeTags, Whole

\* Where SetTag puts a whole tag, the others stay.
LEMMA WholeSet ==
    ASSUME IInv, WholeTags, NEW a \in Actors, NEW t, Whole(t),
           SetTag(a, t) \/ UNCHANGED <<ads, sidecar>>
    PROVE  /\ \A f \in Files : Whole(ads[f])'
           /\ \A n \in Names : Whole(sidecar[n])'
BY VolumeFacts DEF WholeTags, Whole, SetTag

\* What Open and the audit put into op is Idle with another pc.
LEMMA WholeMove ==
    ASSUME IInv, WholeTags, NEW a \in Actors,
           op' = [op EXCEPT ![a] = op'[a]], Whole(op'[a].stored)
    PROVE  \A b \in Actors : Whole(op[b].stored)'
<1>1. \A b \in Actors \ {a} : op'[b] = op[b]
  BY VolumeFacts
<1>2. QED
  BY <1>1 DEF WholeTags, Whole

LEMMA WholeTransform ==
    ASSUME IInv, WholeTags, "mac" \notin Faults, NEW a \in Actors, Transform(a)
    PROVE  WholeTags'
<1> USE DEF disk
<1>1. ASSUME NEW n \in Names, Open(a, n) PROVE WholeTags'
  <2>1. PICK serial \in BOOLEAN :
            op' = [op EXCEPT ![a] = [Idle EXCEPT !.pc = "open", !.name = n,
                      !.file = dir[n], !.seed = SeedForPath(n, serial)]]
    BY <1>1 DEF Open
  <2>2. op'[a].stored = NoTag /\ op' = [op EXCEPT ![a] = op'[a]]
    BY <2>1, VolumeFacts DEF Idle
  <2>3. UNCHANGED <<ads, sidecar>>
    BY <1>1 DEF Open
  <2>4. QED
    BY <2>2, <2>3, WholeMove, WholeSources DEF WholeTags, Whole
<1>2. ASSUME NEW r, Return(a, r), UNCHANGED <<ads, sidecar>> PROVE WholeTags'
  BY <1>2, WholeReturn DEF Return, WholeTags, Whole
<1>3. ASSUME ReadTag(a) PROVE WholeTags'
  <2>1. op[a].name \in Names /\ dir[op[a].name] \in Files
    BY <1>3, ThreadFacts DEF ReadTag, Transforming, OpSound, HandleHolds
  <2>2. Whole(FoundTag(op[a].name))
    BY <2>1 DEF WholeTags, FoundTag, TagAt
  <2>3. UNCHANGED <<ads, sidecar>>
    BY <1>3 DEF ReadTag
  <2>4. CASE \E r \in {"fail"} : Return(a, r)
    BY <1>2, <2>3, <2>4
  <2>5. CASE op' = [op EXCEPT ![a].pc = "verify",
                              ![a].place = TagPlace(op[a].name),
                              ![a].stored = FoundTag(op[a].name)]
    <3>1. op'[a].stored = FoundTag(op[a].name) /\ op' = [op EXCEPT ![a] = op'[a]]
      BY <2>5, VolumeFacts DEF OpType
    <3>2. QED
      BY <3>1, <2>2, <2>3, WholeMove DEF WholeTags, Whole
  <2>6. CASE op' = [op EXCEPT ![a].pc = "encrypt",
                              ![a].place = TagPlace(op[a].name),
                              ![a].before = data[op[a].file]]
    <3>1. op'[a].stored = op[a].stored /\ op' = [op EXCEPT ![a] = op'[a]]
      BY <2>6, VolumeFacts DEF OpType
    <3>2. QED
      BY <3>1, <2>3, WholeMove DEF WholeTags, Whole
  <2>7. QED
    BY <1>3, <2>4, <2>5, <2>6 DEF ReadTag
<1>4. ASSUME Verify(a) PROVE WholeTags'
  <2>1. UNCHANGED <<ads, sidecar>>
    BY <1>4 DEF Verify
  <2>2. CASE op' = [op EXCEPT ![a].pc = "decrypt",
                              ![a].before = data[op[a].file]]
    <3>1. op'[a].stored = op[a].stored /\ op' = [op EXCEPT ![a] = op'[a]]
      BY <2>2, VolumeFacts DEF OpType
    <3>2. QED
      BY <3>1, <2>1, WholeMove DEF WholeTags, Whole
  <2>3. QED
    BY <1>2, <1>4, <2>1, <2>2 DEF Verify
<1>5. ASSUME XorBlock(a) PROVE WholeTags'
  <2>1. op'[a].stored = op[a].stored /\ op' = [op EXCEPT ![a] = op'[a]]
    BY <1>5, VolumeFacts DEF XorBlock, OpType
  <2>2. QED
    BY <1>5, <2>1, WholeMove DEF XorBlock, WholeTags, Whole
<1>6. ASSUME DeleteTag(a) PROVE WholeTags'
  BY <1>6, WholeReturn, WholeSet, WholeSources DEF DeleteTag, Return, WholeTags
<1>7. ASSUME ComputeTag(a) PROVE WholeTags'
  <2>1. UNCHANGED <<ads, sidecar>>
    BY <1>7 DEF ComputeTag
  <2>2. CASE Return(a, "fail")
    BY <1>2, <2>1, <2>2
  <2>3. ASSUME NEW p \in 0..N, Hashed(p),
               op' = [op EXCEPT ![a].pc = "tag", ![a].stored =
                         Hmac(op[a].seed, Prefix(data[op[a].file], p), op[a].before)]
        PROVE  WholeTags'
    <3>1. p = N
      BY <2>3 DEF Hashed, Fault
    <3>2. /\ op'[a].stored = Hmac(op[a].seed, Prefix(data[op[a].file], p), op[a].before)
          /\ op' = [op EXCEPT ![a] = op'[a]]
      BY <2>3, VolumeFacts DEF OpType
    <3>3. Whole(op'[a].stored)
      BY <3>1, <3>2 DEF Whole, Hmac, Prefix, Blocks
    <3>4. QED
      BY <3>2, <3>3, <2>1, WholeMove DEF WholeTags, Whole
  <2>4. QED
    BY <1>7, <2>2, <2>3 DEF ComputeTag
<1>8. ASSUME CreateTag(a) PROVE WholeTags'
  <2>1. /\ \A f \in Files : Whole(ads[f])'
        /\ \A n \in Names : Whole(sidecar[n])'
    BY <1>8, WholeSet, WholeSources DEF CreateTag
  <2>2. CASE Return(a, "fail")
    BY <2>1, <2>2, WholeReturn DEF Return, WholeTags
  <2>3. CASE op' = [op EXCEPT ![a].pc = "tagwrite"]
    <3>1. op'[a].stored = op[a].stored /\ op' = [op EXCEPT ![a] = op'[a]]
      BY <2>3, VolumeFacts DEF OpType
    <3>2. QED
      BY <3>1, <2>1, WholeMove DEF WholeTags, Whole
  <2>4. QED
    BY <1>8, <2>2, <2>3 DEF CreateTag
<1>9. ASSUME WriteTag(a) PROVE WholeTags'
  <2>1. Whole(op[a].stored) /\ op' = [op EXCEPT ![a] = Idle]
    BY <1>9 DEF WriteTag, Return, WholeTags
  <2>2. QED
    BY <1>9, <2>1, WholeReturn, WholeSet DEF WriteTag, WholeTags
<1>10. QED
  BY <1>1, <1>2, <1>3, <1>4, <1>5, <1>6, <1>7, <1>8, <1>9
     DEF Transform, OpenFails, XorBlockFails

LEMMA StepWholeTags ==
    ASSUME IInv, WholeTags, "mac" \notin Faults, [Next]_vars
    PROVE  WholeTags'
<1> USE DEF disk
<1>1. ASSUME NEW a \in Actors, NEW n \in Names, AuditOpen(a, n) PROVE WholeTags'
  <2>1. op'[a].stored = NoTag /\ op' = [op EXCEPT ![a] = op'[a]]
    BY <1>1, VolumeFacts DEF AuditOpen, Idle
  <2>2. QED
    BY <1>1, <2>1, WholeMove, WholeSources DEF AuditOpen, WholeTags, Whole
<1>2. ASSUME NEW a \in Actors, AuditClose(a) PROVE WholeTags'
  BY <1>2, WholeReturn DEF AuditClose, WholeTags, Whole
<1>3. ASSUME NEW a \in Actors, NEW n \in Names, DeleteSidecar(a, n) PROVE WholeTags'
  <2>1. op'[a].stored = NoTag /\ op' = [op EXCEPT ![a] = op'[a]]
    BY <1>3, VolumeFacts DEF DeleteSidecar, Idle
  <2>2. \A m \in Names : sidecar'[m] = sidecar[m] \/ sidecar'[m] = NoTag
    BY <1>3, VolumeFacts DEF DeleteSidecar
  <2>3. QED
    BY <1>3, <2>1, <2>2, WholeMove, WholeSources DEF DeleteSidecar, WholeTags, Whole
<1>4. ASSUME NEW a \in Actors, DeleteFile(a) PROVE WholeTags'
  <2>1. \A f \in Files : ads'[f] = ads[f] \/ ads'[f] = NoTag
    BY <1>4, VolumeFacts DEF DeleteFile
  <2>2. QED
    BY <1>4, <2>1, WholeReturn, WholeSources DEF DeleteFile, WholeTags, Whole
<1>5. ASSUME UNCHANGED <<sidecar, op>>,
             \A f \in Files : ads'[f] = ads[f] \/ ads'[f] = NoTag
      PROVE  WholeTags'
  BY <1>5, WholeSources DEF WholeTags, Whole
<1>6. ASSUME NEW a \in Actors, NEW m \in Names, NEW n \in Names, Rename(a, m, n)
      PROVE  WholeTags'
  BY <1>5, <1>6 DEF Rename
<1>7. ASSUME NEW n \in Names, NEW i \in Blocks, ForeignWrite(n, i) PROVE WholeTags'
  BY <1>5, <1>7 DEF ForeignWrite
<1>8. ASSUME NEW n \in Names, ForeignDelete(n) PROVE WholeTags'
  BY <1>5, <1>8, VolumeFacts DEF ForeignDelete
<1>9. ASSUME NEW n \in Names, NEW f \in Files, ForeignCreate(n, f) PROVE WholeTags'
  BY <1>5, <1>9, VolumeFacts DEF ForeignCreate
<1>10. ASSUME Crash PROVE WholeTags'
  BY <1>10, WholeSources DEF Crash, WholeTags, Whole
<1>11. ASSUME UNCHANGED vars PROVE WholeTags'
  BY <1>5, <1>11 DEF vars
<1>12. ASSUME NEW a \in Actors, Explorer(a) PROVE WholeTags'
  BY <1>1, <1>2, <1>3, <1>4, <1>6, <1>12, WholeTransform DEF Explorer
<1>13. ASSUME Environment PROVE WholeTags'
  BY <1>7, <1>8, <1>9, <1>10, <1>13 DEF Environment
<1>14. QED
  BY <1>11, <1>12, <1>13 DEF Next

LEMMA InitWholeTags == Init => WholeTags
BY WholeSources DEF Init, WholeTags, Whole

LEMMA TamperByWholeTags == ASSUME IInv, WholeTags PROVE TamperDetected
<1> SUFFICES ASSUME NEW a \in Actors, op[a].pc = "decrypt"
             PROVE  op[a].before = XorAll(op[a].stored.from, op[a].seed)
  BY DEF TamperDetected
<1> DEFINE t == op[a].stored
           s == op[a].seed
<1>1. /\ t \in Hmacs /\ t.seed = s /\ t.kind = "hmac"
      /\ op[a].before \in Contents
      /\ \A i \in DOMAIN t.over : t.over[i] = Xor(t.from[i], s)
                                  /\ op[a].before[i] = t.over[i]
  BY ThreadFacts, TagKinds DEF OpSound, Checked, Sound, InPlace, Transforming
<1>2. DOMAIN t.over = Blocks
  BY <1>1 DEF WholeTags, Whole
<1>3. t.from \in Contents
  BY <1>1 DEF Hmacs
<1>4. QED
  BY <1>1, <1>2, <1>3 DEF XorAll, Contents

\* Where ComputeHmacForFile meets no read error, no decryption starts from a
\* file of which a block differs from what its encryption wrote.
THEOREM TamperDetectedHolds ==
    ASSUME "mac" \notin Faults
    PROVE  Spec => []TamperDetected
<1>1. IInv /\ WholeTags /\ [Next]_vars => WholeTags'
  BY StepWholeTags
<1>2. IInv /\ WholeTags => TamperDetected
  BY TamperByWholeTags
<1>3. QED
  BY <1>1, <1>2, InitWholeTags, Invariant, PTL DEF Spec

-----------------------------------------------------------------------------
(* Plaintext without a tag.  Without sidecars, and unless a read, a write or  *)
(* the end of the process stops a toggle half way, a file in rest without a   *)
(* tag is plaintext.                                                          *)

Plain(c) == \A i \in Blocks : c[i].keys = {}

\* A path leads to one file only.
OneName == \A m, n \in Names : dir[m] = dir[n] /\ dir[m] # NoFile => m = n

\* Who has a tag open keeps it; case B starts from plaintext, and so did whatever wrote
\* a tag.
ThreadPlain(o) ==
    /\ o.pc = "audit" => o.name \in Names /\ o.file \in Files /\ dir[o.name] = o.file
    /\ o.pc \in Transforming \cup {"audit"} => o.place = "ads"
    /\ o.pc \in {"audit", "verify", "tagwrite"} => ads[o.file] # NoTag
    /\ o.pc \in {"encrypt", "tag"} => ads[o.file] = NoTag
    /\ o.pc = "open" /\ ads[o.file] = NoTag => Plain(data[o.file])
    /\ o.pc = "encrypt" => Plain(o.before)
    /\ o.pc \in {"verify", "decrypt", "tag", "tagwrite"} => Plain(o.stored.from)

PlainInv ==
    /\ OneName
    /\ \A n \in Names : sidecar[n] = NoTag
    /\ \A f \in Files : ads[f].kind = "hmac" => Plain(ads[f].from)
    /\ \A n \in Names :
          dir[n] # NoFile /\ ~ IsOpen(dir[n]) /\ ads[dir[n]] = NoTag => Plain(data[dir[n]])
    /\ \A a \in Actors : ThreadPlain(op[a])

\* The faults that stop no toggle half way.
Harmless == {"serial", "readtag", "delete", "untag"}

\* A step of thread a alone: it changes the files it has open only, and deletes no tag that
\* another thread has open; the file that it closes is plaintext or has a tag.
LEMMA PlainStep ==
    ASSUME IInv, PlainInv, NEW a \in Actors, op' = [op EXCEPT ![a] = op'[a]], dir' = dir,
           \A n \in Names : sidecar'[n] = NoTag,
           \A g \in Files :
               \/ data'[g] = data[g] /\ ads'[g] = ads[g]
               \/ /\ HasOpen(a, g)
                  /\ ads'[g] = NoTag => ads[g] = NoTag \/ ~ AdsHeld(a, g)
                  /\ ads'[g].kind = "hmac" => Plain(ads'[g].from),
           ThreadPlain(op[a])',
           \A g \in Files :
               HasOpen(a, g) /\ ~ HasOpen(a, g)' /\ ads'[g] = NoTag => Plain(data'[g])
    PROVE  PlainInv'
<1>1. \A b \in Actors \ {a} : op'[b] = op[b] /\ op[b] \in OpType
  BY VolumeFacts
<1>2. \A b \in Actors \ {a} : ThreadPlain(op[b])'
  <2> SUFFICES ASSUME NEW b \in Actors \ {a} PROVE ThreadPlain(op[b])'
    OBVIOUS
  <2> DEFINE o == op[b]
             f == op[b].file
  <2>1. ThreadPlain(o) /\ op'[b] = o
    BY <1>1 DEF PlainInv
  <2>2. CASE o.pc \in Transforming
    <3>1. f \in Files /\ ~ HasOpen(a, f)
      BY <2>2, ThreadFacts, OthersElsewhere DEF HasOpen
    <3>2. data'[f] = data[f] /\ ads'[f] = ads[f]
      BY <3>1
    <3> QED
      BY <2>1, <2>2, <3>2 DEF ThreadPlain, Transforming
  <2>3. CASE o.pc = "audit"
    <3>1. f \in Files /\ o.place = "ads" /\ ads[f] # NoTag
      BY <2>1, <2>3 DEF ThreadPlain
    <3>2. AdsHeld(a, f)
      BY <2>3, <3>1 DEF AdsHeld
    <3>3. ads'[f] # NoTag
      BY <3>1, <3>2
    <3> QED
      BY <2>1, <2>3, <3>3 DEF ThreadPlain, Transforming
  <2>4. CASE o.pc \notin Transforming \cup {"audit"}
    BY <2>1, <2>4 DEF ThreadPlain, Transforming
  <2> QED
    BY <2>2, <2>3, <2>4
<1>3. ASSUME NEW n \in Names, dir[n] # NoFile, ~ IsOpen(dir[n])', ads'[dir[n]] = NoTag
      PROVE  Plain(data'[dir[n]])
  <2> DEFINE g == dir[n]
  <2>1. g \in Files
    BY <1>3, VolumeFacts
  <2>2. CASE HasOpen(a, g)
    BY <1>3, <2>1, <2>2 DEF IsOpen
  <2>3. CASE ~ HasOpen(a, g)
    <3>1. \A b \in Actors \ {a} : ~ HasOpen(b, g)
      BY <1>1, <1>3 DEF IsOpen, HasOpen
    <3>2. ~ IsOpen(g)
      BY <2>3, <3>1 DEF IsOpen
    <3> QED
      BY <1>3, <2>1, <2>3, <3>2 DEF PlainInv
  <2> QED
    BY <2>2, <2>3
<1>4. \A f \in Files : ads'[f].kind = "hmac" => Plain(ads'[f].from)
  BY DEF PlainInv
<1>5. OneName'
  BY DEF PlainInv, OneName
<1>6. \A b \in Actors : ThreadPlain(op[b])'
  BY <1>2
<1>7. (\A n \in Names :
          dir[n] # NoFile /\ ~ IsOpen(dir[n]) /\ ads[dir[n]] = NoTag => Plain(data[dir[n]]))'
  BY <1>3
<1>8. (\A f \in Files : ads[f].kind = "hmac" => Plain(ads[f].from))'
  BY <1>4 DEF Plain
<1> QED
  BY <1>5, <1>6, <1>7, <1>8 DEF PlainInv

\* A thread that returns and changes nothing on the volume.
LEMMA PlainReturn ==
    ASSUME IInv, PlainInv, NEW a \in Actors, op' = [op EXCEPT ![a] = Idle],
           UNCHANGED <<dir, data, ads, sidecar>>,
           op[a].pc \in {"idle", "audit", "open", "verify", "delete"}
    PROVE  PlainInv'
<1>1. op'[a] = Idle
  BY VolumeFacts
<1>2. ThreadPlain(op[a])'
  BY <1>1 DEF ThreadPlain, Idle, Transforming
<1>3. ASSUME NEW g \in Files, HasOpen(a, g), ads[g] = NoTag PROVE Plain(data[g])
  BY <1>3 DEF PlainInv, ThreadPlain, HasOpen, Transforming
<1>4. (\A n \in Names : sidecar'[n] = NoTag)
  BY DEF PlainInv
<1>5. op' = [op EXCEPT ![a] = op'[a]]
  BY <1>1
<1> QED
  BY <1>2, <1>3, <1>4, <1>5, PlainStep

\* With streams and without sidecars the tag is in the stream.
LEMMA StreamTag ==
    ASSUME PlainInv, NamedStreams, NEW n \in Names
    PROVE  TagPlace(n) = "ads" /\ FoundTag(n) = ads[dir[n]]
BY DEF PlainInv, TagPlace, FoundTag, TagAt

LEMMA PlainOpen ==
    ASSUME IInv, PlainInv, NEW a \in Actors, NEW n \in Names, Open(a, n)
    PROVE  PlainInv'
<1>1. /\ op[a].pc = "idle" /\ dir[n] # NoFile /\ ~ IsOpen(dir[n])
      /\ UNCHANGED <<dir, data, ads, sidecar>>
  BY DEF Open, disk
<1>2. PICK serial \in BOOLEAN :
          op' = [op EXCEPT ![a] = [Idle EXCEPT !.pc = "open", !.name = n,
                    !.file = dir[n], !.seed = SeedForPath(n, serial)]]
  BY DEF Open
<1>3. op'[a].pc = "open" /\ op'[a].file = dir[n] /\ op'[a].place = "ads"
  BY <1>2, VolumeFacts DEF Idle
<1>4. ThreadPlain(op[a])'
  BY <1>1, <1>3 DEF PlainInv, ThreadPlain
<1>5. \A g : ~ HasOpen(a, g)
  BY <1>1 DEF HasOpen, Transforming
<1>6. \A m \in Names : sidecar'[m] = NoTag
  BY <1>1 DEF PlainInv
<1>7. op' = [op EXCEPT ![a] = op'[a]]
  BY <1>2, VolumeFacts
<1> QED
  BY <1>1, <1>4, <1>5, <1>6, <1>7, PlainStep

\* A step inside TransformFile that changes nothing on the volume.
LEMMA PlainAdvance ==
    ASSUME IInv, PlainInv, NEW a \in Actors, op[a].pc \in Transforming,
           op' = [op EXCEPT ![a] = op'[a]], op'[a].file = op[a].file,
           op'[a].pc \in Transforming, UNCHANGED <<dir, data, ads, sidecar>>,
           ThreadPlain(op[a])'
    PROVE  PlainInv'
<1>1. \A g : HasOpen(a, g)' <=> HasOpen(a, g)
  BY DEF HasOpen
<1>2. \A n \in Names : sidecar'[n] = NoTag
  BY DEF PlainInv
<1> QED
  BY <1>1, <1>2, PlainStep

LEMMA PlainReadTag ==
    ASSUME IInv, PlainInv, NamedStreams, NEW a \in Actors, ReadTag(a)
    PROVE  PlainInv'
<1> DEFINE n == op[a].name
           f == op[a].file
<1>1. op[a].pc = "open" /\ op[a].pc \in Transforming /\ UNCHANGED <<dir, data, ads, sidecar>>
  BY DEF ReadTag, Transforming, disk
<1>2. n \in Names /\ f \in Files /\ dir[n] = f /\ op[a] \in OpType
  BY <1>1, ThreadFacts DEF OpSound, HandleHolds
<1>3. TagPlace(n) = "ads" /\ FoundTag(n) = ads[f]
  BY <1>2, StreamTag
<1>4. CASE Return(a, "fail")
  BY <1>1, <1>4, PlainReturn DEF Return
<1>5. CASE /\ FoundTag(n).kind = "hmac"
           /\ op' = [op EXCEPT ![a].pc = "verify", ![a].place = TagPlace(n),
                               ![a].stored = FoundTag(n)]
  <2>1. /\ op'[a].pc = "verify" /\ op'[a].place = "ads" /\ op'[a].stored = ads[f]
        /\ op'[a].file = f /\ op' = [op EXCEPT ![a] = op'[a]]
    BY <1>2, <1>3, <1>5, VolumeFacts DEF OpType
  <2>2. ads[f].kind = "hmac" /\ ads[f] # NoTag
    BY <1>3, <1>5 DEF NoTag
  <2>3. Plain(ads[f].from)
    BY <1>2, <2>2 DEF PlainInv
  <2>4. ThreadPlain(op[a])'
    BY <1>1, <2>1, <2>2, <2>3 DEF ThreadPlain, Plain
  <2> QED
    BY <1>1, <2>1, <2>4, PlainAdvance DEF Transforming
<1>6. CASE /\ FoundTag(n) = NoTag
           /\ op' = [op EXCEPT ![a].pc = "encrypt", ![a].place = TagPlace(n),
                               ![a].before = data[f]]
  <2>1. /\ op'[a].pc = "encrypt" /\ op'[a].place = "ads" /\ op'[a].before = data[f]
        /\ op'[a].file = f /\ op' = [op EXCEPT ![a] = op'[a]]
    BY <1>2, <1>3, <1>6, VolumeFacts DEF OpType
  <2>2. Plain(data[f])
    BY <1>1, <1>3, <1>6 DEF PlainInv, ThreadPlain
  <2>3. ThreadPlain(op[a])'
    BY <1>1, <1>3, <1>6, <2>1, <2>2 DEF ThreadPlain, Plain
  <2> QED
    BY <1>1, <2>1, <2>3, PlainAdvance DEF Transforming
<1> QED
  BY <1>4, <1>5, <1>6 DEF ReadTag

LEMMA PlainVerify ==
    ASSUME IInv, PlainInv, NEW a \in Actors, Verify(a)
    PROVE  PlainInv'
<1>1. op[a].pc = "verify" /\ op[a].pc \in Transforming /\ UNCHANGED <<dir, data, ads, sidecar>>
  BY DEF Verify, Transforming, disk
<1>2. CASE Return(a, "fail")
  BY <1>1, <1>2, PlainReturn DEF Return
<1>3. CASE op' = [op EXCEPT ![a].pc = "decrypt", ![a].before = data[op[a].file]]
  <2>1. /\ op'[a].pc = "decrypt" /\ op'[a].place = op[a].place
        /\ op'[a].stored = op[a].stored
        /\ op'[a].file = op[a].file /\ op' = [op EXCEPT ![a] = op'[a]]
    BY <1>3, VolumeFacts, ThreadFacts DEF OpType
  <2>2. ThreadPlain(op[a])'
    BY <1>1, <2>1 DEF PlainInv, ThreadPlain, Plain
  <2> QED
    BY <1>1, <2>1, <2>2, PlainAdvance DEF Transforming
<1> QED
  BY <1>2, <1>3 DEF Verify

LEMMA PlainXorBlock ==
    ASSUME IInv, PlainInv, NEW a \in Actors, XorBlock(a)
    PROVE  PlainInv'
<1>1. /\ op[a].pc \in {"encrypt", "decrypt"} /\ op[a].pos <= N /\ dir' = dir /\ ads' = ads
      /\ sidecar' = sidecar /\ op' = [op EXCEPT ![a].pos = @ + 1]
      /\ data' = [data EXCEPT ![op[a].file][op[a].pos] = Xor(@, op[a].seed)]
  BY DEF XorBlock
<1>2. \A g \in Files \ {op[a].file} : data'[g] = data[g]
  BY <1>1, XorData
<1>3. HasOpen(a, op[a].file)
  BY <1>1 DEF HasOpen, Transforming
<1>4. /\ op'[a].pc = op[a].pc /\ op'[a].place = op[a].place /\ op'[a].file = op[a].file
      /\ op'[a].before = op[a].before /\ op'[a].stored = op[a].stored
      /\ op' = [op EXCEPT ![a] = op'[a]]
  BY <1>1, VolumeFacts, ThreadFacts DEF OpType
<1>5. ThreadPlain(op[a])'
  BY <1>1, <1>4 DEF PlainInv, ThreadPlain, Plain
<1>6. \A g : HasOpen(a, g)' <=> HasOpen(a, g)
  BY <1>4 DEF HasOpen
<1>7. \A n \in Names : sidecar'[n] = NoTag
  BY <1>1 DEF PlainInv
<1>8. \A g \in Files :
          \/ data'[g] = data[g] /\ ads'[g] = ads[g]
          \/ /\ HasOpen(a, g)
             /\ ads'[g] = NoTag => ads[g] = NoTag \/ ~ AdsHeld(a, g)
             /\ ads'[g].kind = "hmac" => Plain(ads'[g].from)
  BY <1>1, <1>2, <1>3 DEF PlainInv
<1> QED
  BY <1>1, <1>4, <1>5, <1>6, <1>7, <1>8, PlainStep

\* Case A ends with the content that case B found.
LEMMA PlainDeleteTag ==
    ASSUME IInv, WholeTags, PlainInv, NEW a \in Actors, DeleteTag(a)
    PROVE  PlainInv'
<1> DEFINE f == op[a].file
           s == op[a].seed
           t == op[a].stored
<1>1. /\ op[a].pc = "decrypt" /\ op[a].pos = N + 1 /\ dir' = dir /\ data' = data
      /\ op' = [op EXCEPT ![a] = Idle]
      /\ \/ ~ TagHeld(a) /\ SetTag(a, NoTag)
         \/ UNCHANGED <<ads, sidecar>>
  BY DEF DeleteTag, Return
<1>2. /\ op[a].place = "ads" /\ Plain(t.from) /\ HasOpen(a, f)
  BY <1>1 DEF PlainInv, ThreadPlain, Transforming, HasOpen
<1>3. Plain(data[f])
  <2> SUFFICES ASSUME NEW i \in Blocks PROVE data[f][i].keys = {}
    BY DEF Plain
  <2>1. /\ t \in Hmacs /\ s \in Seeds /\ op[a].before = XorAll(t.from, s)
        /\ op[a].pos = N + 1
        /\ i < op[a].pos => data[f][i] = Xor(op[a].before[i], s)
    BY <1>1, ThreadFacts, TagKinds, TamperByWholeTags
       DEF OpSound, Checked, InPlace, Transforming, TamperDetected
  <2>2. i < op[a].pos
    BY <2>1, LengthAssumption DEF Blocks
  <2>3. t.from \in Contents /\ t.from[i] \in BlockValues
    BY <2>1 DEF Hmacs, Contents
  <2>4. op[a].before[i] = Xor(t.from[i], s)
    BY <2>1, <2>3 DEF XorAll, Contents
  <2>5. data[f][i] = t.from[i]
    BY <2>1, <2>2, <2>3, <2>4, XorTwice
  <2> QED
    BY <1>2, <2>5 DEF Plain
<1>4. op'[a] = Idle /\ op' = [op EXCEPT ![a] = op'[a]]
  BY <1>1, VolumeFacts
<1>5. ThreadPlain(op[a])'
  BY <1>4 DEF ThreadPlain, Idle, Transforming
<1>6. /\ sidecar' = sidecar
      /\ \/ ads' = ads
         \/ ~ AdsHeld(a, f) /\ ads' = [ads EXCEPT ![f] = NoTag]
  BY <1>1, <1>2 DEF TagHeld, SetTag
<1>7. \A g \in Files : g = f \/ ads'[g] = ads[g]
  BY <1>6, VolumeFacts
<1>8. f \in Files => ads'[f] = ads[f] \/ (ads'[f] = NoTag /\ ~ AdsHeld(a, f))
  BY <1>6, VolumeFacts
<1>9. \A g \in Files :
          \/ data'[g] = data[g] /\ ads'[g] = ads[g]
          \/ /\ HasOpen(a, g)
             /\ ads'[g] = NoTag => ads[g] = NoTag \/ ~ AdsHeld(a, g)
             /\ ads'[g].kind = "hmac" => Plain(ads'[g].from)
  BY <1>1, <1>2, <1>7, <1>8 DEF NoTag
<1>10. \A g \in Files : HasOpen(a, g) => Plain(data'[g])
  BY <1>1, <1>3 DEF HasOpen
<1>11. \A n \in Names : sidecar'[n] = NoTag
  BY <1>6 DEF PlainInv
<1> QED
  BY <1>1, <1>4, <1>5, <1>9, <1>10, <1>11, PlainStep

LEMMA PlainComputeTag ==
    ASSUME IInv, PlainInv, Faults \subseteq Harmless, NEW a \in Actors, ComputeTag(a)
    PROVE  PlainInv'
<1>1. op[a].pc = "encrypt" /\ op[a].pc \in Transforming /\ UNCHANGED <<dir, data, ads, sidecar>>
  BY DEF ComputeTag, Transforming, disk
<1>2. PICK p \in 0..N :
          op' = [op EXCEPT ![a].pc = "tag",
                    ![a].stored = Hmac(op[a].seed, Prefix(data[op[a].file], p), op[a].before)]
  BY DEF ComputeTag, Fault, Harmless
<1>3. /\ op'[a].pc = "tag" /\ op'[a].place = op[a].place
      /\ op'[a].stored = Hmac(op[a].seed, Prefix(data[op[a].file], p), op[a].before)
      /\ op'[a].file = op[a].file /\ op' = [op EXCEPT ![a] = op'[a]]
  BY <1>2, VolumeFacts, ThreadFacts DEF OpType
<1>4. op'[a].stored.from = op[a].before
  BY <1>3 DEF Hmac
<1>5. ThreadPlain(op[a])'
  BY <1>1, <1>3, <1>4 DEF PlainInv, ThreadPlain, Plain, Transforming
<1> QED
  BY <1>1, <1>3, <1>5, PlainAdvance DEF Transforming

\* No other thread has the tag open that case B is about to create.
LEMMA PlainCreateTag ==
    ASSUME IInv, PlainInv, Faults \subseteq Harmless, NEW a \in Actors, CreateTag(a)
    PROVE  PlainInv'
<1> DEFINE f == op[a].file
<1>1. op[a].pc = "tag" /\ op[a].pc \in Transforming /\ dir' = dir /\ data' = data
  BY DEF CreateTag, Transforming
<1>2. f \in Files /\ op[a].place = "ads" /\ ads[f] = NoTag
  BY <1>1, ThreadFacts DEF PlainInv, ThreadPlain, OpSound, HandleHolds
<1>3. ~ TagHeld(a)
  <2> SUFFICES ASSUME NEW b \in Actors \ {a}, op[b].pc \in {"audit", "tagwrite"},
                      op[b].file = f
               PROVE  FALSE
    BY <1>2 DEF TagHeld, AdsHeld
  <2> QED
    BY <1>2 DEF PlainInv, ThreadPlain
<1>4. op' = [op EXCEPT ![a].pc = "tagwrite"] /\ SetTag(a, EmptyTag)
  BY <1>3 DEF CreateTag, Fault, Harmless
<1>5. ads' = [ads EXCEPT ![f] = EmptyTag] /\ sidecar' = sidecar
  BY <1>2, <1>4 DEF SetTag
<1>6. ads'[f] = EmptyTag /\ \A g \in Files \ {f} : ads'[g] = ads[g]
  BY <1>2, <1>5, VolumeFacts
<1>7. /\ op'[a].pc = "tagwrite" /\ op'[a].place = op[a].place /\ op'[a].file = f
      /\ op'[a].stored = op[a].stored /\ op' = [op EXCEPT ![a] = op'[a]]
  BY <1>4, VolumeFacts, ThreadFacts DEF OpType
<1>8. ThreadPlain(op[a])'
  BY <1>1, <1>6, <1>7 DEF PlainInv, ThreadPlain, Plain, Transforming, EmptyTag, NoTag
<1>9. \A g : HasOpen(a, g)' <=> HasOpen(a, g)
  BY <1>1, <1>7 DEF HasOpen, Transforming
<1>10. \A g \in Files :
          \/ data'[g] = data[g] /\ ads'[g] = ads[g]
          \/ /\ HasOpen(a, g)
             /\ ads'[g] = NoTag => ads[g] = NoTag \/ ~ AdsHeld(a, g)
             /\ ads'[g].kind = "hmac" => Plain(ads'[g].from)
  BY <1>1, <1>6 DEF HasOpen, EmptyTag, NoTag
<1>11. \A n \in Names : sidecar'[n] = NoTag
  BY <1>5 DEF PlainInv
<1> QED
  BY <1>1, <1>7, <1>8, <1>9, <1>10, <1>11, PlainStep

LEMMA PlainWriteTag ==
    ASSUME IInv, PlainInv, Faults \subseteq Harmless, NEW a \in Actors, WriteTag(a)
    PROVE  PlainInv'
<1> DEFINE f == op[a].file
           t == op[a].stored
<1>1. /\ op[a].pc = "tagwrite" /\ op[a].pc \in Transforming /\ dir' = dir /\ data' = data
      /\ op' = [op EXCEPT ![a] = Idle] /\ SetTag(a, t)
  BY DEF WriteTag, Return, Transforming, Fault, Harmless
<1>2. f \in Files /\ op[a].place = "ads" /\ Plain(t.from) /\ t.kind = "hmac"
  BY <1>1, ThreadFacts DEF PlainInv, ThreadPlain, OpSound, HandleHolds, Checked
<1>3. ads' = [ads EXCEPT ![f] = t] /\ sidecar' = sidecar
  BY <1>1, <1>2 DEF SetTag
<1>4. ads'[f] = t /\ \A g \in Files \ {f} : ads'[g] = ads[g]
  BY <1>2, <1>3, VolumeFacts
<1>5. op'[a] = Idle /\ op' = [op EXCEPT ![a] = op'[a]]
  BY <1>1, VolumeFacts
<1>6. ThreadPlain(op[a])'
  BY <1>5 DEF ThreadPlain, Idle, Transforming
<1>7. \A g \in Files :
          \/ data'[g] = data[g] /\ ads'[g] = ads[g]
          \/ /\ HasOpen(a, g)
             /\ ads'[g] = NoTag => ads[g] = NoTag \/ ~ AdsHeld(a, g)
             /\ ads'[g].kind = "hmac" => Plain(ads'[g].from)
  BY <1>1, <1>2, <1>4 DEF HasOpen, NoTag
<1>8. \A g \in Files : HasOpen(a, g) => ads'[g] # NoTag
  BY <1>2, <1>4 DEF HasOpen, NoTag
<1>9. \A n \in Names : sidecar'[n] = NoTag
  BY <1>3 DEF PlainInv
<1> QED
  BY <1>1, <1>5, <1>6, <1>7, <1>8, <1>9, PlainStep

LEMMA PlainTransform ==
    ASSUME IInv, WholeTags, PlainInv, NamedStreams, Faults \subseteq Harmless,
           NEW a \in Actors, Transform(a)
    PROVE  PlainInv'
<1>1. ASSUME NEW n \in Names, OpenFails(a, n) PROVE PlainInv'
  BY <1>1, PlainReturn DEF OpenFails, Return, disk
<1>2. ~ XorBlockFails(a)
  BY DEF XorBlockFails, Fault, Harmless
<1> QED
  BY <1>1, <1>2, PlainOpen, PlainReadTag, PlainVerify, PlainXorBlock, PlainDeleteTag,
     PlainComputeTag, PlainCreateTag, PlainWriteTag DEF Transform

-----------------------------------------------------------------------------
LEMMA PlainAuditOpen ==
    ASSUME IInv, PlainInv, NamedStreams, NEW a \in Actors, NEW n \in Names, AuditOpen(a, n)
    PROVE  PlainInv'
<1>1. /\ op[a].pc = "idle" /\ dir[n] # NoFile /\ FoundTag(n) # NoTag
      /\ op' = [op EXCEPT ![a] = [Idle EXCEPT !.pc = "audit", !.name = n,
                                     !.file = dir[n], !.place = TagPlace(n)]]
      /\ UNCHANGED <<dir, data, ads, sidecar>>
  BY DEF AuditOpen, HasReadableTag, disk
<1>2. TagPlace(n) = "ads" /\ ads[dir[n]] # NoTag /\ dir[n] \in Files
  BY <1>1, StreamTag, VolumeFacts
<1>3. /\ op'[a].pc = "audit" /\ op'[a].file = dir[n] /\ op'[a].place = "ads"
      /\ op'[a].name = n /\ op' = [op EXCEPT ![a] = op'[a]]
  BY <1>1, <1>2, VolumeFacts DEF Idle
<1>4. ThreadPlain(op[a])'
  BY <1>1, <1>2, <1>3 DEF ThreadPlain, Transforming
<1>5. \A g : ~ HasOpen(a, g)
  BY <1>1 DEF HasOpen, Transforming
<1>6. \A m \in Names : sidecar'[m] = NoTag
  BY <1>1 DEF PlainInv
<1> QED
  BY <1>1, <1>3, <1>4, <1>5, <1>6, PlainStep

LEMMA PlainDeleteSidecar ==
    ASSUME IInv, PlainInv, NEW a \in Actors, NEW n \in Names, DeleteSidecar(a, n)
    PROVE  PlainInv'
<1>1. /\ op[a].pc = "idle" /\ UNCHANGED <<dir, data, ads>>
      /\ op' = [op EXCEPT ![a] = [Idle EXCEPT !.pc = "delete", !.name = n]]
      /\ sidecar' = sidecar \/ sidecar' = [sidecar EXCEPT ![n] = NoTag]
  BY DEF DeleteSidecar
<1>2. op'[a].pc = "delete" /\ op' = [op EXCEPT ![a] = op'[a]]
  BY <1>1, VolumeFacts DEF Idle
<1>3. ThreadPlain(op[a])'
  BY <1>2 DEF ThreadPlain, Transforming
<1>4. \A g : ~ HasOpen(a, g)
  BY <1>1 DEF HasOpen, Transforming
<1>5. \A m \in Names : sidecar'[m] = NoTag
  BY <1>1, VolumeFacts DEF PlainInv
<1> QED
  BY <1>1, <1>2, <1>3, <1>4, <1>5, PlainStep

\* A step that concerns a file which no TransformFile has open, and no open tag.
LEMMA PlainOutside ==
    ASSUME IInv, PlainInv, NEW f \in Files, ~ IsOpen(f), OneName',
           \A b \in Actors : \/ op'[b] = op[b]
                             \/ op[b].pc \notin Transforming /\ op'[b] = Idle,
           \A g \in Files \ {f} : data'[g] = data[g] /\ ads'[g] = ads[g],
           ads'[f] = ads[f] \/ ads'[f] = NoTag,
           \A n \in Names : sidecar'[n] = NoTag,
           \A n \in Names :
               dir'[n] # NoFile => dir'[n] = f \/ \E m \in Names : dir[m] = dir'[n],
           \A n \in Names : dir'[n] = f /\ ads'[f] = NoTag => Plain(data'[f]),
           \A b \in Actors : op[b].pc = "audit" =>
               /\ dir'[op[b].name] = dir[op[b].name]
               /\ op[b].file = f => ads'[f] = ads[f]
    PROVE  PlainInv'
<1>1. \A b \in Actors : \A g : HasOpen(b, g)' <=> HasOpen(b, g)
  BY DEF HasOpen, Idle, Transforming
<1>2. \A g : IsOpen(g)' <=> IsOpen(g)
  BY <1>1 DEF IsOpen
<1>3. ASSUME NEW b \in Actors PROVE ThreadPlain(op[b])'
  <2> DEFINE o == op[b]
             g == op[b].file
  <2>1. ThreadPlain(o)
    BY DEF PlainInv
  <2>2. CASE op'[b] = Idle
    BY <2>2 DEF ThreadPlain, Idle, Transforming
  <2>3. CASE op'[b] = o /\ o.pc \in Transforming
    <3>1. g \in Files /\ g # f
      BY <2>3, ThreadFacts DEF IsOpen, HasOpen, OpSound, HandleHolds
    <3>2. data'[g] = data[g] /\ ads'[g] = ads[g]
      BY <3>1
    <3> QED
      BY <2>1, <2>3, <3>2 DEF ThreadPlain, Transforming
  <2>4. CASE op'[b] = o /\ o.pc = "audit"
    <3>1. g \in Files /\ ads'[g] = ads[g] /\ dir'[o.name] = dir[o.name]
      BY <2>1, <2>4 DEF ThreadPlain
    <3> QED
      BY <2>1, <2>4, <3>1 DEF ThreadPlain, Transforming
  <2>5. CASE op'[b] = o /\ o.pc \notin Transforming \cup {"audit"}
    BY <2>5 DEF ThreadPlain, Transforming
  <2> QED
    BY <2>2, <2>3, <2>4, <2>5
<1>4. ASSUME NEW n \in Names, dir'[n] # NoFile, ~ IsOpen(dir[n])', ads'[dir'[n]] = NoTag
      PROVE  Plain(data'[dir'[n]])
  <2>1. CASE dir'[n] = f
    BY <1>4, <2>1
  <2>2. CASE dir'[n] # f
    <3>1. PICK m \in Names : dir[m] = dir'[n]
      BY <1>4, <2>2
    <3>2. dir[m] \in Files \ {f}
      BY <1>4, <2>2, <3>1, VolumeFacts
    <3>3. ~ IsOpen(dir[m])
      <4>1. \A b \in Actors : ~ (op'[b].pc \in Transforming /\ op'[b].file = dir'[n])
        BY <1>4 DEF IsOpen, HasOpen
      <4> QED
        BY <1>1, <3>1, <4>1 DEF IsOpen, HasOpen
    <3> QED
      BY <1>4, <3>1, <3>2, <3>3 DEF PlainInv
  <2> QED
    BY <2>1, <2>2
<1>5. (\A n \in Names :
          dir[n] # NoFile /\ ~ IsOpen(dir[n]) /\ ads[dir[n]] = NoTag => Plain(data[dir[n]]))'
  BY <1>4 DEF IsOpen, HasOpen, Plain
<1>6. (\A g \in Files : ads[g].kind = "hmac" => Plain(ads[g].from))'
  <2>1. \A g \in Files : ads'[g] = ads[g] \/ ads'[g] = NoTag
    OBVIOUS
  <2> QED
    BY <2>1 DEF PlainInv, Plain, NoTag
<1> QED
  BY <1>3, <1>5, <1>6 DEF PlainInv

LEMMA PlainRename ==
    ASSUME IInv, PlainInv, NEW a \in Actors, NEW m \in Names, NEW n \in Names, Rename(a, m, n)
    PROVE  PlainInv'
<1> DEFINE f == dir[m]
<1>1. /\ op[a].pc = "idle" /\ f # NoFile /\ dir[n] = NoFile /\ ~ IsOpen(f)
      /\ ~ AdsHeld(a, f) /\ dir' = [dir EXCEPT ![m] = NoFile, ![n] = f]
      /\ UNCHANGED <<data, ads, sidecar, op>>
  BY DEF Rename
<1>2. /\ dir'[n] = f /\ m # n /\ f \in Files
      /\ dir'[m] = NoFile
      /\ \A k \in Names \ {m, n} : dir'[k] = dir[k] /\ dir[k] # f
  <2>1. m # n /\ f \in Files
    BY <1>1, VolumeFacts
  <2>2. \A k \in Names \ {m, n} : dir[k] # f
    BY <1>1 DEF PlainInv, OneName
  <2> QED
    BY <1>1, <2>1, <2>2, VolumeFacts
<1>3. OneName'
  <2>1. \A k \in Names : dir'[k] # NoFile => k = n \/ dir'[k] = dir[k]
    BY <1>2
  <2>2. \A k \in Names : dir'[k] = f => k = n
    BY <1>1, <1>2
  <2>3. \A j, k \in Names : dir[j] = dir[k] /\ dir[j] # NoFile => j = k
    BY DEF PlainInv, OneName
  <2> QED
    BY <1>2, <2>1, <2>2, <2>3 DEF OneName
<1>4. \A b \in Actors : op[b].pc = "audit" => dir'[op[b].name] = dir[op[b].name]
  <2> SUFFICES ASSUME NEW b \in Actors, op[b].pc = "audit"
               PROVE  dir'[op[b].name] = dir[op[b].name]
    OBVIOUS
  <2>1. /\ op[b].name \in Names /\ op[b].file \in Files /\ dir[op[b].name] = op[b].file
        /\ op[b].place = "ads"
    BY DEF PlainInv, ThreadPlain
  <2>2. b # a /\ op[b].file # f
    BY <1>1, <2>1 DEF AdsHeld
  <2>3. op[b].name # m /\ op[b].name # n
    BY <1>1, <2>1, <2>2, NameAssumption
  <2> QED
    BY <1>2, <2>1, <2>3
<1>5. \A k \in Names : dir'[k] # NoFile => \E j \in Names : dir[j] = dir'[k]
  BY <1>2
<1>6. \A k \in Names : dir'[k] = f /\ ads'[f] = NoTag => Plain(data'[f])
  BY <1>1 DEF PlainInv
<1>7. \A k \in Names : sidecar'[k] = NoTag
  BY <1>1 DEF PlainInv
<1> QED
  BY <1>1, <1>2, <1>3, <1>4, <1>5, <1>6, <1>7, PlainOutside

\* The file of path n goes, with its stream.
LEMMA PlainUnlink ==
    ASSUME IInv, PlainInv, NEW n \in Names, dir[n] # NoFile, ~ IsOpen(dir[n]),
           dir' = [dir EXCEPT ![n] = NoFile], ads' = [ads EXCEPT ![dir[n]] = NoTag],
           UNCHANGED <<data, sidecar>>,
           \A b \in Actors : \/ op'[b] = op[b]
                             \/ op[b].pc \notin Transforming /\ op'[b] = Idle,
           \A b \in Actors : op[b].pc = "audit" => op[b].file # dir[n]
    PROVE  PlainInv'
<1> DEFINE f == dir[n]
<1>1. /\ f \in Files /\ dir'[n] = NoFile /\ \A k \in Names \ {n} : dir'[k] = dir[k]
      /\ ads'[f] = NoTag /\ \A g \in Files \ {f} : ads'[g] = ads[g]
  BY VolumeFacts
<1>2. OneName'
  BY <1>1 DEF PlainInv, OneName
<1>3. \A k \in Names : dir'[k] # NoFile => dir'[k] # f
  BY <1>1 DEF PlainInv, OneName
<1>4. \A b \in Actors : op[b].pc = "audit" =>
          dir'[op[b].name] = dir[op[b].name] /\ op[b].file # f
  BY <1>1 DEF PlainInv, ThreadPlain
<1>5. \A k \in Names : dir'[k] # NoFile => \E j \in Names : dir[j] = dir'[k]
  BY <1>1
<1>6. \A k \in Names : sidecar'[k] = NoTag
  BY DEF PlainInv
<1>7. \A k \in Names : ~ (dir'[k] = f)
  BY <1>1, <1>3, NameAssumption
<1>8. \A g \in Files \ {f} : data'[g] = data[g] /\ ads'[g] = ads[g]
  BY <1>1
<1> HIDE DEF f
<1> QED
  BY <1>1, <1>2, <1>4, <1>5, <1>6, <1>7, <1>8, PlainOutside DEF f

LEMMA PlainDeleteFile ==
    ASSUME IInv, PlainInv, Faults \subseteq Harmless, NEW a \in Actors, DeleteFile(a)
    PROVE  PlainInv'
<1> DEFINE n == op[a].name
<1>1. op[a].pc = "delete" /\ UNCHANGED <<data, sidecar>> /\ op' = [op EXCEPT ![a] = Idle]
  BY DEF DeleteFile
<1>2. n \in Names
  BY <1>1, ThreadFacts DEF OpSound, HandleHolds
<1>3. CASE UNCHANGED <<dir, ads>>
  BY <1>1, <1>3, PlainReturn
<1>4. CASE /\ dir[n] # NoFile /\ ~ IsOpen(dir[n]) /\ ~ AdsHeld(a, dir[n])
           /\ dir' = [dir EXCEPT ![n] = NoFile]
           /\ ads' = [ads EXCEPT ![dir[n]] = NoTag]
  <2>1. \A b \in Actors : op[b].pc = "audit" => op[b].file # dir[n]
    BY <1>1, <1>4 DEF AdsHeld, PlainInv, ThreadPlain
  <2>2. \A b \in Actors : \/ op'[b] = op[b]
                          \/ op[b].pc \notin Transforming /\ op'[b] = Idle
    BY <1>1, VolumeFacts DEF Transforming
  <2> HIDE DEF n
  <2> QED
    BY <1>1, <1>2, <1>4, <2>1, <2>2, PlainUnlink
<1> QED
  BY <1>3, <1>4 DEF DeleteFile

LEMMA PlainForeignDelete ==
    ASSUME IInv, PlainInv, NEW n \in Names, ForeignDelete(n)
    PROVE  PlainInv'
<1>1. /\ dir[n] # NoFile /\ ~ IsOpen(dir[n])
      /\ dir' = [dir EXCEPT ![n] = NoFile] /\ ads' = [ads EXCEPT ![dir[n]] = NoTag]
      /\ UNCHANGED <<data, sidecar, op>>
  BY DEF ForeignDelete, IsOpen
<1>2. \A b \in Actors : op[b].pc = "audit" => op[b].file # dir[n]
  BY DEF ForeignDelete, PlainInv, ThreadPlain
<1> QED
  BY <1>1, <1>2, PlainUnlink

LEMMA PlainForeignWrite ==
    ASSUME IInv, PlainInv, NEW n \in Names, NEW i \in Blocks, ForeignWrite(n, i)
    PROVE  PlainInv'
<1> DEFINE f == dir[n]
<1>1. /\ f # NoFile /\ ~ IsOpen(f) /\ UNCHANGED <<dir, ads, sidecar, op>>
      /\ data' = [data EXCEPT ![f][i] = [base |-> Foreign, keys |-> {}]]
  BY DEF ForeignWrite
<1>2. f \in Files /\ data[f] \in Contents
  BY <1>1, VolumeFacts
<1>3. /\ data'[f] = [data[f] EXCEPT ![i] = [base |-> Foreign, keys |-> {}]]
      /\ \A g \in Files \ {f} : data'[g] = data[g]
  BY <1>1, <1>2, VolumeFacts
<1>4. Plain(data[f]) => Plain(data'[f])
  BY <1>2, <1>3 DEF Plain, Contents
<1>5. \A k \in Names : dir'[k] = f /\ ads'[f] = NoTag => Plain(data'[f])
  BY <1>1, <1>4 DEF PlainInv
<1>6. OneName' /\ \A k \in Names : sidecar'[k] = NoTag
  BY <1>1 DEF PlainInv, OneName
<1> QED
  BY <1>1, <1>2, <1>3, <1>5, <1>6, PlainOutside

LEMMA PlainForeignCreate ==
    ASSUME IInv, PlainInv, NEW n \in Names, NEW f \in Files, ForeignCreate(n, f)
    PROVE  PlainInv'
<1>1. /\ dir[n] = NoFile /\ (\A m \in Names : dir[m] # f) /\ UNCHANGED <<sidecar, op>>
      /\ dir' = [dir EXCEPT ![n] = f] /\ data' = [data EXCEPT ![f] = PlainContent(Foreign)]
      /\ ads' = [ads EXCEPT ![f] = NoTag]
  BY DEF ForeignCreate
<1>2. /\ dir'[n] = f /\ \A k \in Names \ {n} : dir'[k] = dir[k]
      /\ data'[f] = PlainContent(Foreign) /\ ads'[f] = NoTag
      /\ \A g \in Files \ {f} : data'[g] = data[g] /\ ads'[g] = ads[g]
  BY <1>1, VolumeFacts
<1>3. Plain(data'[f])
  BY <1>2 DEF Plain, PlainContent
<1>4. ~ IsOpen(f)
  BY <1>1, ThreadFacts DEF IsOpen, HasOpen, OpSound, HandleHolds
<1>5. OneName'
  BY <1>1, <1>2 DEF PlainInv, OneName
<1>6. \A b \in Actors : op[b].pc = "audit" =>
          dir'[op[b].name] = dir[op[b].name] /\ op[b].file # f
  BY <1>1, <1>2, NameAssumption DEF PlainInv, ThreadPlain
<1>7. \A k \in Names : dir'[k] # NoFile => dir'[k] = f \/ \E j \in Names : dir[j] = dir'[k]
  BY <1>2
<1>8. \A k \in Names : sidecar'[k] = NoTag
  BY <1>1 DEF PlainInv
<1> QED
  BY <1>1, <1>2, <1>3, <1>4, <1>5, <1>6, <1>7, <1>8, PlainOutside

LEMMA StepPlain ==
    ASSUME IInv, WholeTags, PlainInv, NamedStreams, Faults \subseteq Harmless, [Next]_vars
    PROVE  PlainInv'
<1>1. ASSUME NEW a \in Actors, AuditClose(a) PROVE PlainInv'
  BY <1>1, PlainReturn DEF AuditClose, disk
<1>2. ASSUME NEW a \in Actors, Explorer(a) PROVE PlainInv'
  BY <1>1, <1>2, PlainTransform, PlainAuditOpen, PlainDeleteSidecar, PlainRename,
     PlainDeleteFile DEF Explorer
<1>3. ~ Crash
  BY DEF Crash, Fault, Harmless
<1>4. ASSUME Environment PROVE PlainInv'
  BY <1>3, <1>4, PlainForeignWrite, PlainForeignDelete, PlainForeignCreate DEF Environment
<1>5. ASSUME UNCHANGED vars PROVE PlainInv'
  BY <1>5 DEF vars, PlainInv, OneName, IsOpen, HasOpen, ThreadPlain, Plain
<1> QED
  BY <1>2, <1>4, <1>5 DEF Next

LEMMA InitPlain == ASSUME Init, LeftOver = {} PROVE PlainInv
<1>1. OneName /\ \A n \in Names : sidecar[n] = NoTag
  BY DEF Init, OneName
<1>2. \A f \in Files : ads[f] = NoTag /\ Plain(data[f])
  BY DEF Init, Plain, PlainContent
<1>3. \A a \in Actors : ThreadPlain(op[a])
  BY DEF Init, Idle, ThreadPlain, Transforming
<1>4. \A n \in Names : dir[n] # NoFile => dir[n] \in Files
  BY DEF Init
<1> QED
  BY <1>1, <1>2, <1>3, <1>4 DEF PlainInv, NoTag

\* On a volume with streams on which no sidecar was left, as long as no read, write or crash
\* stops a toggle half way, a file that nobody transforms and that has no tag is
\* plaintext: TransformFile may take case B for it.
THEOREM UntaggedIsPlainHolds ==
    ASSUME NamedStreams, LeftOver = {}, Faults \subseteq Harmless
    PROVE  Spec => []UntaggedIsPlain
<1>1. "mac" \notin Faults
  BY DEF Harmless
<1>2. Init => PlainInv
  BY InitPlain
<1>3. IInv /\ WholeTags /\ [Next]_vars => WholeTags'
  BY <1>1, StepWholeTags
<1>4. IInv /\ WholeTags /\ PlainInv /\ [Next]_vars => PlainInv'
  BY StepPlain
<1>5. PlainInv => UntaggedIsPlain
  BY StreamTag DEF UntaggedIsPlain, PlainInv, Plain
<1> QED
  BY <1>2, <1>3, <1>4, <1>5, InitWholeTags, Invariant, PTL DEF Spec
=============================================================================
