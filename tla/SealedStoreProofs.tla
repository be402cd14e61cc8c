------------------------- MODULE SealedStoreProofs -------------------------
(***************************************************************************)
(* Proofs that TransformFile seals and unseals files as a whole: what a    *)
(* returned success means, and the refinement of the atomic store of       *)
(* SealedStore.  The inductive invariant of TransformFileProofs says that  *)
(* a file under transformation can always be undone; SealInv and KeepInv   *)
(* add where the tags come from and where they are.                        *)
(***************************************************************************)
EXTENDS TransformFileProofs

-----------------------------------------------------------------------------
(* Sealing as a whole.  A tag on its way to the volume seals the file as it is; *)
(* a tag on the volume has been written before; the handle on the tag leads to  *)
(* the place where ReadAdsData will look.                                       *)

Placed == {"verify", "decrypt", "encrypt", "tag", "tagwrite"}

\* A tag of the volume is one of those that were written.
Given(t) == t.kind = "hmac" => t \in issued

ThreadSeals(o) ==
    /\ o.pc \in {"tag", "tagwrite"} =>
          /\ o.before \in Contents
          /\ data[o.file] = XorAll(o.before, o.seed)
          /\ o.stored = Hmac(o.seed, data[o.file], o.before)
    /\ o.pc \in {"verify", "decrypt"} => Given(o.stored)
    /\ ~ NamedStreams /\ o.pc \in Placed => o.place = "sidecar"
    /\ NamedStreams /\ o.pc \in Placed =>
          o.place = "ads" \/ (LeftOver # {} /\ o.pc \in {"verify", "decrypt"})

SealInv ==
    /\ \A f \in Files : Given(ads[f])
    /\ \A n \in Names : Given(sidecar[n])
    /\ NamedStreams /\ LeftOver = {} => \A n \in Names : sidecar[n] = NoTag
    /\ \A a \in Actors : ThreadSeals(op[a])

\* What is left to show of a step: the tags that it writes, and the thread that takes it.
LEMMA SealStep ==
    ASSUME IInv, SealInv, issued \subseteq issued',
           \A f \in Files : ads'[f] = ads[f] \/ Given(ads[f])',
           \A n \in Names :
               \/ sidecar'[n] = sidecar[n]
               \/ /\ Given(sidecar[n])'
                  /\ ~ NamedStreams \/ LeftOver # {} \/ sidecar'[n] = NoTag,
           \A b \in Actors :
               \/ ThreadSeals(op[b])'
               \/ /\ op'[b] = op[b]
                  /\ op[b].pc \in Transforming => data'[op[b].file] = data[op[b].file]
    PROVE  SealInv'
<1>1. \A f \in Files : Given(ads[f])'
  BY DEF SealInv, Given
<1>2. \A n \in Names : Given(sidecar[n])'
  BY DEF SealInv, Given
<1>3. \A b \in Actors : ThreadSeals(op[b])'
  BY DEF SealInv, ThreadSeals, Given, Transforming, Placed
<1>4. NamedStreams /\ LeftOver = {} => \A n \in Names : sidecar'[n] = NoTag
  BY DEF SealInv
<1> QED
  BY <1>1, <1>2, <1>3, <1>4 DEF SealInv

\* A thread that ends its operation or starts one holds no tag.
LEMMA IdleSeals ==
    ASSUME NEW a \in Actors, op'[a].pc \notin Placed
    PROVE  ThreadSeals(op[a])'
BY DEF ThreadSeals, Placed

\* The files of the other threads are left alone.
LEMMA OtherFiles ==
    ASSUME IInv, NEW a \in Actors, op[a].pc \in Transforming,
           \A g \in Files \ {op[a].file} : data'[g] = data[g],
           NEW b \in Actors \ {a}, op[b].pc \in Transforming
    PROVE  data'[op[b].file] = data[op[b].file]
BY ThreadFacts, OthersElsewhere

LEMMA ReturnSeals ==
    ASSUME IInv, SealInv, NEW a \in Actors, op' = [op EXCEPT ![a] = Idle],
           issued \subseteq issued', op[a].pc \in Transforming,
           \A g \in Files \ {op[a].file} : data'[g] = data[g],
           \/ UNCHANGED <<ads, sidecar>>
           \/ \E t \in Tags : /\ SetTag(a, t)
                              /\ t.kind = "hmac" => t \in issued'
                              /\ t = NoTag \/ op[a].pc = "tagwrite"
    PROVE  SealInv'
<1>1. op'[a] = Idle /\ \A b \in Actors \ {a} : op'[b] = op[b]
  BY VolumeFacts
<1>2. ThreadSeals(op[a])'
  <2>1. op'[a].pc \notin Placed
    BY <1>1 DEF Idle, Placed
  <2> QED
    BY <2>1, IdleSeals
<1>3. \A b \in Actors :
          \/ ThreadSeals(op[b])'
          \/ /\ op'[b] = op[b]
             /\ op[b].pc \in Transforming => data'[op[b].file] = data[op[b].file]
  BY <1>1, <1>2, OtherFiles
<1>4. CASE UNCHANGED <<ads, sidecar>>
  BY <1>3, <1>4, SealStep
<1>5. ASSUME NEW t \in Tags, SetTag(a, t), t.kind = "hmac" => t \in issued',
             t = NoTag \/ op[a].pc = "tagwrite"
      PROVE  SealInv'
  <2>1. \A f \in Files : ads'[f] = ads[f] \/ ads'[f] = t
    BY <1>5, VolumeFacts DEF SetTag
  <2>2. \A n \in Names : sidecar'[n] = sidecar[n] \/ (sidecar'[n] = t /\ op[a].place # "ads")
    BY <1>5, VolumeFacts DEF SetTag
  <2>3. op[a].pc = "tagwrite" /\ NamedStreams => op[a].place = "ads"
    BY DEF SealInv, ThreadSeals, Placed
  <2>4. \A f \in Files : ads'[f] = ads[f] \/ Given(ads[f])'
    BY <1>5, <2>1 DEF Given
  <2>5. \A n \in Names :
           \/ sidecar'[n] = sidecar[n]
           \/ Given(sidecar[n])' /\ (~ NamedStreams \/ LeftOver # {} \/ sidecar'[n] = NoTag)
    BY <1>5, <2>2, <2>3 DEF Given
  <2> QED
    BY <1>3, <2>4, <2>5, SealStep
<1> QED
  BY <1>4, <1>5

\* A thread that leaves the files and the tags alone.
LEMMA SealQuiet ==
    ASSUME IInv, SealInv, NEW a \in Actors, op' = [op EXCEPT ![a] = op'[a]],
           UNCHANGED <<data, ads, sidecar, issued>>, ThreadSeals(op[a])'
    PROVE  SealInv'
<1>1. \A b \in Actors \ {a} : op'[b] = op[b]
  BY VolumeFacts
<1> QED
  BY <1>1, SealStep

\* The same when it has no tag in hand afterwards.
LEMMA SealLeaves ==
    ASSUME IInv, SealInv, NEW a \in Actors, NEW o, op' = [op EXCEPT ![a] = o],
           UNCHANGED <<data, ads, sidecar, issued>>, o.pc \notin Placed
    PROVE  SealInv'
<1>1. op'[a] = o /\ op' = [op EXCEPT ![a] = op'[a]]
  BY VolumeFacts
<1> QED
  BY <1>1, IdleSeals, SealQuiet

LEMMA SealReturn ==
    ASSUME IInv, SealInv, NEW a \in Actors, NEW r, Return(a, r),
           UNCHANGED <<data, ads, sidecar, issued>>
    PROVE  SealInv'
<1>1. op' = [op EXCEPT ![a] = Idle]
  BY DEF Return
<1>2. Idle.pc \notin Placed
  BY DEF Idle, Placed
<1> QED
  BY <1>1, <1>2, SealLeaves

LEMMA SealOpen ==
    ASSUME IInv, SealInv, NEW a \in Actors, NEW n \in Names, Open(a, n)
    PROVE  SealInv'
<1>1. PICK serial \in BOOLEAN :
          op' = [op EXCEPT ![a] = [Idle EXCEPT !.pc = "open", !.name = n,
                    !.file = dir[n], !.seed = SeedForPath(n, serial)]]
  BY DEF Open
<1>2. [Idle EXCEPT !.pc = "open", !.name = n, !.file = dir[n],
                   !.seed = SeedForPath(n, serial)].pc \notin Placed
  BY DEF Idle, Placed
<1>3. UNCHANGED <<data, ads, sidecar, issued>>
  BY DEF Open, disk
<1> QED
  BY <1>1, <1>2, <1>3, SealLeaves

LEMMA SealReadTag ==
    ASSUME IInv, SealInv, NEW a \in Actors, ReadTag(a)
    PROVE  SealInv'
<1> DEFINE n == op[a].name
           f == op[a].file
<1>1. op[a].pc = "open" /\ op[a].pc \in Transforming /\ UNCHANGED <<data, ads, sidecar, issued>>
  BY DEF ReadTag, Transforming, disk
<1>2. n \in Names /\ f \in Files /\ dir[n] = f /\ op[a] \in OpType
  BY <1>1, ThreadFacts DEF OpSound, HandleHolds
<1>3. CASE Return(a, "fail")
  BY <1>1, <1>3, SealReturn
<1>4. CASE /\ FoundTag(n).kind = "hmac"
           /\ op' = [op EXCEPT ![a].pc = "verify", ![a].place = TagPlace(n),
                               ![a].stored = FoundTag(n)]
  <2>1. /\ op'[a].pc = "verify" /\ op'[a].place = TagPlace(n) /\ op'[a].stored = FoundTag(n)
        /\ op' = [op EXCEPT ![a] = op'[a]]
    BY <1>2, <1>4, VolumeFacts DEF OpType
  <2>2. Given(FoundTag(n))
    BY <1>2 DEF SealInv, FoundTag, TagAt
  <2>3. IF NamedStreams THEN TagPlace(n) = "ads" \/ LeftOver # {} ELSE TagPlace(n) = "sidecar"
    BY <1>2 DEF TagPlace, SealInv
  <2>4. ThreadSeals(op[a])'
    BY <1>1, <2>1, <2>2, <2>3 DEF ThreadSeals, Placed, Given
  <2> QED
    BY <1>1, <2>1, <2>4, SealQuiet
<1>5. CASE /\ FoundTag(n) = NoTag
           /\ op' = [op EXCEPT ![a].pc = "encrypt", ![a].place = TagPlace(n),
                               ![a].before = data[f]]
  <2>1. /\ op'[a].pc = "encrypt" /\ op'[a].place = TagPlace(n)
        /\ op' = [op EXCEPT ![a] = op'[a]]
    BY <1>2, <1>5, VolumeFacts DEF OpType
  <2>2. IF NamedStreams THEN TagPlace(n) = "ads" ELSE TagPlace(n) = "sidecar"
    BY <1>2, <1>5 DEF TagPlace, FoundTag, TagAt
  <2>3. ThreadSeals(op[a])'
    BY <1>1, <2>1, <2>2 DEF ThreadSeals, Placed
  <2> QED
    BY <1>1, <2>1, <2>3, SealQuiet
<1> QED
  BY <1>3, <1>4, <1>5 DEF ReadTag

LEMMA SealVerify ==
    ASSUME IInv, SealInv, NEW a \in Actors, Verify(a)
    PROVE  SealInv'
<1>1. op[a].pc = "verify" /\ UNCHANGED <<data, ads, sidecar, issued>>
  BY DEF Verify, disk
<1>2. CASE Return(a, "fail")
  BY <1>1, <1>2, SealReturn
<1>3. CASE op' = [op EXCEPT ![a].pc = "decrypt", ![a].before = data[op[a].file]]
  <2>1. /\ op'[a].pc = "decrypt" /\ op'[a].place = op[a].place
        /\ op'[a].stored = op[a].stored /\ op' = [op EXCEPT ![a] = op'[a]]
    BY <1>3, VolumeFacts, ThreadFacts DEF OpType
  <2>2. ThreadSeals(op[a])'
    BY <1>1, <2>1 DEF SealInv, ThreadSeals, Placed, Given
  <2> QED
    BY <1>1, <2>1, <2>2, SealQuiet
<1> QED
  BY <1>2, <1>3 DEF Verify

LEMMA SealXorBlock ==
    ASSUME IInv, SealInv, NEW a \in Actors, XorBlock(a)
    PROVE  SealInv'
<1>1. /\ op[a].pc \in {"encrypt", "decrypt"} /\ op[a].pos <= N
      /\ UNCHANGED <<ads, sidecar, issued>> /\ op' = [op EXCEPT ![a].pos = @ + 1]
      /\ data' = [data EXCEPT ![op[a].file][op[a].pos] = Xor(@, op[a].seed)]
  BY DEF XorBlock
<1>2. /\ op[a].pc \in Transforming
      /\ \A g \in Files \ {op[a].file} : data'[g] = data[g]
  BY <1>1, XorData DEF Transforming
<1>3. /\ op'[a].pc = op[a].pc /\ op'[a].place = op[a].place
      /\ op'[a].stored = op[a].stored /\ \A b \in Actors \ {a} : op'[b] = op[b]
  BY <1>1, VolumeFacts, ThreadFacts DEF OpType
<1>4. ThreadSeals(op[a])'
  BY <1>1, <1>3 DEF SealInv, ThreadSeals, Placed, Given
<1>5. \A b \in Actors :
          \/ ThreadSeals(op[b])'
          \/ /\ op'[b] = op[b]
             /\ op[b].pc \in Transforming => data'[op[b].file] = data[op[b].file]
  BY <1>2, <1>3, <1>4, OtherFiles
<1> QED
  BY <1>1, <1>5, SealStep

LEMMA SealXorBlockFails ==
    ASSUME IInv, SealInv, NEW a \in Actors, XorBlockFails(a)
    PROVE  SealInv'
<1>1. /\ op[a].pc \in {"encrypt", "decrypt"} /\ op[a].pos <= N
      /\ UNCHANGED <<ads, sidecar, issued>> /\ op' = [op EXCEPT ![a] = Idle]
      /\ \/ data' = data
         \/ data' = [data EXCEPT ![op[a].file][op[a].pos] = Xor(@, op[a].seed)]
  BY DEF XorBlockFails, Return
<1>2. /\ op[a].pc \in Transforming
      /\ \A g \in Files \ {op[a].file} : data'[g] = data[g]
  BY <1>1, XorData DEF Transforming
<1> QED
  BY <1>1, <1>2, ReturnSeals

LEMMA SealDeleteTag ==
    ASSUME IInv, SealInv, NEW a \in Actors, DeleteTag(a)
    PROVE  SealInv'
<1>1. /\ op[a].pc \in Transforming /\ UNCHANGED <<data, issued>>
      /\ op' = [op EXCEPT ![a] = Idle]
      /\ SetTag(a, NoTag) \/ UNCHANGED <<ads, sidecar>>
  BY DEF DeleteTag, Return, Transforming
<1>2. NoTag \in Tags /\ NoTag.kind # "hmac"
  BY DEF Tags, NoTag
<1> QED
  BY <1>1, <1>2, ReturnSeals

\* The whole file is transformed when the loop ends.
LEMMA Transformed ==
    ASSUME IInv, NEW a \in Actors, op[a].pc \in {"encrypt", "decrypt"}, op[a].pos = N + 1
    PROVE  data[op[a].file] = XorAll(op[a].before, op[a].seed)
<1> DEFINE f == op[a].file
<1>1. /\ data[f] \in Contents /\ op[a].before \in Contents
      /\ \A i \in Blocks :
            data[f][i] = IF i < op[a].pos THEN Xor(op[a].before[i], op[a].seed)
                                          ELSE op[a].before[i]
  BY ThreadFacts DEF OpSound, InPlace, Transforming
<1>2. \A i \in Blocks : i < op[a].pos
  BY LengthAssumption DEF Blocks
<1>3. \A i \in Blocks : data[f][i] = Xor(op[a].before[i], op[a].seed)
  BY <1>1, <1>2
<1> QED
  BY <1>1, <1>3 DEF XorAll, Contents

LEMMA SealComputeTag ==
    ASSUME IInv, SealInv, "mac" \notin Faults, NEW a \in Actors, ComputeTag(a)
    PROVE  SealInv'
<1> DEFINE f == op[a].file
<1>1. /\ op[a].pc = "encrypt" /\ op[a].pos = N + 1 /\ op[a].pc \in Transforming
      /\ UNCHANGED <<data, ads, sidecar, issued>>
  BY DEF ComputeTag, Transforming, disk
<1>2. CASE Return(a, "fail")
  BY <1>1, <1>2, SealReturn
<1>3. ASSUME NEW p \in 0..N, Hashed(p),
             op' = [op EXCEPT ![a].pc = "tag",
                       ![a].stored = Hmac(op[a].seed, Prefix(data[f], p), op[a].before)]
      PROVE  SealInv'
  <2>1. p = N
    BY <1>3 DEF Hashed, Fault
  <2>2. /\ op'[a].pc = "tag" /\ op'[a].place = op[a].place /\ op'[a].seed = op[a].seed
        /\ op'[a].before = op[a].before /\ op'[a].file = f
        /\ op'[a].stored = Hmac(op[a].seed, Prefix(data[f], p), op[a].before)
        /\ op' = [op EXCEPT ![a] = op'[a]]
    BY <1>3, VolumeFacts, ThreadFacts DEF OpType
  <2>3. data[f] \in Contents /\ op[a].before \in Contents
    BY <1>1, ThreadFacts DEF OpSound, InPlace
  <2>4. Prefix(data[f], N) = data[f]
    BY <2>3 DEF Prefix, Contents, Blocks
  <2>5. data[f] = XorAll(op[a].before, op[a].seed)
    BY <1>1, Transformed
  <2>6. op'[a].stored = Hmac(op[a].seed, data[f], op[a].before)
    BY <2>1, <2>2, <2>4
  <2>7. op[a].place = "sidecar" \/ NamedStreams
    BY <1>1 DEF SealInv, ThreadSeals, Placed
  <2>8. NamedStreams => op[a].place = "ads"
    BY <1>1 DEF SealInv, ThreadSeals, Placed
  <2>9. ThreadSeals(op[a])'
    BY <1>1, <2>2, <2>3, <2>5, <2>6, <2>7, <2>8 DEF ThreadSeals
  <2> QED
    BY <1>1, <2>2, <2>9, SealQuiet
<1> QED
  BY <1>2, <1>3 DEF ComputeTag

LEMMA SealCreateTag ==
    ASSUME IInv, SealInv, NEW a \in Actors, CreateTag(a)
    PROVE  SealInv'
<1>1. op[a].pc = "tag" /\ op[a].pc \in Transforming /\ UNCHANGED <<data, issued>>
  BY DEF CreateTag, Transforming
<1>2. CASE Return(a, "fail") /\ UNCHANGED <<ads, sidecar>>
  BY <1>1, <1>2, SealReturn
<1>3. CASE SetTag(a, EmptyTag) /\ op' = [op EXCEPT ![a].pc = "tagwrite"]
  <2>1. /\ op'[a].pc = "tagwrite" /\ op'[a].place = op[a].place /\ op'[a].file = op[a].file
        /\ op'[a].stored = op[a].stored /\ op'[a].seed = op[a].seed
        /\ op'[a].before = op[a].before /\ \A b \in Actors \ {a} : op'[b] = op[b]
    BY <1>3, VolumeFacts, ThreadFacts DEF OpType
  <2>2. ThreadSeals(op[a])'
    BY <1>1, <2>1 DEF SealInv, ThreadSeals, Placed
  <2>3. NamedStreams => op[a].place = "ads"
    BY <1>1 DEF SealInv, ThreadSeals, Placed
  <2>4. \A f \in Files : ads'[f] = ads[f] \/ Given(ads[f])'
    BY <1>3, VolumeFacts DEF SetTag, Given, EmptyTag
  <2>5. \A n \in Names :
           \/ sidecar'[n] = sidecar[n]
           \/ Given(sidecar[n])' /\ (~ NamedStreams \/ LeftOver # {} \/ sidecar'[n] = NoTag)
    BY <1>3, <2>3, VolumeFacts DEF SetTag, Given, EmptyTag
  <2> QED
    BY <1>1, <2>1, <2>2, <2>4, <2>5, SealStep
<1> QED
  BY <1>2, <1>3 DEF CreateTag

LEMMA SealWriteTag ==
    ASSUME IInv, SealInv, NEW a \in Actors, WriteTag(a)
    PROVE  SealInv'
<1>1. /\ op[a].pc = "tagwrite" /\ op[a].pc \in Transforming /\ UNCHANGED data
      /\ op' = [op EXCEPT ![a] = Idle]
      /\ \/ SetTag(a, op[a].stored) /\ issued' = issued \cup {op[a].stored}
         \/ UNCHANGED <<ads, sidecar, issued>>
  BY DEF WriteTag, Return, Transforming
<1>2. op[a].stored \in Tags /\ issued \subseteq issued'
  BY <1>1, ThreadFacts
<1> QED
  BY <1>1, <1>2, ReturnSeals

LEMMA SealTransform ==
    ASSUME IInv, SealInv, "mac" \notin Faults, NEW a \in Actors, Transform(a)
    PROVE  SealInv'
<1>1. ASSUME NEW n \in Names, OpenFails(a, n) PROVE SealInv'
  BY <1>1, SealReturn DEF OpenFails, disk
<1> QED
  BY <1>1, SealOpen, SealReadTag, SealVerify, SealXorBlock, SealXorBlockFails,
     SealDeleteTag, SealComputeTag, SealCreateTag, SealWriteTag DEF Transform

\* The steps of the other operations and of other programs delete tags at most.
LEMMA SealOutside ==
    ASSUME IInv, SealInv, UNCHANGED issued,
           \A f \in Files : ads'[f] = ads[f] \/ ads'[f] = NoTag,
           \A n \in Names : sidecar'[n] = sidecar[n] \/ sidecar'[n] = NoTag,
           \A b \in Actors :
               \/ op'[b].pc \notin Placed
               \/ /\ op'[b] = op[b]
                  /\ op[b].pc \in Transforming => data'[op[b].file] = data[op[b].file]
    PROVE  SealInv'
<1>1. \A f \in Files : ads'[f] = ads[f] \/ Given(ads[f])'
  BY DEF Given, NoTag
<1>2. \A n \in Names :
         \/ sidecar'[n] = sidecar[n]
         \/ Given(sidecar[n])' /\ (~ NamedStreams \/ LeftOver # {} \/ sidecar'[n] = NoTag)
  BY DEF Given, NoTag
<1> QED
  BY <1>1, <1>2, IdleSeals, SealStep

LEMMA StepSeals ==
    ASSUME IInv, SealInv, "mac" \notin Faults, [Next]_vars
    PROVE  SealInv'
<1> USE DEF disk
<1>1. ASSUME NEW a \in Actors, NEW n \in Names, AuditOpen(a, n) PROVE SealInv'
  <2>1. [Idle EXCEPT !.pc = "audit", !.name = n, !.file = dir[n],
                     !.place = TagPlace(n)].pc \notin Placed
    BY DEF Idle, Placed
  <2> QED
    BY <1>1, <2>1, SealLeaves DEF AuditOpen
<1>2. ASSUME NEW a \in Actors, AuditClose(a) PROVE SealInv'
  <2>1. Idle.pc \notin Placed
    BY DEF Idle, Placed
  <2> QED
    BY <1>2, <2>1, SealLeaves DEF AuditClose
<1>3. ASSUME NEW a \in Actors, NEW n \in Names, DeleteSidecar(a, n) PROVE SealInv'
  <2>1. op'[a].pc \notin Placed /\ \A b \in Actors \ {a} : op'[b] = op[b]
    BY <1>3, VolumeFacts DEF DeleteSidecar, Idle, Placed
  <2>2. UNCHANGED <<data, ads, issued>>
    BY <1>3 DEF DeleteSidecar
  <2>3. \A m \in Names : sidecar'[m] = sidecar[m] \/ sidecar'[m] = NoTag
    BY <1>3, VolumeFacts DEF DeleteSidecar
  <2> QED
    BY <2>1, <2>2, <2>3, SealOutside
<1>4. ASSUME NEW a \in Actors, DeleteFile(a) PROVE SealInv'
  <2>1. op'[a].pc \notin Placed /\ \A b \in Actors \ {a} : op'[b] = op[b]
    BY <1>4, VolumeFacts DEF DeleteFile, Idle, Placed
  <2>2. UNCHANGED <<data, sidecar, issued>>
    BY <1>4 DEF DeleteFile
  <2>3. \A f \in Files : ads'[f] = ads[f] \/ ads'[f] = NoTag
    BY <1>4, VolumeFacts DEF DeleteFile
  <2> QED
    BY <2>1, <2>2, <2>3, SealOutside
<1>5. ASSUME UNCHANGED <<sidecar, op, issued>>,
             \A f \in Files : ads'[f] = ads[f] \/ ads'[f] = NoTag,
             \A f \in Files : data'[f] = data[f] \/ ~ IsOpen(f)
      PROVE  SealInv'
  <2>1. \A b \in Actors : op[b].pc \in Transforming => data'[op[b].file] = data[op[b].file]
    BY <1>5, ThreadFacts DEF IsOpen, HasOpen
  <2> QED
    BY <1>5, <2>1, SealOutside
<1>6. ASSUME NEW a \in Actors, NEW m \in Names, NEW n \in Names, Rename(a, m, n)
      PROVE  SealInv'
  BY <1>5, <1>6 DEF Rename
<1>7. ASSUME NEW n \in Names, NEW i \in Blocks, ForeignWrite(n, i) PROVE SealInv'
  BY <1>5, <1>7, VolumeFacts DEF ForeignWrite
<1>8. ASSUME NEW n \in Names, ForeignDelete(n) PROVE SealInv'
  BY <1>5, <1>8, VolumeFacts DEF ForeignDelete
<1>9. ASSUME NEW n \in Names, NEW f \in Files, ForeignCreate(n, f) PROVE SealInv'
  <2>1. ~ IsOpen(f)
    BY <1>9, ThreadFacts DEF ForeignCreate, IsOpen, HasOpen, OpSound, HandleHolds
  <2> QED
    BY <1>5, <1>9, <2>1, VolumeFacts DEF ForeignCreate
<1>10. ASSUME Crash PROVE SealInv'
  <2>1. \A b \in Actors : op'[b].pc \notin Placed
    BY <1>10 DEF Crash, Idle, Placed
  <2> QED
    BY <1>10, <2>1, SealOutside DEF Crash
<1>11. ASSUME UNCHANGED vars PROVE SealInv'
  BY <1>5, <1>11 DEF vars
<1>12. ASSUME NEW a \in Actors, Explorer(a) PROVE SealInv'
  BY <1>1, <1>2, <1>3, <1>4, <1>6, <1>12, SealTransform DEF Explorer
<1>13. ASSUME Environment PROVE SealInv'
  BY <1>7, <1>8, <1>9, <1>10, <1>13 DEF Environment
<1> QED
  BY <1>11, <1>12, <1>13 DEF Next

LEMMA InitSeals == Init => SealInv
<1> SUFFICES ASSUME Init PROVE SealInv
  OBVIOUS
<1>1. \A f \in Files : Given(ads[f])
  BY DEF Init, Given, NoTag
<1>2. \A n \in Names : Given(sidecar[n])
  BY DEF Init, Given, NoTag
<1>3. NamedStreams /\ LeftOver = {} => \A n \in Names : sidecar[n] = NoTag
  BY DEF Init
<1>4. \A a \in Actors : ThreadSeals(op[a])
  BY DEF Init, Idle, ThreadSeals, Placed
<1> QED
  BY <1>1, <1>2, <1>3, <1>4 DEF SealInv

-----------------------------------------------------------------------------
\* A completed decryption leaves what the encryption found.
LEMMA Restored ==
    ASSUME IInv, WholeTags, NEW a \in Actors, op[a].pc = "decrypt", op[a].pos = N + 1
    PROVE  data[op[a].file] = op[a].stored.from
<1> DEFINE f == op[a].file
           s == op[a].seed
           t == op[a].stored
<1>1. t \in Hmacs /\ s \in Seeds /\ op[a].before = XorAll(t.from, s) /\ data[f] \in Contents
  BY ThreadFacts, TagKinds, TamperByWholeTags
     DEF OpSound, Checked, Transforming, TamperDetected
<1>2. data[f] = XorAll(op[a].before, s)
  BY Transformed
<1>3. t.from \in Contents /\ \A i \in Blocks : t.from[i] \in BlockValues
  BY <1>1 DEF Hmacs, Contents
<1>4. \A i \in Blocks : Xor(Xor(t.from[i], s), s) = t.from[i]
  BY <1>1, <1>3, XorTwice
<1>5. \A i \in Blocks : data[f][i] = Xor(Xor(t.from[i], s), s)
  BY <1>1, <1>2, <1>3 DEF XorAll, Contents
<1> QED
  BY <1>1, <1>3, <1>4, <1>5 DEF Contents

\* Where a thread of TransformFile finds its file.
LEMMA TransformingFacts ==
    ASSUME IInv, NEW a \in Actors, op[a].pc \in Transforming
    PROVE  op[a].name \in Names /\ op[a].file \in Files /\ dir[op[a].name] = op[a].file
BY ThreadFacts DEF OpSound, HandleHolds

\* What success means: sealed by the tag that ReadAdsData will find, or restored and
\* without a tag.
Complete(a, n, f) ==
    \/ FoundTag(n)' = Hmac(op[a].seed, data'[f], op[a].before)
    \/ FoundTag(n)' = NoTag /\ data'[f] = op[a].stored.from

LEMMA WriteCompletes ==
    ASSUME IInv, SealInv, NEW a \in Actors, WriteTag(a), result'[a] = "ok",
           NEW n, NEW f, n = op[a].name, f = op[a].file
    PROVE  FoundTag(n)' = Hmac(op[a].seed, data'[f], op[a].before)
<1> DEFINE t == op[a].stored
<1>1. /\ op[a].pc = "tagwrite" /\ op[a].pc \in Transforming /\ op[a].pc \in Placed
      /\ dir' = dir /\ data' = data
  BY DEF WriteTag, Transforming, Placed
<1>2. SetTag(a, t)
  BY <1>1 DEF WriteTag, Return, IInv, TypeOK
<1>3. n \in Names /\ f \in Files /\ dir[n] = f
  BY <1>1, TransformingFacts
<1>4. /\ t = Hmac(op[a].seed, data[f], op[a].before)
      /\ NamedStreams => op[a].place = "ads"
      /\ ~ NamedStreams => op[a].place = "sidecar"
  BY <1>1 DEF SealInv, ThreadSeals
<1>5. t # NoTag
  BY <1>1, ThreadFacts DEF OpSound, Checked, NoTag
<1>6. FoundTag(n)' = t
  <2>1. CASE NamedStreams
    <3>1. ads'[f] = t
      BY <1>2, <1>3, <1>4, <2>1, VolumeFacts DEF SetTag
    <3> QED
      BY <1>1, <1>3, <1>5, <2>1, <3>1 DEF FoundTag, TagPlace, TagAt
  <2>2. CASE ~ NamedStreams
    <3>1. sidecar'[n] = t
      BY <1>2, <1>3, <1>4, <2>2, VolumeFacts DEF SetTag
    <3> QED
      BY <2>2, <3>1 DEF FoundTag, TagPlace, TagAt
  <2> QED
    BY <2>1, <2>2
<1> QED
  BY <1>1, <1>4, <1>6

LEMMA DeleteCompletes ==
    ASSUME IInv, WholeTags, SealInv, "untag" \notin Faults, ~ NamedStreams \/ LeftOver = {},
           \A b \in Actors : op[b].pc # "audit", NEW a \in Actors, DeleteTag(a),
           NEW n, NEW f, n = op[a].name, f = op[a].file
    PROVE  FoundTag(n)' = NoTag /\ data'[f] = op[a].stored.from
<1>1. /\ op[a].pc = "decrypt" /\ op[a].pos = N + 1 /\ op[a].pc \in Transforming
      /\ op[a].pc \in Placed /\ dir' = dir /\ data' = data
  BY DEF DeleteTag, Transforming, Placed
<1>2. n \in Names /\ f \in Files /\ dir[n] = f
  BY <1>1, TransformingFacts
<1>3. ~ TagHeld(a)
  <2>1. \A b \in Actors \ {a} :
            op[b].pc = "tagwrite" => op[b].file # f /\ op[b].name # n
    BY <1>1, OthersElsewhere DEF Transforming
  <2> QED
    BY <2>1 DEF TagHeld, AdsHeld, SidecarHeld
<1>4. SetTag(a, NoTag)
  BY <1>3 DEF DeleteTag, Fault
<1>5. FoundTag(n)' = NoTag
  <2>1. CASE NamedStreams
    <3>1. op[a].place = "ads" /\ sidecar[n] = NoTag
      BY <1>1, <1>2, <2>1 DEF SealInv, ThreadSeals
    <3>2. ads'[f] = NoTag /\ sidecar'[n] = NoTag
      BY <1>2, <1>4, <3>1, VolumeFacts DEF SetTag
    <3> QED
      BY <1>1, <1>2, <2>1, <3>2 DEF FoundTag, TagPlace, TagAt
  <2>2. CASE ~ NamedStreams
    <3>1. op[a].place = "sidecar"
      BY <1>1, <2>2 DEF SealInv, ThreadSeals
    <3>2. sidecar'[n] = NoTag
      BY <1>2, <1>4, <3>1, VolumeFacts DEF SetTag
    <3> QED
      BY <2>2, <3>2 DEF FoundTag, TagPlace, TagAt
  <2> QED
    BY <2>1, <2>2
<1>6. data[f] = op[a].stored.from
  BY <1>1, Restored
<1> QED
  BY <1>1, <1>5, <1>6

\* Only the last step of TransformFile makes a result "ok".
LEMMA SuccessSteps ==
    ASSUME IInv, [Next]_vars, NEW a \in Actors, result'[a] = "ok", result[a] # "ok"
    PROVE  DeleteTag(a) \/ WriteTag(a)
<1>1. result \in [Actors -> {"none", "ok", "fail"}]
  BY DEF IInv, TypeOK
<1>2. ASSUME NEW b \in Actors, Return(b, "fail") PROVE FALSE
  BY <1>1, <1>2 DEF Return
<1>3. ASSUME result' = result PROVE FALSE
  BY <1>3
<1>4. ASSUME NEW b \in Actors, Transform(b) PROVE DeleteTag(a) \/ WriteTag(a)
  <2>1. ASSUME NEW n \in Names, Open(b, n) PROVE FALSE
    BY <1>1, <2>1 DEF Open
  <2>2. ASSUME NEW n \in Names, OpenFails(b, n) PROVE FALSE
    BY <1>2, <2>2 DEF OpenFails
  <2>3. ~ (ReadTag(b) \/ Verify(b) \/ XorBlock(b) \/ XorBlockFails(b) \/ ComputeTag(b)
             \/ CreateTag(b))
    BY <1>2, <1>3 DEF ReadTag, Verify, XorBlock, XorBlockFails, ComputeTag, CreateTag
  <2>4. ASSUME DeleteTag(b) \/ WriteTag(b) PROVE a = b
    BY <1>1, <2>4 DEF DeleteTag, WriteTag, Return
  <2> QED
    BY <1>4, <2>1, <2>2, <2>3, <2>4 DEF Transform
<1>5. ASSUME NEW b \in Actors, Explorer(b), ~ Transform(b) PROVE FALSE
  BY <1>3, <1>5 DEF Explorer, AuditOpen, DeleteSidecar, AuditClose, Rename, DeleteFile
<1>6. ~ Environment
  <2>1. ~ Crash
    BY DEF Crash
  <2> QED
    BY <1>3, <2>1 DEF Environment, ForeignWrite, ForeignDelete, ForeignCreate
<1> QED
  BY <1>3, <1>4, <1>5, <1>6 DEF Next, vars

LEMMA SuccessStep ==
    ASSUME IInv, WholeTags, SealInv, "untag" \notin Faults, ~ NamedStreams \/ LeftOver = {},
           [Next]_vars, \A b \in Actors : op[b].pc # "audit",
           NEW a \in Actors, NEW n, NEW f, n = op[a].name, f = op[a].file,
           result'[a] = "ok", result[a] # "ok"
    PROVE  Complete(a, n, f)
BY SuccessSteps, WriteCompletes, DeleteCompletes DEF Complete

\* Whatever any number of threads does at the same time: a TransformFile that seals returns
\* success only when the tag ReadAdsData will find covers what is in the file.
SealingIsComplete ==
    [][\A a \in Actors, n \in Names, f \in Files :
          /\ op[a].pc = "tagwrite" /\ op[a].name = n /\ op[a].file = f
          /\ result'[a] = "ok" /\ result[a] # "ok"
          => FoundTag(n)' = Hmac(op[a].seed, data'[f], op[a].before)]_vars

\* A success of TransformFile is complete while nobody audits: DeleteAdsData fails unseen
\* only under an audit, or by itself.
UnauditedIsComplete ==
    [][\A a \in Actors, n \in Names, f \in Files :
          /\ \A b \in Actors : op[b].pc # "audit"
          /\ op[a].name = n /\ op[a].file = f
          /\ result'[a] = "ok" /\ result[a] # "ok"
          => Complete(a, n, f)]_vars

LEMMA Seals == ASSUME "mac" \notin Faults PROVE Spec => [](IInv /\ WholeTags /\ SealInv)
<1>1. IInv /\ WholeTags /\ [Next]_vars => WholeTags'
  BY StepWholeTags
<1>2. IInv /\ SealInv /\ [Next]_vars => SealInv'
  BY StepSeals
<1> QED
  BY <1>1, <1>2, InitWholeTags, InitSeals, Invariant, PTL DEF Spec

\* A TransformFile that seals and returns success leaves the file sealed, under the tag that
\* ReadAdsData will find, for any number of threads.
THEOREM SealingSucceeds ==
    ASSUME "mac" \notin Faults
    PROVE  Spec => SealingIsComplete
<1>1. ASSUME IInv, SealInv, [Next]_vars, NEW a \in Actors, NEW n \in Names, NEW f \in Files,
             op[a].pc = "tagwrite", op[a].name = n, op[a].file = f,
             result'[a] = "ok", result[a] # "ok"
      PROVE  FoundTag(n)' = Hmac(op[a].seed, data'[f], op[a].before)
  <2>1. WriteTag(a)
    BY <1>1, SuccessSteps DEF DeleteTag
  <2> QED
    BY <1>1, <2>1, WriteCompletes
<1>2. IInv /\ WholeTags /\ SealInv /\ [Next]_vars =>
          [\A a \in Actors, n \in Names, f \in Files :
              /\ op[a].pc = "tagwrite" /\ op[a].name = n /\ op[a].file = f
              /\ result'[a] = "ok" /\ result[a] # "ok"
              => FoundTag(n)' = Hmac(op[a].seed, data'[f], op[a].before)]_vars
  BY <1>1
<1> QED
  BY <1>2, Seals, PTL DEF Spec, SealingIsComplete

\* With no audit under way, success means sealed or restored, unless DeleteAdsData fails by
\* itself or a sidecar was left behind on a volume with streams.
THEOREM SuccessUnaudited ==
    ASSUME "mac" \notin Faults, "untag" \notin Faults, ~ NamedStreams \/ LeftOver = {}
    PROVE  Spec => UnauditedIsComplete
<1>1. IInv /\ WholeTags /\ SealInv /\ [Next]_vars =>
          [\A a \in Actors, n \in Names, f \in Files :
              /\ \A b \in Actors : op[b].pc # "audit"
              /\ op[a].name = n /\ op[a].file = f
              /\ result'[a] = "ok" /\ result[a] # "ok"
              => Complete(a, n, f)]_vars
  BY SuccessStep
<1> QED
  BY <1>1, Seals, PTL DEF Spec, UnauditedIsComplete

\* A thread of the Explorer by itself meets no audit: its success is always complete.
THEOREM SuccessAlone ==
    ASSUME "mac" \notin Faults, "untag" \notin Faults, ~ NamedStreams \/ LeftOver = {},
           \A a, b \in Actors : a = b
    PROVE  Spec => SuccessIsComplete
<1>1. ASSUME IInv, WholeTags, SealInv, [Next]_vars, NEW a \in Actors, NEW n \in Names,
             NEW f \in Files, op[a].name = n, op[a].file = f, result'[a] = "ok",
             result[a] # "ok"
      PROVE  \/ FoundTag(n)' = Hmac(op[a].seed, data'[f], op[a].before)
             \/ FoundTag(n)' = NoTag /\ data'[f] = op[a].stored.from
  <2>1. op[a].pc # "audit"
    BY <1>1, SuccessSteps DEF DeleteTag, WriteTag
  <2>2. \A b \in Actors : op[b].pc # "audit"
    BY <2>1
  <2>3. Complete(a, n, f)
    BY <1>1, <2>2, SuccessStep
  <2> QED
    BY <2>3 DEF Complete
<1>2. IInv /\ WholeTags /\ SealInv /\ [Next]_vars =>
          [\A a \in Actors, n \in Names, f \in Files :
              op[a].name = n /\ op[a].file = f /\ result'[a] = "ok" /\ result[a] # "ok" =>
                 \/ FoundTag(n)' = Hmac(op[a].seed, data'[f], op[a].before)
                 \/ FoundTag(n)' = NoTag /\ data'[f] = op[a].stored.from]_vars
  BY <1>1
<1> QED
  BY <1>2, Seals, PTL DEF Spec, SuccessIsComplete

-----------------------------------------------------------------------------
(* What a thread that has a tag open, or found none, can rely on: nobody deletes the one,  *)
(* and nobody else creates the other.                                                      *)

ThreadKeeps(o) ==
    /\ o.pc \in Transforming => o.seed.name = o.name
    /\ o.pc = "audit" =>
          /\ o.name \in Names
          /\ o.file \in Files
          /\ o.place = "ads" => dir[o.name] = o.file /\ ads[o.file] # NoTag
          /\ o.place # "ads" => sidecar[o.name] # NoTag
    /\ o.pc \in {"encrypt", "tag"} =>
          IF o.place = "ads" THEN ads[o.file] = NoTag ELSE sidecar[o.name] = NoTag

KeepInv == \A a \in Actors : ThreadKeeps(op[a])

\* A thread that does not move keeps what it has while its tag stays as it is.
LEMMA KeepFrame ==
    ASSUME IInv, KeepInv, NEW b \in Actors, op'[b] = op[b],
           op[b].pc = "audit" =>
               /\ op[b].place = "ads" => /\ dir'[op[b].name] = dir[op[b].name]
                                         /\ ads'[op[b].file] # NoTag
               /\ op[b].place # "ads" => sidecar'[op[b].name] # NoTag,
           op[b].pc \in {"encrypt", "tag"} =>
               /\ ads'[op[b].file] = ads[op[b].file] \/ ads'[op[b].file] = NoTag
               /\ sidecar'[op[b].name] = sidecar[op[b].name] \/ sidecar'[op[b].name] = NoTag
    PROVE  ThreadKeeps(op[b])'
BY DEF KeepInv, ThreadKeeps, Transforming

\* A thread that leaves the volume alone.
LEMMA KeepQuiet ==
    ASSUME IInv, KeepInv, NEW a \in Actors, op' = [op EXCEPT ![a] = op'[a]],
           UNCHANGED <<dir, ads, sidecar>>, ThreadKeeps(op[a])'
    PROVE  KeepInv'
<1>1. ASSUME NEW b \in Actors \ {a} PROVE ThreadKeeps(op[b])'
  <2>1. op'[b] = op[b]
    BY VolumeFacts
  <2> QED
    BY <2>1 DEF KeepInv, ThreadKeeps, Transforming
<1> QED
  BY <1>1 DEF KeepInv

LEMMA IdleKeeps ==
    ASSUME NEW a \in Actors, op'[a].pc \in {"idle", "delete"}
    PROVE  ThreadKeeps(op[a])'
BY DEF ThreadKeeps, Transforming

LEMMA KeepReturn ==
    ASSUME IInv, KeepInv, NEW a \in Actors, op' = [op EXCEPT ![a] = Idle],
           UNCHANGED <<dir, ads, sidecar>>
    PROVE  KeepInv'
<1>1. op'[a] = Idle /\ op' = [op EXCEPT ![a] = op'[a]]
  BY VolumeFacts
<1>2. op'[a].pc \in {"idle", "delete"}
  BY <1>1 DEF Idle
<1> QED
  BY <1>1, <1>2, IdleKeeps, KeepQuiet

\* A step inside TransformFile of a thread that leaves the volume's tags alone.
LEMMA KeepAdvance ==
    ASSUME IInv, KeepInv, NEW a \in Actors, NEW o, op' = [op EXCEPT ![a] = o],
           UNCHANGED <<dir, ads, sidecar>>, op[a].pc \in Transforming,
           o.seed = op[a].seed, o.name = op[a].name, o.pc \in Transforming,
           \/ o.pc \in {"verify", "decrypt", "tagwrite"}
           \/ /\ o.pc \in {"encrypt", "tag"} /\ op[a].pc \in {"encrypt", "tag"}
              /\ o.place = op[a].place /\ o.file = op[a].file
    PROVE  KeepInv'
<1>1. op'[a] = o /\ op' = [op EXCEPT ![a] = op'[a]]
  BY VolumeFacts
<1>2. ThreadKeeps(op[a])'
  BY <1>1 DEF KeepInv, ThreadKeeps, Transforming
<1> QED
  BY <1>1, <1>2, KeepQuiet

LEMMA KeepReadTag ==
    ASSUME IInv, KeepInv, NEW a \in Actors, ReadTag(a)
    PROVE  KeepInv'
<1> DEFINE n == op[a].name
           f == op[a].file
<1>1. op[a].pc = "open" /\ op[a].pc \in Transforming /\ UNCHANGED <<dir, ads, sidecar>>
  BY DEF ReadTag, Transforming, disk
<1>2. n \in Names /\ f \in Files /\ dir[n] = f /\ op[a] \in OpType
  BY <1>1, ThreadFacts, TransformingFacts
<1>3. CASE Return(a, "fail")
  BY <1>1, <1>3, KeepReturn DEF Return
<1>4. CASE op' = [op EXCEPT ![a].pc = "verify", ![a].place = TagPlace(n),
                            ![a].stored = FoundTag(n)]
  <2>1. /\ op'[a].pc = "verify" /\ op'[a].seed = op[a].seed /\ op'[a].name = n
        /\ op' = [op EXCEPT ![a] = op'[a]]
    BY <1>2, <1>4, VolumeFacts DEF OpType
  <2> QED
    BY <1>1, <2>1, KeepAdvance DEF Transforming
<1>5. CASE /\ FoundTag(n) = NoTag
           /\ op' = [op EXCEPT ![a].pc = "encrypt", ![a].place = TagPlace(n),
                               ![a].before = data[f]]
  <2>1. /\ op'[a].pc = "encrypt" /\ op'[a].seed = op[a].seed /\ op'[a].name = n
        /\ op'[a].place = TagPlace(n) /\ op'[a].file = f
        /\ op' = [op EXCEPT ![a] = op'[a]]
    BY <1>2, <1>5, VolumeFacts DEF OpType
  <2>2. IF TagPlace(n) = "ads" THEN ads[f] = NoTag ELSE sidecar[n] = NoTag
    BY <1>2, <1>5 DEF FoundTag, TagAt
  <2>3. op[a].seed.name = n
    BY <1>1 DEF KeepInv, ThreadKeeps
  <2>4. ThreadKeeps(op[a])'
    BY <1>1, <2>1, <2>2, <2>3 DEF ThreadKeeps
  <2> QED
    BY <1>1, <2>1, <2>4, KeepQuiet
<1> QED
  BY <1>3, <1>4, <1>5 DEF ReadTag

\* Where a tag is put or deleted in TransformFile, no audit has it open that would lose it.
LEMMA KeepSet ==
    ASSUME IInv, KeepInv, NEW a \in Actors, op[a].pc \in Transforming, NEW t, SetTag(a, t),
           t # NoTag \/ ~ TagHeld(a), UNCHANGED dir,
           op' = [op EXCEPT ![a] = op'[a]], ThreadKeeps(op[a])'
    PROVE  KeepInv'
<1>1. ASSUME NEW b \in Actors \ {a} PROVE ThreadKeeps(op[b])'
  <2> DEFINE o == op[b]
  <2>1. op'[b] = o /\ ThreadKeeps(o)
    BY VolumeFacts DEF KeepInv
  <2>2. CASE o.pc = "audit"
    <3>1. o.name \in Names /\ o.file \in Files
      BY <2>1, <2>2 DEF ThreadKeeps
    <3>2. o.place = "ads" => ads'[o.file] # NoTag
      <4>1. ads[o.file] # NoTag \/ o.place # "ads"
        BY <2>1, <2>2 DEF ThreadKeeps
      <4>2. CASE ads'[o.file] = ads[o.file]
        BY <4>1, <4>2
      <4>3. CASE ads'[o.file] # ads[o.file]
        <5>1. op[a].place = "ads" /\ op[a].file = o.file /\ ads'[o.file] = t
          BY <3>1, <4>3, VolumeFacts DEF SetTag
        <5> QED
          BY <2>2, <5>1 DEF TagHeld, AdsHeld
      <4> QED
        BY <4>2, <4>3
    <3>3. o.place # "ads" => sidecar'[o.name] # NoTag
      <4>1. o.place = "sidecar" \/ o.place = "ads"
        BY ThreadFacts DEF OpType, Places
      <4>2. sidecar[o.name] # NoTag \/ o.place = "ads"
        BY <2>1, <2>2 DEF ThreadKeeps
      <4>3. CASE sidecar'[o.name] = sidecar[o.name]
        BY <4>2, <4>3
      <4>4. CASE sidecar'[o.name] # sidecar[o.name]
        <5>1. op[a].place # "ads" /\ op[a].name = o.name /\ sidecar'[o.name] = t
          BY <3>1, <4>4, VolumeFacts DEF SetTag
        <5> QED
          BY <2>2, <4>1, <5>1 DEF TagHeld, SidecarHeld
      <4> QED
        BY <4>3, <4>4
    <3> QED
      BY <2>1, <2>2, <3>2, <3>3, KeepFrame
  <2>3. CASE o.pc \in {"encrypt", "tag"}
    <3>1. o.file # op[a].file /\ o.name # op[a].name
      BY <2>3, OthersElsewhere DEF Transforming
    <3>2. o.file \in Files /\ o.name \in Names
      BY <2>3, TransformingFacts DEF Transforming
    <3>3. ads'[o.file] = ads[o.file] /\ sidecar'[o.name] = sidecar[o.name]
      BY <3>1, <3>2, VolumeFacts DEF SetTag
    <3> QED
      BY <2>1, <2>3, <3>3, KeepFrame
  <2>4. CASE o.pc \notin {"audit", "encrypt", "tag"}
    BY <2>1, <2>4, KeepFrame
  <2> QED
    BY <2>2, <2>3, <2>4
<1> QED
  BY <1>1 DEF KeepInv

LEMMA KeepTransform ==
    ASSUME IInv, KeepInv, NEW a \in Actors, Transform(a)
    PROVE  KeepInv'
<1> USE DEF disk
<1>1. ASSUME NEW n \in Names, Open(a, n) PROVE KeepInv'
  <2>1. PICK serial \in BOOLEAN :
            op' = [op EXCEPT ![a] = [Idle EXCEPT !.pc = "open", !.name = n,
                      !.file = dir[n], !.seed = SeedForPath(n, serial)]]
    BY <1>1 DEF Open
  <2>2. /\ op'[a].pc = "open" /\ op'[a].name = n /\ op'[a].seed = SeedForPath(n, serial)
        /\ op' = [op EXCEPT ![a] = op'[a]]
    BY <2>1, VolumeFacts DEF Idle
  <2>3. ThreadKeeps(op[a])'
    BY <2>2 DEF ThreadKeeps, SeedForPath
  <2> QED
    BY <1>1, <2>2, <2>3, KeepQuiet DEF Open
<1>2. ASSUME NEW r, Return(a, r), UNCHANGED <<dir, ads, sidecar>> PROVE KeepInv'
  BY <1>2, KeepReturn DEF Return
<1>3. ASSUME Verify(a) PROVE KeepInv'
  <2>1. CASE op' = [op EXCEPT ![a].pc = "decrypt", ![a].before = data[op[a].file]]
    <3>1. /\ op'[a].pc = "decrypt" /\ op'[a].seed = op[a].seed /\ op'[a].name = op[a].name
          /\ op' = [op EXCEPT ![a] = op'[a]]
      BY <2>1, VolumeFacts, ThreadFacts DEF OpType
    <3> QED
      BY <1>3, <3>1, KeepAdvance DEF Verify, Transforming
  <2> QED
    BY <1>2, <1>3, <2>1 DEF Verify
<1>4. ASSUME XorBlock(a) PROVE KeepInv'
  <2>1. /\ op'[a].pc = op[a].pc /\ op'[a].seed = op[a].seed /\ op'[a].name = op[a].name
        /\ op'[a].place = op[a].place /\ op'[a].file = op[a].file
        /\ op' = [op EXCEPT ![a] = op'[a]]
    BY <1>4, VolumeFacts, ThreadFacts DEF XorBlock, OpType
  <2>2. op[a].pc = "encrypt" \/ op[a].pc = "decrypt"
    BY <1>4 DEF XorBlock
  <2>3. UNCHANGED <<dir, ads, sidecar>> /\ op[a].pc \in Transforming
    BY <1>4, <2>2 DEF XorBlock, Transforming
  <2>4. CASE op[a].pc = "encrypt"
    BY <2>1, <2>3, <2>4, KeepAdvance
  <2>5. CASE op[a].pc = "decrypt"
    BY <2>1, <2>3, <2>5, KeepAdvance
  <2> QED
    BY <2>2, <2>4, <2>5
<1>5. ASSUME DeleteTag(a) PROVE KeepInv'
  <2>1. op[a].pc \in Transforming /\ op' = [op EXCEPT ![a] = Idle] /\ UNCHANGED dir
    BY <1>5 DEF DeleteTag, Return, Transforming
  <2>2. op'[a] = Idle /\ op' = [op EXCEPT ![a] = op'[a]]
    BY <2>1, VolumeFacts
  <2>3. ThreadKeeps(op[a])'
    BY <2>2, IdleKeeps DEF Idle
  <2>4. CASE UNCHANGED <<ads, sidecar>>
    BY <2>1, <2>4, KeepReturn
  <2>5. CASE ~ TagHeld(a) /\ SetTag(a, NoTag)
    BY <2>1, <2>2, <2>3, <2>5, KeepSet
  <2> QED
    BY <1>5, <2>4, <2>5 DEF DeleteTag
<1>6. ASSUME ComputeTag(a) PROVE KeepInv'
  <2>1. ASSUME NEW t, op' = [op EXCEPT ![a].pc = "tag", ![a].stored = t] PROVE KeepInv'
    <3>1. /\ op'[a].pc = "tag" /\ op'[a].seed = op[a].seed /\ op'[a].name = op[a].name
          /\ op'[a].place = op[a].place /\ op'[a].file = op[a].file
          /\ op' = [op EXCEPT ![a] = op'[a]]
      BY <2>1, VolumeFacts, ThreadFacts DEF OpType
    <3> QED
      BY <1>6, <3>1, KeepAdvance DEF ComputeTag, Transforming
  <2> QED
    BY <1>2, <1>6, <2>1 DEF ComputeTag
<1>7. ASSUME CreateTag(a) PROVE KeepInv'
  <2>1. CASE SetTag(a, EmptyTag) /\ op' = [op EXCEPT ![a].pc = "tagwrite"]
    <3>1. /\ op'[a].pc = "tagwrite" /\ op'[a].seed = op[a].seed /\ op'[a].name = op[a].name
          /\ op' = [op EXCEPT ![a] = op'[a]]
      BY <2>1, VolumeFacts, ThreadFacts DEF OpType
    <3>2. op[a].pc = "tag" /\ UNCHANGED dir
      BY <1>7 DEF CreateTag
    <3>3. ThreadKeeps(op[a])'
      BY <3>1, <3>2 DEF KeepInv, ThreadKeeps, Transforming
    <3>4. EmptyTag # NoTag
      BY DEF EmptyTag, NoTag
    <3> QED
      BY <2>1, <3>1, <3>2, <3>3, <3>4, KeepSet DEF Transforming
  <2> QED
    BY <1>2, <1>7, <2>1 DEF CreateTag
<1>8. ASSUME WriteTag(a) PROVE KeepInv'
  <2>1. op[a].pc = "tagwrite" /\ op' = [op EXCEPT ![a] = Idle] /\ UNCHANGED dir
    BY <1>8 DEF WriteTag, Return
  <2>2. op'[a] = Idle /\ op' = [op EXCEPT ![a] = op'[a]]
    BY <2>1, VolumeFacts
  <2>3. ThreadKeeps(op[a])'
    BY <2>2, IdleKeeps DEF Idle
  <2>4. op[a].stored # NoTag /\ op[a].pc \in Transforming
    BY <2>1, ThreadFacts DEF OpSound, Checked, NoTag, Transforming
  <2>5. CASE UNCHANGED <<ads, sidecar>>
    BY <2>1, <2>5, KeepReturn
  <2>6. CASE SetTag(a, op[a].stored)
    BY <2>1, <2>2, <2>3, <2>4, <2>6, KeepSet
  <2> QED
    BY <1>8, <2>5, <2>6 DEF WriteTag
<1> QED
  BY <1>1, <1>2, <1>3, <1>4, <1>5, <1>6, <1>7, <1>8, KeepReadTag
     DEF Transform, OpenFails, XorBlockFails

\* A step outside TransformFile: who has a tag open keeps it.
LEMMA KeepOutside ==
    ASSUME IInv, KeepInv,
           \A f \in Files : ads'[f] = ads[f] \/ ads'[f] = NoTag,
           \A n \in Names : sidecar'[n] = sidecar[n] \/ sidecar'[n] = NoTag,
           \A b \in Actors :
               \/ op'[b].pc \in {"idle", "delete"}
               \/ /\ op'[b] = op[b]
                  /\ op[b].pc = "audit" /\ op[b].place = "ads" =>
                        /\ dir'[op[b].name] = dir[op[b].name]
                        /\ ads'[op[b].file] = ads[op[b].file]
                  /\ op[b].pc = "audit" /\ op[b].place # "ads" =>
                        sidecar'[op[b].name] = sidecar[op[b].name]
    PROVE  KeepInv'
<1> SUFFICES ASSUME NEW b \in Actors PROVE ThreadKeeps(op[b])'
  BY DEF KeepInv
<1>1. CASE op'[b].pc \in {"idle", "delete"}
  BY <1>1, IdleKeeps
<1>2. CASE op'[b] = op[b] /\ op[b].pc = "audit" /\ op'[b].pc \notin {"idle", "delete"}
  BY <1>2, KeepFrame DEF KeepInv, ThreadKeeps
<1>3. CASE op'[b] = op[b] /\ op[b].pc \in {"encrypt", "tag"}
  BY <1>3, TransformingFacts, KeepFrame DEF Transforming
<1>4. CASE op'[b] = op[b] /\ op[b].pc \notin {"audit", "encrypt", "tag"}
  BY <1>4, KeepFrame
<1> QED
  BY <1>1, <1>2, <1>3, <1>4

LEMMA StepKeeps == ASSUME IInv, KeepInv, [Next]_vars PROVE KeepInv'
<1> USE DEF disk
<1>1. ASSUME NEW a \in Actors, NEW n \in Names, AuditOpen(a, n) PROVE KeepInv'
  <2>1. /\ op' = [op EXCEPT ![a] = [Idle EXCEPT !.pc = "audit", !.name = n,
                                       !.file = dir[n], !.place = TagPlace(n)]]
        /\ UNCHANGED <<dir, ads, sidecar>> /\ FoundTag(n) # NoTag /\ dir[n] # NoFile
    BY <1>1 DEF AuditOpen, HasReadableTag
  <2>2. /\ op'[a].pc = "audit" /\ op'[a].name = n /\ op'[a].file = dir[n]
        /\ op'[a].place = TagPlace(n) /\ op' = [op EXCEPT ![a] = op'[a]]
    BY <2>1, VolumeFacts DEF Idle
  <2>3. IF TagPlace(n) = "ads" THEN ads[dir[n]] # NoTag ELSE sidecar[n] # NoTag
    BY <2>1 DEF FoundTag, TagAt
  <2>4. ThreadKeeps(op[a])'
    BY <2>1, <2>2, <2>3, VolumeFacts DEF ThreadKeeps, Transforming
  <2> QED
    BY <2>1, <2>2, <2>4, KeepQuiet
<1>2. ASSUME NEW a \in Actors, AuditClose(a) PROVE KeepInv'
  BY <1>2, KeepReturn DEF AuditClose
<1>3. ASSUME NEW a \in Actors, NEW n \in Names, DeleteSidecar(a, n) PROVE KeepInv'
  <2>1. op'[a].pc = "delete" /\ \A b \in Actors \ {a} : op'[b] = op[b]
    BY <1>3, VolumeFacts DEF DeleteSidecar, Idle
  <2>2. UNCHANGED <<dir, ads>>
    BY <1>3 DEF DeleteSidecar
  <2>3. \A m \in Names : sidecar'[m] = sidecar[m] \/ sidecar'[m] = NoTag
    BY <1>3, VolumeFacts DEF DeleteSidecar
  <2>4. ASSUME NEW b \in Actors \ {a}, op[b].pc = "audit", op[b].place # "ads"
        PROVE  sidecar'[op[b].name] = sidecar[op[b].name]
    <3>1. op[b].place = "sidecar" /\ op[b].name \in Names
      BY <2>4, ThreadFacts DEF OpType, Places, KeepInv, ThreadKeeps
    <3> QED
      BY <1>3, <2>4, <3>1, VolumeFacts DEF DeleteSidecar, SidecarHeld
  <2> QED
    BY <2>1, <2>2, <2>3, <2>4, KeepOutside
<1>4. ASSUME NEW a \in Actors, DeleteFile(a) PROVE KeepInv'
  <2>1. op'[a].pc = "idle" /\ op[a].pc = "delete" /\ \A b \in Actors \ {a} : op'[b] = op[b]
    BY <1>4, VolumeFacts DEF DeleteFile, Idle
  <2>2. UNCHANGED sidecar
    BY <1>4 DEF DeleteFile
  <2>3. \A f \in Files : ads'[f] = ads[f] \/ ads'[f] = NoTag
    BY <1>4, VolumeFacts DEF DeleteFile
  <2>4. ASSUME NEW b \in Actors \ {a}, op[b].pc = "audit", op[b].place = "ads"
        PROVE  dir'[op[b].name] = dir[op[b].name] /\ ads'[op[b].file] = ads[op[b].file]
    <3>1. op[b].name \in Names /\ op[b].file \in Files /\ dir[op[b].name] = op[b].file
      BY <2>4 DEF KeepInv, ThreadKeeps
    <3>2. AdsHeld(a, op[b].file)
      BY <2>4 DEF AdsHeld
    <3> QED
      BY <1>4, <3>1, <3>2, VolumeFacts DEF DeleteFile
  <2> QED
    BY <2>1, <2>2, <2>3, <2>4, KeepOutside
<1>5. ASSUME NEW a \in Actors, NEW m \in Names, NEW n \in Names, Rename(a, m, n)
      PROVE  KeepInv'
  <2>1. ASSUME NEW b \in Actors, op[b].pc = "audit", op[b].place = "ads"
        PROVE  dir'[op[b].name] = dir[op[b].name]
    <3>1. op[b].name \in Names /\ op[b].file \in Files /\ dir[op[b].name] = op[b].file
      BY <2>1 DEF KeepInv, ThreadKeeps
    <3>2. b # a /\ AdsHeld(a, op[b].file)
      BY <1>5, <2>1 DEF AdsHeld, Rename
    <3>3. op[b].name # m /\ op[b].name # n
      BY <1>5, <3>1, <3>2, NameAssumption DEF Rename
    <3> QED
      BY <1>5, <3>1, <3>3, VolumeFacts DEF Rename
  <2> QED
    BY <1>5, <2>1, KeepOutside DEF Rename
<1>6. ASSUME NEW n \in Names, NEW i \in Blocks, ForeignWrite(n, i) PROVE KeepInv'
  BY <1>6, KeepOutside DEF ForeignWrite
<1>7. ASSUME NEW n \in Names, ForeignDelete(n) PROVE KeepInv'
  <2>1. \A f \in Files : ads'[f] = ads[f] \/ ads'[f] = NoTag
    BY <1>7, VolumeFacts DEF ForeignDelete
  <2>2. ASSUME NEW b \in Actors, op[b].pc = "audit", op[b].place = "ads"
        PROVE  dir'[op[b].name] = dir[op[b].name] /\ ads'[op[b].file] = ads[op[b].file]
    <3>1. op[b].name \in Names /\ op[b].file \in Files /\ dir[op[b].name] = op[b].file
      BY <2>2 DEF KeepInv, ThreadKeeps
    <3>2. op[b].file # dir[n]
      BY <1>7, <2>2 DEF ForeignDelete
    <3> QED
      BY <1>7, <3>1, <3>2, VolumeFacts DEF ForeignDelete
  <2> QED
    BY <1>7, <2>1, <2>2, KeepOutside DEF ForeignDelete
<1>8. ASSUME NEW n \in Names, NEW f \in Files, ForeignCreate(n, f) PROVE KeepInv'
  <2>1. \A g \in Files : ads'[g] = ads[g] \/ ads'[g] = NoTag
    BY <1>8, VolumeFacts DEF ForeignCreate
  <2>2. ASSUME NEW b \in Actors, op[b].pc = "audit", op[b].place = "ads"
        PROVE  dir'[op[b].name] = dir[op[b].name] /\ ads'[op[b].file] = ads[op[b].file]
    <3>1. op[b].name \in Names /\ op[b].file \in Files /\ dir[op[b].name] = op[b].file
      BY <2>2 DEF KeepInv, ThreadKeeps
    <3>2. op[b].file # f /\ op[b].name # n
      BY <1>8, <3>1, NameAssumption DEF ForeignCreate
    <3> QED
      BY <1>8, <3>1, <3>2, VolumeFacts DEF ForeignCreate
  <2> QED
    BY <1>8, <2>1, <2>2, KeepOutside DEF ForeignCreate
<1>9. ASSUME Crash PROVE KeepInv'
  BY <1>9, IdleKeeps DEF Crash, Idle, KeepInv
<1>10. ASSUME UNCHANGED vars PROVE KeepInv'
  BY <1>10 DEF vars, KeepInv, ThreadKeeps, Transforming
<1>11. ASSUME NEW a \in Actors, Explorer(a) PROVE KeepInv'
  BY <1>1, <1>2, <1>3, <1>4, <1>5, <1>11, KeepTransform DEF Explorer
<1>12. ASSUME Environment PROVE KeepInv'
  BY <1>6, <1>7, <1>8, <1>9, <1>12 DEF Environment
<1> QED
  BY <1>10, <1>11, <1>12 DEF Next

LEMMA InitKeeps == Init => KeepInv
BY DEF Init, KeepInv, ThreadKeeps, Idle, Transforming

\* The Explorer never meets its own handles when it creates a tag.
LEMMA TagFree ==
    ASSUME IInv, SealInv, KeepInv, NEW a \in Actors, op[a].pc = "tag"
    PROVE  ~ TagHeld(a)
<1>1. op[a].name \in Names /\ op[a].file \in Files /\ op[a].place \in Places
  BY TransformingFacts, ThreadFacts DEF Transforming, OpType
<1>2. IF op[a].place = "ads" THEN ads[op[a].file] = NoTag ELSE sidecar[op[a].name] = NoTag
  BY DEF KeepInv, ThreadKeeps
<1>3. ASSUME NEW b \in Actors \ {a}, op[b].pc \in {"audit", "tagwrite"},
             op[b].place = op[a].place,
             IF op[a].place = "ads" THEN op[b].file = op[a].file ELSE op[b].name = op[a].name
      PROVE  FALSE
  <2>1. CASE op[b].pc = "audit"
    BY <1>2, <1>3, <2>1 DEF KeepInv, ThreadKeeps
  <2>2. CASE op[b].pc = "tagwrite"
    BY <1>3, <2>2, OthersElsewhere DEF Transforming
  <2> QED
    BY <1>3, <2>1, <2>2
<1> QED
  BY <1>1, <1>3 DEF TagHeld, AdsHeld, SidecarHeld, Places

-----------------------------------------------------------------------------
(* TransformFile implements the atomic store.                                  *)

\* Inside these, a file counts as the content that the operation found.
Working == {"encrypt", "decrypt", "tag", "tagwrite"}

\* The content for given operations and blocks.
ContentOf(ops, c) ==
    [f \in Files |->
        IF \E a \in Actors : ops[a].pc \in Working /\ ops[a].file = f
        THEN ops[CHOOSE a \in Actors : ops[a].pc \in Working /\ ops[a].file = f].before
        ELSE c[f]]

LEMMA ContentIs == Content = ContentOf(op, data) /\ Content' = ContentOf(op', data')
<1>1. \A a \in Actors : \A f : HasOpen(a, f) /\ op[a].pc \notin {"open", "verify"}
                             <=> op[a].pc \in Working /\ op[a].file = f
  BY DEF Transforming, Working, HasOpen
<1>2. \A a \in Actors : \A f : HasOpen(a, f)' /\ op'[a].pc \notin {"open", "verify"}
                             <=> op'[a].pc \in Working /\ op'[a].file = f
  BY DEF Transforming, Working, HasOpen
<1>3. Content = ContentOf(op, data)
  BY <1>1 DEF Content, ContentOf
<1>4. Content' = ContentOf(op', data')
  BY <1>2 DEF Content, ContentOf
<1> QED
  BY <1>3, <1>4

\* At most one thread works on a file.
Alone(ops) ==
    \A a, b \in Actors :
        /\ ops[a].pc \in Transforming
        /\ ops[b].pc \in Transforming
        /\ ops[a].file = ops[b].file
        => a = b

LEMMA ContentAt ==
    ASSUME NEW ops, NEW c, Alone(ops), NEW a \in Actors, NEW f \in Files,
           ops[a].pc \in Working, ops[a].file = f
    PROVE  ContentOf(ops, c)[f] = ops[a].before
<1> DEFINE W(b) == ops[b].pc \in Working /\ ops[b].file = f
<1>1. \A b \in Actors : W(b) => b = a
  BY DEF Alone, Working, Transforming
<1>2. W(a)
  OBVIOUS
<1> HIDE DEF W
<1>3. (CHOOSE b \in Actors : W(b)) = a
  BY <1>1, <1>2
<1>4. ContentOf(ops, c)[f] = ops[CHOOSE b \in Actors : W(b)].before
  BY <1>2 DEF ContentOf, W
<1> QED
  BY <1>3, <1>4

LEMMA ContentFree ==
    ASSUME NEW ops, NEW c, NEW f \in Files,
           \A a \in Actors : ~ (ops[a].pc \in Working /\ ops[a].file = f)
    PROVE  ContentOf(ops, c)[f] = c[f]
BY DEF ContentOf

LEMMA BothAlone == (IInv => Alone(op)) /\ (IInv' => Alone(op'))
BY DEF IInv, Exclusive, Alone

LEMMA ContentDomain ==
    ASSUME NEW ops, NEW c
    PROVE  ContentOf(ops, c) = [f \in Files |-> ContentOf(ops, c)[f]]
BY DEF ContentOf

\* A file that the moving thread has not open keeps its content if its blocks do not change.
LEMMA ContentElsewhere ==
    ASSUME IInv, IInv', NEW a \in Actors, \A b \in Actors \ {a} : op'[b] = op[b],
           NEW f \in Files, ~ (op[a].pc \in Working /\ op[a].file = f),
           ~ (op'[a].pc \in Working /\ op'[a].file = f), data'[f] = data[f]
    PROVE  ContentOf(op', data')[f] = ContentOf(op, data)[f]
<1>1. CASE \E b \in Actors : op[b].pc \in Working /\ op[b].file = f
  <2>1. PICK b \in Actors : op[b].pc \in Working /\ op[b].file = f
    BY <1>1
  <2>2. op'[b] = op[b]
    BY <2>1
  <2>3. ContentOf(op, data)[f] = op[b].before
    BY <2>1, BothAlone, ContentAt
  <2>4. ContentOf(op', data')[f] = op'[b].before
    BY <2>1, <2>2, BothAlone, ContentAt
  <2> QED
    BY <2>2, <2>3, <2>4
<1>2. CASE \A b \in Actors : ~ (op[b].pc \in Working /\ op[b].file = f)
  <2>1. \A b \in Actors : ~ (op'[b].pc \in Working /\ op'[b].file = f)
    BY <1>2
  <2>2. ContentOf(op, data)[f] = data[f]
    BY <1>2, ContentFree
  <2>3. ContentOf(op', data')[f] = data'[f]
    BY <2>1, ContentFree
  <2> QED
    BY <2>2, <2>3
<1> QED
  BY <1>1, <1>2

\* The content of a file while a thread has it open, before and after its step.
LEMMA ContentHere ==
    ASSUME NEW ops, NEW c, Alone(ops), NEW a \in Actors, NEW f \in Files,
           ops[a].pc \in Transforming, ops[a].file = f
    PROVE  ContentOf(ops, c)[f] = IF ops[a].pc \in Working THEN ops[a].before ELSE c[f]
<1>1. CASE ops[a].pc \in Working
  BY <1>1, ContentAt
<1>2. CASE ops[a].pc \notin Working
  <2>1. \A b \in Actors : ~ (ops[b].pc \in Working /\ ops[b].file = f)
    BY <1>2 DEF Alone, Working, Transforming
  <2> QED
    BY <1>2, <2>1, ContentFree
<1> QED
  BY <1>1, <1>2

\* Content is a content of files.
LEMMA ContentType ==
    ASSUME IInv, SealInv
    PROVE  ContentOf(op, data) \in [Files -> Contents]
<1> SUFFICES ASSUME NEW f \in Files PROVE ContentOf(op, data)[f] \in Contents
  BY ContentDomain
<1>1. ASSUME NEW a \in Actors, op[a].pc \in Working PROVE op[a].before \in Contents
  BY <1>1, ThreadFacts DEF Working, OpSound, InPlace, SealInv, ThreadSeals
<1>2. CASE \E a \in Actors : op[a].pc \in Working /\ op[a].file = f
  BY <1>1, <1>2, ContentAt, BothAlone
<1>3. CASE \A a \in Actors : ~ (op[a].pc \in Working /\ op[a].file = f)
  BY <1>3, ContentFree, VolumeFacts
<1> QED
  BY <1>2, <1>3

-----------------------------------------------------------------------------
(* What the store's own operators are *)

LEMMA StoreNames ==
    /\ Store!Blocks = Blocks /\ Store!Contents = Contents
    /\ \A c, s : Store!XorAll(c, s) = XorAll(c, s)
    /\ \A s, c, d : Store!Hmac(s, c, d) = Hmac(s, c, d)
    /\ Store!PlainContent(Foreign) = PlainContent(Foreign) /\ Store!Foreign = Foreign
    /\ Store!vars = <<dir, Content, issued>>
BY DEF Store!Blocks, Blocks, Store!Contents, Contents, Store!BlockValues, BlockValues,
       Store!Seeds, Seeds, Store!Foreign, Foreign, Store!XorAll, XorAll, Store!Xor, Xor,
       Store!Hmac, Hmac, Store!PlainContent, PlainContent, Store!vars

LEMMA OwnSeed ==
    ASSUME IInv, KeepInv, NEW a \in Actors, op[a].pc \in Transforming
    PROVE  op[a].seed \in Store!SeedsOf(op[a].file)
<1>1. op[a].seed \in Seeds /\ op[a].seed.name = op[a].name /\ dir[op[a].name] = op[a].file
  BY ThreadFacts, TransformingFacts DEF KeepInv, ThreadKeeps
<1> QED
  BY <1>1 DEF Store!SeedsOf, Store!Seeds, Seeds

\* A file under transformation is its content, toggled up to some block.
TornFrom(d, c, f) ==
    d = c \/ \E s \in Store!SeedsOf(f), p \in Store!Blocks : d = Store!Torn(c, s, p)

LEMMA TornFile ==
    ASSUME IInv, SealInv, KeepInv, NEW a \in Actors, op[a].pc \in Working
    PROVE  TornFrom(data[op[a].file], op[a].before, op[a].file)
<1> DEFINE f == op[a].file
           c == op[a].before
           s == op[a].seed
<1>1. op[a].pc \in Transforming /\ f \in Files /\ data[f] \in Contents /\ s \in Store!SeedsOf(f)
  BY ThreadFacts, OwnSeed DEF Working, Transforming
<1>2. c \in Contents
  BY ThreadFacts DEF Working, OpSound, InPlace, SealInv, ThreadSeals
<1>3. ASSUME NEW q \in 0..N,
             \A i \in Blocks : data[f][i] = IF i <= q THEN Xor(c[i], s) ELSE c[i]
      PROVE  TornFrom(data[f], c, f)
  <2>1. CASE q = 0
    <3>1. \A i \in Blocks : data[f][i] = c[i]
      BY <1>3, <2>1, LengthAssumption DEF Blocks
    <3> QED
      BY <1>1, <1>2, <3>1 DEF TornFrom, Contents
  <2>2. CASE q # 0
    <3>1. q \in Store!Blocks
      BY <2>2, LengthAssumption DEF Store!Blocks
    <3>2. data[f] = Store!Torn(c, s, q)
      BY <1>1, <1>3 DEF Store!Torn, Store!Blocks, Blocks, Contents, Store!Xor, Xor
    <3> QED
      BY <1>1, <3>1, <3>2 DEF TornFrom
  <2> QED
    BY <2>1, <2>2
<1>4. CASE op[a].pc \in {"encrypt", "decrypt"}
  <2>1. op[a].pos - 1 \in 0..N /\ \A i \in Blocks : i < op[a].pos <=> i <= op[a].pos - 1
    BY ThreadFacts, LengthAssumption DEF Blocks
  <2>2. \A i \in Blocks : data[f][i] = IF i < op[a].pos THEN Xor(c[i], s) ELSE c[i]
    BY <1>4, ThreadFacts DEF OpSound, InPlace
  <2> QED
    BY <1>3, <2>1, <2>2
<1>5. CASE op[a].pc \in {"tag", "tagwrite"}
  <2>1. data[f] = XorAll(c, s)
    BY <1>5 DEF SealInv, ThreadSeals
  <2>2. \A i \in Blocks : data[f][i] = Xor(c[i], s) /\ i <= N
    BY <1>2, <2>1, LengthAssumption DEF XorAll, Contents, Blocks
  <2>3. N \in 0..N
    BY LengthAssumption
  <2> QED
    BY <1>3, <2>2, <2>3
<1> QED
  BY <1>4, <1>5 DEF Working

-----------------------------------------------------------------------------
(* Every step is a step of the store, or none *)

StoreStep == Store!Next \/ UNCHANGED <<dir, Content, issued>>

\* A step of one thread that has file f open, before or afterwards.
LEMMA StoreThread ==
    ASSUME IInv, IInv', NEW a \in Actors, \A b \in Actors \ {a} : op'[b] = op[b],
           NEW f \in Files, op[a].pc \in Transforming => op[a].file = f,
           op'[a].pc \in Transforming => op'[a].file = f,
           \A g \in Files \ {f} : data'[g] = data[g]
    PROVE  Content' = [Content EXCEPT ![f] = Content'[f]]
<1>1. ASSUME NEW g \in Files \ {f} PROVE ContentOf(op', data')[g] = ContentOf(op, data)[g]
  BY ContentElsewhere DEF Working, Transforming
<1>2. \A g \in Files \ {f} : Content'[g] = Content[g]
  BY <1>1, ContentIs
<1>3. Content = [g \in Files |-> Content[g]] /\ Content' = [g \in Files |-> Content'[g]]
  BY ContentIs, ContentDomain
<1> QED
  BY <1>2, <1>3

\* The same when the content of that file stays, too.
LEMMA StoreStays ==
    ASSUME IInv, IInv', NEW a \in Actors, \A b \in Actors \ {a} : op'[b] = op[b],
           NEW f \in Files, op[a].pc \in Transforming => op[a].file = f,
           op'[a].pc \in Transforming => op'[a].file = f,
           \A g \in Files \ {f} : data'[g] = data[g], Content'[f] = Content[f]
    PROVE  Content' = Content
<1>1. Content' = [Content EXCEPT ![f] = Content'[f]]
  BY StoreThread
<1>2. Content = [g \in Files |-> Content[g]]
  BY ContentIs, ContentDomain
<1> QED
  BY <1>1, <1>2

\* A thread that is outside TransformFile before and after its step.
LEMMA StoreOutside ==
    ASSUME \A b \in Actors : \/ op'[b] = op[b]
                             \/ op[b].pc \notin Working /\ op'[b].pc \notin Working,
           data' = data
    PROVE  Content' = Content
<1>1. \A f : \A b \in Actors : op'[b].pc \in Working /\ op'[b].file = f
                                 <=> op[b].pc \in Working /\ op[b].file = f
  OBVIOUS
<1>2. \A b \in Actors : op[b].pc \in Working => op'[b].before = op[b].before
  OBVIOUS
<1>3. ASSUME NEW f \in Files PROVE ContentOf(op', data')[f] = ContentOf(op, data)[f]
  <2> DEFINE W(b) == op[b].pc \in Working /\ op[b].file = f
             V(b) == op'[b].pc \in Working /\ op'[b].file = f
  <2>1. \A b \in Actors : W(b) <=> V(b)
    BY <1>1
  <2>2. (\E b \in Actors : W(b)) =>
            W(CHOOSE b \in Actors : W(b)) /\ (CHOOSE b \in Actors : W(b)) \in Actors
    <3> HIDE DEF W, V
    <3> QED
      OBVIOUS
  <2>3. (CHOOSE b \in Actors : W(b)) = (CHOOSE b \in Actors : V(b))
    <3> HIDE DEF W, V
    <3> QED
      BY <2>1
  <2>4. ContentOf(op, data)[f] =
            IF \E b \in Actors : W(b) THEN op[CHOOSE b \in Actors : W(b)].before ELSE data[f]
    BY DEF ContentOf
  <2>5. ContentOf(op', data')[f] =
            IF \E b \in Actors : V(b) THEN op'[CHOOSE b \in Actors : V(b)].before ELSE data'[f]
    BY DEF ContentOf
  <2> QED
    BY <1>2, <2>1, <2>2, <2>3, <2>4, <2>5
<1> QED
  BY <1>3, ContentIs, ContentDomain

\* A file of which an operation is given up is torn, or as it was found.
LEMMA StoreTear ==
    ASSUME IInv, IInv', SealInv, SealInv', Faults # {}, UNCHANGED <<dir, issued>>,
           \A f \in Files : TornFrom(Content'[f], Content[f], f)
    PROVE  StoreStep
<1>1. ContentOf(op', data') \in [Files -> Contents]
  <2> SUFFICES ASSUME NEW f \in Files PROVE ContentOf(op', data')[f] \in Contents
    BY ContentDomain
  <2>1. ASSUME NEW a \in Actors, op'[a].pc \in Working PROVE op'[a].before \in Contents
    BY <2>1 DEF IInv, Working, OpSound, InPlace, SealInv, ThreadSeals
  <2>2. CASE \E a \in Actors : op'[a].pc \in Working /\ op'[a].file = f
    BY <2>1, <2>2, ContentAt, BothAlone
  <2>3. CASE \A a \in Actors : ~ (op'[a].pc \in Working /\ op'[a].file = f)
    <3>1. data'[f] \in Contents
      BY DEF IInv, TypeOK, VolumeTypeOK
    <3> QED
      BY <2>3, <3>1, ContentFree
  <2> QED
    BY <2>2, <2>3
<1>2. Content' \in [Files -> Store!Contents]
  BY <1>1, ContentIs, StoreNames
<1>3. \A f \in Files :
          \/ Content'[f] = Content[f]
          \/ \E s \in Store!SeedsOf(f), p \in Store!Blocks :
                Content'[f] = Store!Torn(Content[f], s, p)
  BY DEF TornFrom
<1>4. Store!Tear
  BY <1>2, <1>3 DEF Store!Tear
<1> QED
  BY <1>4 DEF StoreStep, Store!Next

LEMMA StoreOpen ==
    ASSUME IInv, IInv', NEW a \in Actors, NEW n \in Names, Open(a, n)
    PROVE  StoreStep
<1>1. PICK serial \in BOOLEAN :
          op' = [op EXCEPT ![a] = [Idle EXCEPT !.pc = "open", !.name = n,
                    !.file = dir[n], !.seed = SeedForPath(n, serial)]]
  BY DEF Open
<1>2. op'[a].pc = "open" /\ op[a].pc = "idle" /\ \A b \in Actors \ {a} : op'[b] = op[b]
  BY <1>1, VolumeFacts DEF Open, Idle
<1>3. UNCHANGED <<dir, data, issued>>
  BY DEF Open, disk
<1>4. \A b \in Actors : op'[b] = op[b] \/ (op[b].pc \notin Working /\ op'[b].pc \notin Working)
  BY <1>2 DEF Working
<1> QED
  BY <1>3, <1>4, StoreOutside DEF StoreStep

\* A thread that leaves an operation that has not begun to transform.
LEMMA StoreReturn ==
    ASSUME IInv, NEW a \in Actors, op' = [op EXCEPT ![a] = Idle], op[a].pc \notin Working,
           UNCHANGED <<dir, data, issued>>
    PROVE  StoreStep
<1>1. op'[a] = Idle /\ \A b \in Actors \ {a} : op'[b] = op[b]
  BY VolumeFacts
<1>2. Idle.pc \notin Working
  BY DEF Idle, Working
<1>3. \A b \in Actors : op'[b] = op[b] \/ (op[b].pc \notin Working /\ op'[b].pc \notin Working)
  BY <1>1, <1>2
<1> QED
  BY <1>3, StoreOutside DEF StoreStep

\* A thread that goes on: the file counts as what the operation found.
LEMMA StoreAdvance ==
    ASSUME IInv, IInv', NEW a \in Actors, op[a].pc \in Transforming,
           op' = [op EXCEPT ![a] = op'[a]], op'[a].pc \in Transforming,
           op'[a].file = op[a].file,
           IF op[a].pc \in Working
           THEN op'[a].pc \in Working /\ op'[a].before = op[a].before
           ELSE op'[a].pc \in Working => op'[a].before = data[op[a].file],
           op[a].pc \notin Working => data' = data,
           \A g \in Files \ {op[a].file} : data'[g] = data[g],
           UNCHANGED <<dir, issued>>
    PROVE  StoreStep
<1> DEFINE f == op[a].file
<1>1. f \in Files /\ \A b \in Actors \ {a} : op'[b] = op[b]
  BY TransformingFacts, VolumeFacts
<1>2. ContentOf(op, data)[f] = IF op[a].pc \in Working THEN op[a].before ELSE data[f]
  BY <1>1, BothAlone, ContentHere
<1>3. ContentOf(op', data')[f] = IF op'[a].pc \in Working THEN op'[a].before ELSE data'[f]
  BY <1>1, BothAlone, ContentHere
<1>4. Content'[f] = Content[f]
  BY <1>2, <1>3, ContentIs
<1>5. Content' = Content
  BY <1>1, <1>4, StoreStays
<1> QED
  BY <1>5 DEF StoreStep

\* A file that nobody works on any more.
LEMMA ContentGone ==
    ASSUME NEW f \in Files, \A a \in Actors : ~ (op'[a].pc \in Working /\ op'[a].file = f)
    PROVE  Content'[f] = data'[f]
<1>1. ContentOf(op', data')[f] = data'[f]
  BY ContentFree
<1> QED
  BY <1>1, ContentIs

\* A thread that gives its operation up.
LEMMA StoreGiveUp ==
    ASSUME IInv, IInv', SealInv, SealInv', Faults # {}, NEW a \in Actors, op[a].pc \in Working,
           op' = [op EXCEPT ![a] = Idle], \A g \in Files \ {op[a].file} : data'[g] = data[g],
           UNCHANGED <<dir, issued>>,
           TornFrom(data'[op[a].file], op[a].before, op[a].file)
    PROVE  StoreStep
<1> DEFINE f == op[a].file
<1>1. op'[a] = Idle /\ \A b \in Actors \ {a} : op'[b] = op[b]
  BY VolumeFacts
<1>2. op[a].pc \in Transforming /\ op'[a].pc \notin Transforming /\ f \in Files
  BY <1>1, TransformingFacts DEF Idle, Working, Transforming
<1>3. ContentOf(op, data)[f] = op[a].before
  BY <1>2, BothAlone, ContentAt
<1>4. \A b \in Actors : ~ (op'[b].pc \in Working /\ op'[b].file = f)
  BY <1>1, <1>2, OthersElsewhere DEF Working, Transforming
<1>5. Content'[f] = data'[f]
  BY <1>2, <1>4, ContentGone
<1>6. Content' = [Content EXCEPT ![f] = Content'[f]]
  BY <1>1, <1>2, StoreThread
<1>7. Content = [g \in Files |-> Content[g]]
  BY ContentIs, ContentDomain
<1>8. \A g \in Files \ {f} : Content'[g] = Content[g]
  BY <1>6, <1>7
<1>9. TornFrom(Content'[f], Content[f], f)
  BY <1>3, <1>5, ContentIs
<1>10. \A g \in Files : TornFrom(Content'[g], Content[g], g)
  BY <1>8, <1>9 DEF TornFrom
<1> QED
  BY <1>10, StoreTear

LEMMA StoreReadTag ==
    ASSUME IInv, IInv', NEW a \in Actors, ReadTag(a)
    PROVE  StoreStep
<1>1. op[a].pc = "open" /\ UNCHANGED <<dir, data, issued>>
  BY DEF ReadTag, disk
<1>2. CASE Return(a, "fail")
  BY <1>1, <1>2, StoreReturn DEF Return, Working
<1>3. CASE op' = [op EXCEPT ![a].pc = "verify", ![a].place = TagPlace(op[a].name),
                            ![a].stored = FoundTag(op[a].name)]
  <2>1. /\ op'[a].pc = "verify" /\ op'[a].file = op[a].file
        /\ op' = [op EXCEPT ![a] = op'[a]]
    BY <1>3, VolumeFacts, ThreadFacts DEF OpType
  <2> QED
    BY <1>1, <2>1, StoreAdvance DEF Working, Transforming
<1>4. CASE op' = [op EXCEPT ![a].pc = "encrypt", ![a].place = TagPlace(op[a].name),
                            ![a].before = data[op[a].file]]
  <2>1. /\ op'[a].pc = "encrypt" /\ op'[a].file = op[a].file
        /\ op'[a].before = data[op[a].file] /\ op' = [op EXCEPT ![a] = op'[a]]
    BY <1>4, VolumeFacts, ThreadFacts DEF OpType
  <2> QED
    BY <1>1, <2>1, StoreAdvance DEF Working, Transforming
<1> QED
  BY <1>2, <1>3, <1>4 DEF ReadTag

LEMMA StoreVerify ==
    ASSUME IInv, IInv', NEW a \in Actors, Verify(a)
    PROVE  StoreStep
<1>1. op[a].pc = "verify" /\ UNCHANGED <<dir, data, issued>>
  BY DEF Verify, disk
<1>2. CASE Return(a, "fail")
  BY <1>1, <1>2, StoreReturn DEF Return, Working
<1>3. CASE op' = [op EXCEPT ![a].pc = "decrypt", ![a].before = data[op[a].file]]
  <2>1. /\ op'[a].pc = "decrypt" /\ op'[a].file = op[a].file
        /\ op'[a].before = data[op[a].file] /\ op' = [op EXCEPT ![a] = op'[a]]
    BY <1>3, VolumeFacts, ThreadFacts DEF OpType
  <2> QED
    BY <1>1, <2>1, StoreAdvance DEF Working, Transforming
<1> QED
  BY <1>2, <1>3 DEF Verify

LEMMA StoreXorBlock ==
    ASSUME IInv, IInv', NEW a \in Actors, XorBlock(a)
    PROVE  StoreStep
<1>1. /\ op[a].pc \in {"encrypt", "decrypt"} /\ op[a].pos <= N /\ UNCHANGED <<dir, issued>>
      /\ op' = [op EXCEPT ![a].pos = @ + 1]
      /\ data' = [data EXCEPT ![op[a].file][op[a].pos] = Xor(@, op[a].seed)]
  BY DEF XorBlock
<1>2. /\ op'[a].pc = op[a].pc /\ op'[a].file = op[a].file /\ op'[a].before = op[a].before
      /\ op' = [op EXCEPT ![a] = op'[a]]
  BY <1>1, VolumeFacts, ThreadFacts DEF OpType
<1>3. \A g \in Files \ {op[a].file} : data'[g] = data[g]
  BY <1>1, XorData
<1>4. op[a].pc \in Working /\ op[a].pc \in Transforming
  BY <1>1 DEF Working, Transforming
<1> QED
  BY <1>1, <1>2, <1>3, <1>4, StoreAdvance

LEMMA StoreXorBlockFails ==
    ASSUME IInv, IInv', SealInv, SealInv', KeepInv, NEW a \in Actors, XorBlockFails(a)
    PROVE  StoreStep
<1> DEFINE f == op[a].file
           c == op[a].before
           s == op[a].seed
<1>1. /\ op[a].pc \in {"encrypt", "decrypt"} /\ op[a].pos <= N /\ UNCHANGED <<dir, issued>>
      /\ op' = [op EXCEPT ![a] = Idle] /\ Faults # {}
      /\ \/ data' = data
         \/ data' = [data EXCEPT ![f][op[a].pos] = Xor(@, s)]
  BY DEF XorBlockFails, Return, Fault
<1>2. /\ op[a].pc \in Working /\ op[a].pc \in Transforming
      /\ \A g \in Files \ {f} : data'[g] = data[g]
  BY <1>1, XorData DEF Working, Transforming
<1>3. CASE data' = data
  BY <1>1, <1>2, <1>3, TornFile, StoreGiveUp
<1>4. CASE data' = [data EXCEPT ![f][op[a].pos] = Xor(@, s)]
  <2>1. /\ f \in Files /\ data[f] \in Contents /\ c \in Contents /\ op[a].pos \in Blocks
        /\ s \in Store!SeedsOf(f)
    BY <1>1, <1>2, ThreadFacts, OwnSeed DEF OpSound, InPlace, Blocks
  <2>2. \A i \in Blocks : data[f][i] = IF i < op[a].pos THEN Xor(c[i], s) ELSE c[i]
    BY <1>1, ThreadFacts DEF OpSound, InPlace
  <2>3. data'[f] = [data[f] EXCEPT ![op[a].pos] = Xor(@, s)]
    BY <1>4, <2>1, VolumeFacts
  <2>4. \A i \in Blocks :
            data'[f][i] = IF i < op[a].pos \/ i = op[a].pos THEN Xor(c[i], s) ELSE c[i]
    <3> SUFFICES ASSUME NEW i \in Blocks
                 PROVE  data'[f][i] = IF i < op[a].pos \/ i = op[a].pos THEN Xor(c[i], s)
                                                                        ELSE c[i]
      OBVIOUS
    <3>1. CASE i = op[a].pos
      <4>1. ~ (i < op[a].pos)
        BY <2>1, <3>1 DEF Blocks
      <4>2. data'[f][i] = Xor(data[f][i], s)
        BY <2>1, <2>3, <3>1 DEF Contents
      <4> QED
        BY <2>2, <3>1, <4>1, <4>2
    <3>2. CASE i # op[a].pos
      <4>1. data'[f][i] = data[f][i]
        BY <2>1, <2>3, <3>2 DEF Contents
      <4> QED
        BY <2>2, <3>2, <4>1
    <3> QED
      BY <3>1, <3>2
  <2>5. \A i \in Blocks : i < op[a].pos \/ i = op[a].pos <=> i <= op[a].pos
    BY <2>1 DEF Blocks
  <2>6. data'[f] = Store!Torn(c, s, op[a].pos)
    BY <2>1, <2>3, <2>4, <2>5 DEF Store!Torn, Store!Blocks, Blocks, Contents, Store!Xor, Xor
  <2>7. TornFrom(data'[f], c, f)
    BY <2>1, <2>6, StoreNames DEF TornFrom
  <2> QED
    BY <1>1, <1>2, <2>7, StoreGiveUp
<1> QED
  BY <1>1, <1>3, <1>4

LEMMA StoreComputeTag ==
    ASSUME IInv, IInv', "mac" \notin Faults, NEW a \in Actors, ComputeTag(a)
    PROVE  StoreStep
<1>1. op[a].pc = "encrypt" /\ UNCHANGED <<dir, data, issued>>
  BY DEF ComputeTag, disk
<1>2. PICK t : op' = [op EXCEPT ![a].pc = "tag", ![a].stored = t]
  BY DEF ComputeTag, Fault
<1>3. /\ op'[a].pc = "tag" /\ op'[a].file = op[a].file /\ op'[a].before = op[a].before
      /\ op' = [op EXCEPT ![a] = op'[a]]
  BY <1>2, VolumeFacts, ThreadFacts DEF OpType
<1>4. /\ op[a].pc \in Working /\ op[a].pc \in Transforming
      /\ op'[a].pc \in Working /\ op'[a].pc \in Transforming
  BY <1>1, <1>3 DEF Working, Transforming
<1> QED
  BY <1>1, <1>3, <1>4, StoreAdvance

LEMMA StoreCreateTag ==
    ASSUME IInv, IInv', SealInv, SealInv', KeepInv, NEW a \in Actors, CreateTag(a)
    PROVE  StoreStep
<1>1. op[a].pc = "tag" /\ UNCHANGED <<dir, data, issued>>
  BY DEF CreateTag
<1>2. op[a].pc \in Working /\ op[a].pc \in Transforming
  BY <1>1 DEF Working, Transforming
<1>3. ~ TagHeld(a)
  BY <1>1, TagFree
<1>4. CASE op' = [op EXCEPT ![a].pc = "tagwrite"]
  <2>1. /\ op'[a].pc = "tagwrite" /\ op'[a].file = op[a].file /\ op'[a].before = op[a].before
        /\ op' = [op EXCEPT ![a] = op'[a]]
    BY <1>4, VolumeFacts, ThreadFacts DEF OpType
  <2>2. op'[a].pc \in Working /\ op'[a].pc \in Transforming
    BY <2>1 DEF Working, Transforming
  <2> QED
    BY <1>1, <1>2, <2>1, <2>2, StoreAdvance
<1>5. CASE Fault("tag") /\ Return(a, "fail")
  <2>1. Faults # {} /\ op' = [op EXCEPT ![a] = Idle]
    BY <1>5 DEF Fault, Return
  <2> QED
    BY <1>1, <1>2, <2>1, TornFile, StoreGiveUp
<1> QED
  BY <1>3, <1>4, <1>5 DEF CreateTag

\* A thread that ends its operation: its file counts as what it is, the others as before.
LEMMA StoreEnds ==
    ASSUME IInv, IInv', NEW a \in Actors, op[a].pc \in Working, op' = [op EXCEPT ![a] = Idle],
           data' = data, NEW f, f = op[a].file
    PROVE  /\ f \in Files /\ Content[f] = op[a].before
           /\ Content' = [Content EXCEPT ![f] = data[f]]
<1>1. op'[a] = Idle /\ \A b \in Actors \ {a} : op'[b] = op[b]
  BY VolumeFacts
<1>2. op[a].pc \in Transforming /\ op'[a].pc \notin Transforming /\ f \in Files
  BY <1>1, TransformingFacts DEF Idle, Working, Transforming
<1>3. ContentOf(op, data)[f] = op[a].before
  BY <1>2, BothAlone, ContentAt
<1>4. \A b \in Actors : ~ (op'[b].pc \in Working /\ op'[b].file = f)
  BY <1>1, <1>2, OthersElsewhere DEF Working, Transforming
<1>5. Content'[f] = data'[f]
  BY <1>2, <1>4, ContentGone
<1>6. Content' = [Content EXCEPT ![f] = Content'[f]]
  BY <1>1, <1>2, StoreThread
<1> QED
  BY <1>2, <1>3, <1>5, <1>6, ContentIs

LEMMA StoreWriteTag ==
    ASSUME IInv, IInv', SealInv, SealInv', KeepInv, NEW a \in Actors, WriteTag(a)
    PROVE  StoreStep
<1>1. /\ op[a].pc = "tagwrite" /\ UNCHANGED <<dir, data>> /\ op' = [op EXCEPT ![a] = Idle]
      /\ \/ issued' = issued \cup {op[a].stored}
         \/ Faults # {} /\ UNCHANGED issued
  BY DEF WriteTag, Return, Fault
<1>2. op[a].pc \in Working /\ op[a].pc \in Transforming
  BY <1>1 DEF Working, Transforming
<1>3. CASE Faults # {} /\ UNCHANGED issued
  BY <1>1, <1>2, <1>3, TornFile, StoreGiveUp
<1>4. CASE issued' = issued \cup {op[a].stored}
  <2>1. PICK f : f = op[a].file
    OBVIOUS
  <2>2. PICK s : s = op[a].seed
    OBVIOUS
  <2>3. /\ f \in Files /\ Content[f] = op[a].before
        /\ Content' = [Content EXCEPT ![f] = data[f]]
    BY <1>1, <1>2, <2>1, StoreEnds
  <2>4. data[f] = XorAll(Content[f], s) /\ op[a].stored = Hmac(s, data[f], Content[f])
    BY <1>1, <2>1, <2>2, <2>3 DEF SealInv, ThreadSeals
  <2>5. Content = [g \in Files |-> Content[g]]
    BY ContentIs, ContentDomain
  <2>6. Content'[f] = data[f]
    BY <2>3, <2>5
  <2>7. s \in Store!SeedsOf(f)
    BY <1>2, <2>1, <2>2, OwnSeed
  <2>8. Content' = [Content EXCEPT ![f] = Store!XorAll(@, s)]
    BY <2>3, <2>4, StoreNames
  <2>9. issued' = issued \cup {Store!Hmac(s, Content'[f], Content[f])}
    BY <1>4, <2>4, <2>6, StoreNames
  <2>10. Store!Seal(f)
    BY <1>1, <2>7, <2>8, <2>9 DEF Store!Seal
  <2> QED
    BY <2>3, <2>10 DEF StoreStep, Store!Next
<1> QED
  BY <1>1, <1>3, <1>4

LEMMA StoreDeleteTag ==
    ASSUME IInv, IInv', WholeTags, SealInv, KeepInv, NEW a \in Actors, DeleteTag(a)
    PROVE  StoreStep
<1>1. /\ op[a].pc = "decrypt" /\ op[a].pos = N + 1 /\ UNCHANGED <<dir, data, issued>>
      /\ op' = [op EXCEPT ![a] = Idle]
  BY DEF DeleteTag, Return
<1>2. op[a].pc \in Working /\ op[a].pc \in Transforming
  BY <1>1 DEF Working, Transforming
<1>3. PICK f : f = op[a].file
  OBVIOUS
<1>4. PICK t : t = op[a].stored
  OBVIOUS
<1>5. /\ f \in Files /\ Content[f] = op[a].before
      /\ Content' = [Content EXCEPT ![f] = data[f]]
  BY <1>1, <1>2, <1>3, StoreEnds
<1>6. data[f] = t.from
  BY <1>1, <1>3, <1>4, Restored
<1>7. t \in Hmacs /\ t.kind = "hmac" /\ t.seed = op[a].seed /\ DOMAIN t.over = Blocks
  BY <1>1, <1>4, ThreadFacts, TagKinds DEF OpSound, Checked, WholeTags, Whole
<1>8. op[a].before \in Contents /\ \A i \in Blocks : op[a].before[i] = t.over[i]
  BY <1>1, <1>4, <1>7, ThreadFacts DEF OpSound, Checked, InPlace
<1>9. t.over = Content[f]
  <2>1. t.over \in Seq(BlockValues)
    BY <1>7 DEF Hmacs
  <2>2. t.over = [i \in Blocks |-> t.over[i]]
    BY <1>7, <2>1
  <2> QED
    BY <1>5, <1>8, <2>2 DEF Contents
<1>10. t \in issued
  BY <1>1, <1>4, <1>7 DEF SealInv, ThreadSeals, Given
<1>11. t.seed \in Store!SeedsOf(f)
  BY <1>2, <1>3, <1>7, OwnSeed
<1>12. Store!Unseal(f)
  BY <1>1, <1>5, <1>6, <1>9, <1>10, <1>11 DEF Store!Unseal
<1> QED
  BY <1>5, <1>12 DEF StoreStep, Store!Next

LEMMA StoreTransform ==
    ASSUME IInv, IInv', WholeTags, SealInv, SealInv', KeepInv, "mac" \notin Faults,
           NEW a \in Actors, Transform(a)
    PROVE  StoreStep
<1>1. ASSUME NEW n \in Names, OpenFails(a, n) PROVE StoreStep
  <2>1. op[a].pc \notin Working /\ op' = [op EXCEPT ![a] = Idle] /\ UNCHANGED <<dir, data, issued>>
    BY <1>1 DEF OpenFails, Return, Working, disk
  <2> QED
    BY <2>1, StoreReturn
<1> QED
  BY <1>1, StoreOpen, StoreReadTag, StoreVerify, StoreXorBlock, StoreXorBlockFails,
     StoreDeleteTag, StoreComputeTag, StoreCreateTag, StoreWriteTag DEF Transform

\* The end of the process tears every file that is under transformation.
LEMMA StoreCrash ==
    ASSUME IInv, IInv', SealInv, SealInv', KeepInv, Crash
    PROVE  StoreStep
<1>1. Faults # {} /\ UNCHANGED <<dir, data, issued>> /\ \A a \in Actors : op'[a] = Idle
  BY DEF Crash, Fault, disk
<1>2. ASSUME NEW f \in Files PROVE TornFrom(Content'[f], Content[f], f)
  <2>1. \A a \in Actors : ~ (op'[a].pc \in Working /\ op'[a].file = f)
    BY <1>1 DEF Idle, Working
  <2>2. Content'[f] = data[f]
    BY <1>1, <2>1, ContentGone
  <2>3. CASE \E a \in Actors : op[a].pc \in Working /\ op[a].file = f
    <3>1. PICK a \in Actors : op[a].pc \in Working /\ op[a].file = f
      BY <2>3
    <3>2. ContentOf(op, data)[f] = op[a].before
      BY <3>1, BothAlone, ContentAt
    <3> QED
      BY <2>2, <3>1, <3>2, TornFile, ContentIs
  <2>4. CASE \A a \in Actors : ~ (op[a].pc \in Working /\ op[a].file = f)
    <3>1. ContentOf(op, data)[f] = data[f]
      BY <2>4, ContentFree
    <3> QED
      BY <2>2, <3>1, ContentIs DEF TornFrom
  <2> QED
    BY <2>3, <2>4
<1> QED
  BY <1>1, <1>2, StoreTear

\* Another program changes a file that is not open.
LEMMA StoreForeign ==
    ASSUME IInv, op' = op, NEW f \in Files, ~ IsOpen(f), NEW c, data' = [data EXCEPT ![f] = c]
    PROVE  Content[f] = data[f] /\ Content' = [Content EXCEPT ![f] = c]
<1>1. \A b \in Actors : ~ (op[b].pc \in Working /\ op[b].file = f)
  BY DEF IsOpen, HasOpen, Working, Transforming
<1>2. ContentOf(op, data)[f] = data[f]
  BY <1>1, ContentFree
<1>3. data'[f] = c /\ \A g \in Files \ {f} : data'[g] = data[g]
  BY VolumeFacts
<1>4. Content'[f] = data'[f]
  <2>1. \A b \in Actors : ~ (op'[b].pc \in Working /\ op'[b].file = f)
    BY <1>1
  <2> QED
    BY <2>1, ContentGone
<1>5. \A g \in Files \ {f} : ContentOf(op, data')[g] = ContentOf(op, data)[g]
  BY <1>3 DEF ContentOf
<1>6. Content = [g \in Files |-> ContentOf(op, data)[g]]
  BY ContentIs, ContentDomain
<1>7. Content' = [g \in Files |-> ContentOf(op, data')[g]]
  BY ContentIs, ContentDomain
<1> QED
  BY <1>2, <1>3, <1>4, <1>5, <1>6, <1>7

LEMMA StoreEnvironment ==
    ASSUME IInv, IInv', SealInv, SealInv', KeepInv, Environment
    PROVE  StoreStep
<1>1. ASSUME NEW n \in Names, NEW i \in Blocks, ForeignWrite(n, i) PROVE StoreStep
  <2>1. PICK f : f = dir[n]
    OBVIOUS
  <2> DEFINE c == [data[f] EXCEPT ![i] = [base |-> Foreign, keys |-> {}]]
  <2>2. /\ f \in Files /\ ~ IsOpen(f) /\ op' = op /\ UNCHANGED <<dir, issued>>
    BY <1>1, <2>1, VolumeFacts DEF ForeignWrite
  <2>3. data' = [data EXCEPT ![f] = c]
    BY <1>1, <2>1 DEF ForeignWrite
  <2>4. Content[f] = data[f] /\ Content' = [Content EXCEPT ![f] = c]
    BY <2>2, <2>3, StoreForeign
  <2>5. Store!ForeignWrite(f, i)
    BY <2>2, <2>4, StoreNames DEF Store!ForeignWrite
  <2> QED
    BY <2>2, <2>5, StoreNames DEF StoreStep, Store!Next
<1>2. ASSUME NEW n \in Names, ForeignDelete(n) PROVE StoreStep
  <2>1. dir' = [dir EXCEPT ![n] = NoFile] /\ UNCHANGED <<data, op, issued>>
    BY <1>2 DEF ForeignDelete
  <2>2. Content' = Content
    BY <2>1, StoreOutside
  <2> QED
    BY <2>1, <2>2 DEF StoreStep, Store!Next, Store!Delete
<1>3. ASSUME NEW n \in Names, NEW f \in Files, ForeignCreate(n, f) PROVE StoreStep
  <2>1. /\ dir[n] = NoFile /\ dir' = [dir EXCEPT ![n] = f] /\ UNCHANGED <<op, issued>>
        /\ data' = [data EXCEPT ![f] = PlainContent(Foreign)]
    BY <1>3 DEF ForeignCreate
  <2>2. ~ IsOpen(f)
    BY <1>3, TransformingFacts DEF ForeignCreate, IsOpen, HasOpen
  <2>3. Content' = [Content EXCEPT ![f] = PlainContent(Foreign)]
    BY <2>1, <2>2, StoreForeign
  <2>4. Store!ForeignCreate(n, f)
    BY <2>1, <2>3, StoreNames DEF Store!ForeignCreate
  <2> QED
    BY <2>4 DEF StoreStep, Store!Next
<1> QED
  BY <1>1, <1>2, <1>3, StoreCrash DEF Environment

LEMMA StoreExplorer ==
    ASSUME IInv, IInv', WholeTags, SealInv, SealInv', KeepInv, "mac" \notin Faults,
           NEW a \in Actors, Explorer(a)
    PROVE  StoreStep
<1>1. ASSUME op[a].pc \notin Working, op'[a].pc \notin Working,
             \A b \in Actors \ {a} : op'[b] = op[b], UNCHANGED data
      PROVE  Content' = Content
  BY <1>1, StoreOutside
<1>2. ASSUME NEW n \in Names, AuditOpen(a, n) PROVE StoreStep
  <2>1. /\ op[a].pc = "idle" /\ op'[a].pc = "audit" /\ \A b \in Actors \ {a} : op'[b] = op[b]
        /\ UNCHANGED <<dir, data, issued>>
    BY <1>2, VolumeFacts DEF AuditOpen, Idle, disk
  <2> QED
    BY <1>1, <2>1 DEF StoreStep, Working
<1>3. ASSUME NEW n \in Names, DeleteSidecar(a, n) PROVE StoreStep
  <2>1. /\ op[a].pc = "idle" /\ op'[a].pc = "delete" /\ \A b \in Actors \ {a} : op'[b] = op[b]
        /\ UNCHANGED <<dir, data, issued>>
    BY <1>3, VolumeFacts DEF DeleteSidecar, Idle
  <2> QED
    BY <1>1, <2>1 DEF StoreStep, Working
<1>4. ASSUME AuditClose(a) PROVE StoreStep
  <2>1. op[a].pc = "audit" /\ op' = [op EXCEPT ![a] = Idle] /\ UNCHANGED <<dir, data, issued>>
    BY <1>4 DEF AuditClose, disk
  <2> QED
    BY <2>1, StoreReturn DEF Working
<1>5. ASSUME NEW m \in Names, NEW n \in Names, Rename(a, m, n) PROVE StoreStep
  <2>1. /\ dir[m] # NoFile /\ dir[n] = NoFile /\ dir' = [dir EXCEPT ![m] = NoFile, ![n] = dir[m]]
        /\ UNCHANGED <<data, op, issued>>
    BY <1>5 DEF Rename
  <2>2. Content' = Content
    BY <2>1, StoreOutside
  <2>3. Store!Rename(m, n)
    BY <2>1, <2>2 DEF Store!Rename
  <2> QED
    BY <2>3 DEF StoreStep, Store!Next
<1>6. ASSUME DeleteFile(a) PROVE StoreStep
  <2>1. /\ op[a].pc = "delete" /\ op' = [op EXCEPT ![a] = Idle] /\ UNCHANGED <<data, issued>>
        /\ dir' = dir \/ dir' = [dir EXCEPT ![op[a].name] = NoFile]
    BY <1>6 DEF DeleteFile
  <2>2. op[a].name \in Names
    BY <2>1, ThreadFacts DEF OpSound, HandleHolds
  <2>3. op'[a].pc = "idle" /\ \A b \in Actors \ {a} : op'[b] = op[b]
    BY <2>1, VolumeFacts DEF Idle
  <2>4. Content' = Content
    BY <1>1, <2>1, <2>3 DEF Working
  <2>5. CASE dir' = dir
    BY <2>1, <2>4, <2>5 DEF StoreStep
  <2>6. CASE dir' = [dir EXCEPT ![op[a].name] = NoFile]
    <3>1. PICK n \in Names : n = op[a].name
      BY <2>2
    <3>2. Store!Delete(n)
      BY <2>1, <2>4, <2>6, <3>1 DEF Store!Delete
    <3> QED
      BY <3>2 DEF StoreStep, Store!Next
  <2> QED
    BY <2>1, <2>5, <2>6
<1> QED
  BY <1>2, <1>3, <1>4, <1>5, <1>6, StoreTransform DEF Explorer

LEMMA StepStore ==
    ASSUME IInv, IInv', WholeTags, SealInv, SealInv', KeepInv, "mac" \notin Faults, [Next]_vars
    PROVE  [Store!Next]_(Store!vars)
<1>1. ASSUME UNCHANGED vars PROVE StoreStep
  <2>1. UNCHANGED <<dir, data, op, issued>>
    BY <1>1 DEF vars
  <2> QED
    BY <2>1, StoreOutside DEF StoreStep
<1>2. StoreStep
  BY <1>1, StoreExplorer, StoreEnvironment DEF Next
<1> QED
  BY <1>2 DEF StoreStep, Store!vars

LEMMA InitStore == Init => Store!Init
<1> SUFFICES ASSUME Init PROVE Store!Init
  OBVIOUS
<1>1. \A a \in Actors : op[a].pc \notin Working
  BY DEF Init, Idle, Working
<1>2. Content = [f \in Files |-> data[f]]
  BY <1>1, ContentIs DEF ContentOf
<1>3. Content = [f \in Files |-> Store!PlainContent(f)]
  BY <1>2 DEF Init, Store!PlainContent, PlainContent, Store!Blocks, Blocks
<1>4. issued = {Store!StaleTag(n) : n \in LeftOver}
  BY DEF Init, Store!StaleTag, StaleTag, Store!SeedForPath, SeedForPath, Store!XorAll, XorAll,
     Store!Xor, Xor, Store!PlainContent, PlainContent, Store!Hmac, Hmac, Store!Blocks, Blocks,
     Store!Foreign, Foreign
<1>5. dir \in [Names -> Files \cup {NoFile}]
  BY DEF Init
<1> QED
  BY <1>3, <1>4, <1>5 DEF Store!Init

\* Where ComputeHmacForFile meets no read error, TransformFile implements the atomic store
\* of SealedStore, for any number of threads, files and blocks, and whatever else fails: a
\* file is sealed as a whole, unsealed only to what a sealing found, and torn by a fault only,
\* along its own keystream.
THEOREM AtomicHolds ==
    ASSUME "mac" \notin Faults
    PROVE  Spec => Atomic
<1>1. IInv /\ IInv' /\ WholeTags /\ SealInv /\ SealInv' /\ KeepInv /\ [Next]_vars
          => [Store!Next]_(Store!vars)
  BY StepStore
<1>2. IInv /\ KeepInv /\ [Next]_vars => KeepInv'
  BY StepKeeps
<1> QED
  BY <1>1, <1>2, InitStore, InitKeeps, Seals, PTL DEF Spec, Atomic, Store!Spec
=============================================================================
