--------------------------- MODULE TransformFile ---------------------------
(***************************************************************************)
(* The toggle of the MycelFT Explorer (MycelFTExplorer.cpp): TransformFile *)
(* XORs a file in place with the keystream of its name and seals the       *)
(* ciphertext with an HMAC tag, or checks the tag, XORs the file back and  *)
(* deletes the tag.  Several threads of the Explorer (the window's thread  *)
(* and the folder worker) run it on one volume, next to audits, renames    *)
(* and deletions of the Explorer and to other programs that write files.   *)
(* Any of the system calls may fail and the process may die between two    *)
(* of them.                                                                *)
(***************************************************************************)
EXTENDS MycelData

CONSTANTS
    Actors,        \* threads that run the Explorer's file operations
    NoFile,        \* what a free path refers to
    NoName,        \* the path of a thread that works on none
    NamedStreams,  \* TRUE on a volume with alternate data streams (NTFS)
    LeftOver,      \* names whose sidecar survived from an earlier file
    Faults,        \* the kinds of faults that may strike
    MaxFaults,     \* bound: faults of one behaviour
    MaxEdits       \* bound: renames, deletions and foreign edits of one behaviour

FaultKinds == {"serial", "readtag", "read", "write", "mac", "tag", "untag",
               "delete", "crash"}

ASSUME NameAssumption ==
    /\ NoFile \notin Files
    /\ NoName \notin Names
    /\ LeftOver \subseteq Names
ASSUME BoundAssumption ==
    /\ MaxFaults \in Nat
    /\ MaxEdits \in Nat
ASSUME VolumeAssumption ==
    /\ NamedStreams \in BOOLEAN
    /\ Faults \subseteq FaultKinds

VARIABLES
    dir,       \* path |-> the file it names
    data,      \* file |-> its blocks
    ads,       \* file |-> the tag in its stream mycelft.hmac
    sidecar,   \* path |-> the tag in the file <path>.mycelft.hmac
    op,        \* thread |-> the locals of the operation it is in
    result,    \* thread |-> what its last TransformFile returned
    issued,    \* history: the tags ever written
    faults,    \* faults so far
    edits      \* renames, deletions and foreign edits so far

disk == <<dir, data, ads, sidecar>>
vars == <<dir, data, ads, sidecar, op, result, issued, faults, edits>>

-----------------------------------------------------------------------------
(* Operations in progress and the handles they hold *)

Places == {"ads", "sidecar"}
Transforming == {"open", "verify", "decrypt", "encrypt", "tag", "tagwrite"}

Idle == [pc |-> "idle", name |-> NoName, file |-> NoFile,
         seed |-> [name |-> NoName, serial |-> FALSE], place |-> "ads",
         stored |-> NoTag, pos |-> 1, before |-> <<>>]

\* TransformFile keeps its handle on the file from CreateFileW to CloseHandle.
HasOpen(a, f) == op[a].pc \in Transforming /\ op[a].file = f
IsOpen(f) == \E a \in Actors : HasOpen(a, f)

TagAt(place, n) == IF place = "ads" THEN ads[dir[n]] ELSE sidecar[n]

\* Where ReadAdsData finds the tag of n, or where WriteAdsData will put it.
\* A sidecar counts on a volume with streams only while the stream is missing.
TagPlace(n) ==
    IF NamedStreams /\ (ads[dir[n]] # NoTag \/ sidecar[n] = NoTag)
    THEN "ads" ELSE "sidecar"

FoundTag(n) == TagAt(TagPlace(n), n)

\* Another thread has the stream of file f, or the sidecar of n, open; none of
\* the handles shares deletion.
AdsHeld(a, f) ==
    \E b \in Actors \ {a} : /\ op[b].pc \in {"audit", "tagwrite"}
                            /\ op[b].place = "ads" /\ op[b].file = f
SidecarHeld(a, n) ==
    \E b \in Actors \ {a} : /\ op[b].pc \in {"audit", "tagwrite"}
                            /\ op[b].place = "sidecar" /\ op[b].name = n
TagHeld(a) ==
    IF op[a].place = "ads" THEN AdsHeld(a, op[a].file)
                           ELSE SidecarHeld(a, op[a].name)

SetTag(a, t) ==
    IF op[a].place = "ads"
    THEN ads' = [ads EXCEPT ![op[a].file] = t] /\ UNCHANGED sidecar
    ELSE sidecar' = [sidecar EXCEPT ![op[a].name] = t] /\ UNCHANGED ads

Fault(k) == /\ k \in Faults
            /\ faults < MaxFaults
            /\ faults' = faults + 1
NoFault == UNCHANGED faults

Return(a, r) ==
    /\ op' = [op EXCEPT ![a] = Idle]
    /\ result' = [result EXCEPT ![a] = r]

-----------------------------------------------------------------------------
Init ==
    /\ dir \in {d \in [Names -> Files \cup {NoFile}] :
                   \A m, n \in Names : d[m] = d[n] /\ d[m] # NoFile => m = n}
    /\ data = [f \in Files |-> PlainContent(f)]
    /\ ads = [f \in Files |-> NoTag]
    /\ sidecar = [n \in Names |-> IF n \in LeftOver THEN StaleTag(n) ELSE NoTag]
    /\ op = [a \in Actors |-> Idle]
    /\ result = [a \in Actors |-> "none"]
    /\ issued = {StaleTag(n) : n \in LeftOver}
    /\ faults = 0
    /\ edits = 0

-----------------------------------------------------------------------------
(* TransformFile, one action for each stretch between two system calls that *)
(* another thread, a fault or a crash can separate.                         *)

\* Mutant: the file is opened with FILE_SHARE_READ | FILE_SHARE_WRITE.
OpenShared(a, n) ==
    /\ op[a].pc = "idle"
    /\ dir[n] # NoFile
    /\ NoFault
    /\ op' = [op EXCEPT ![a] = [Idle EXCEPT !.pc = "open", !.name = n,
                 !.file = dir[n], !.seed = SeedForPath(n, TRUE)]]
    /\ result' = [result EXCEPT ![a] = "none"]
    /\ UNCHANGED <<disk, issued, edits>>

\* CreateFileW for reading and writing that shares reading only, then the seed.
Open(a, n) ==
    /\ op[a].pc = "idle"
    /\ dir[n] # NoFile
    /\ ~ IsOpen(dir[n])
    /\ \E serial \in BOOLEAN :
          /\ IF serial THEN NoFault ELSE Fault("serial")
          /\ op' = [op EXCEPT ![a] = [Idle EXCEPT !.pc = "open", !.name = n,
                       !.file = dir[n], !.seed = SeedForPath(n, serial)]]
    /\ result' = [result EXCEPT ![a] = "none"]
    /\ UNCHANGED <<disk, issued, edits>>

\* The file is gone, or open in another TransformFile: nothing is done.
OpenFails(a, n) ==
    /\ op[a].pc = "idle"
    /\ dir[n] = NoFile \/ IsOpen(dir[n])
    /\ Return(a, "fail")
    /\ UNCHANGED <<disk, issued, faults, edits>>

\* ReadAdsData and the choice between case A (a tag: decrypt) and case B.
ReadTag(a) ==
    LET n == op[a].name
        place == TagPlace(n)
        tag == FoundTag(n)
    IN  /\ op[a].pc = "open"
        /\ \/ /\ tag.kind = "hmac"
              /\ op' = [op EXCEPT ![a].pc = "verify", ![a].place = place,
                                  ![a].stored = tag]
              /\ NoFault
              /\ UNCHANGED result
           \/ /\ tag = NoTag
              /\ op' = [op EXCEPT ![a].pc = "encrypt", ![a].place = place,
                                  ![a].before = data[op[a].file]]
              /\ NoFault
              /\ UNCHANGED result
           \/ tag = EmptyTag /\ NoFault /\ Return(a, "fail")
           \/ Fault("readtag") /\ Return(a, "fail")
        /\ UNCHANGED <<disk, issued, edits>>

\* Mutant: only the first chunks of the file are hashed.
HashedAnyPrefix(p) == NoFault

\* ComputeHmacForFile hashes until ReadFile returns nothing: a read error ends
\* the loop like the end of the file and leaves the HMAC of a prefix.
Hashed(p) == IF p = N THEN NoFault ELSE Fault("mac")

\* Mutant: the stored tag is read, but not compared.
VerifyNothing(a) ==
    /\ op[a].pc = "verify"
    /\ NoFault
    /\ op' = [op EXCEPT ![a].pc = "decrypt", ![a].before = data[op[a].file]]
    /\ UNCHANGED <<disk, result, issued, edits>>

\* Case A: compare the HMAC of the file with the stored one.
Verify(a) ==
    LET content == data[op[a].file]
        stored == op[a].stored
    IN  /\ op[a].pc = "verify"
        /\ \/ \E p \in 0..N :
                 /\ Hashed(p)
                 /\ IF stored.seed = op[a].seed /\ stored.over = Prefix(content, p)
                    THEN /\ op' = [op EXCEPT ![a].pc = "decrypt",
                                             ![a].before = content]
                         /\ UNCHANGED result
                    ELSE Return(a, "fail")
           \/ Fault("mac") /\ Return(a, "fail")
        /\ UNCHANGED <<disk, issued, edits>>

\* Mutant: the loop runs one block too far.
XorBlockTooFar(a) ==
    /\ op[a].pc \in {"encrypt", "decrypt"}
    /\ op[a].pos <= N + 1
    /\ data' = [data EXCEPT ![op[a].file] = [i \in Blocks |->
                   IF i = op[a].pos THEN Xor(@[i], op[a].seed) ELSE @[i]]]
    /\ op' = [op EXCEPT ![a].pos = @ + 1]
    /\ UNCHANGED <<dir, ads, sidecar, result, issued, faults, edits>>

\* Mutant: the offset is not advanced.
XorBlockAgain(a) ==
    /\ op[a].pc \in {"encrypt", "decrypt"}
    /\ op[a].pos <= N
    /\ data' = [data EXCEPT ![op[a].file][op[a].pos] = Xor(@, op[a].seed)]
    /\ UNCHANGED <<dir, ads, sidecar, op, result, issued, faults, edits>>

\* TransformFileInPlace: the block at pos is read, XORed and written back.
XorBlock(a) ==
    /\ op[a].pc \in {"encrypt", "decrypt"}
    /\ op[a].pos <= N
    /\ data' = [data EXCEPT ![op[a].file][op[a].pos] = Xor(@, op[a].seed)]
    /\ op' = [op EXCEPT ![a].pos = @ + 1]
    /\ UNCHANGED <<dir, ads, sidecar, result, issued, faults, edits>>

\* A ReadFile or a WriteFile of the loop fails; the failed write may have
\* reached the volume.  What was transformed before stays transformed.
XorBlockFails(a) ==
    /\ op[a].pc \in {"encrypt", "decrypt"}
    /\ op[a].pos <= N
    /\ \/ Fault("read") /\ UNCHANGED data
       \/ Fault("write") /\ UNCHANGED data
       \/ /\ Fault("write")
          /\ data' = [data EXCEPT ![op[a].file][op[a].pos] = Xor(@, op[a].seed)]
    /\ Return(a, "fail")
    /\ UNCHANGED <<dir, ads, sidecar, issued, edits>>

\* Case A ends: DeleteAdsData, whose result is not looked at.
DeleteTag(a) ==
    /\ op[a].pc = "decrypt"
    /\ op[a].pos = N + 1
    /\ \/ ~ TagHeld(a) /\ NoFault /\ SetTag(a, NoTag)
       \/ TagHeld(a) /\ NoFault /\ UNCHANGED <<ads, sidecar>>
       \/ Fault("untag") /\ UNCHANGED <<ads, sidecar>>
    /\ Return(a, "ok")
    /\ UNCHANGED <<dir, data, issued, edits>>

\* Mutant: the HMAC covers the plaintext.
ComputeTagOfPlain(a) ==
    /\ op[a].pc = "encrypt"
    /\ op[a].pos = N + 1
    /\ NoFault
    /\ op' = [op EXCEPT ![a].pc = "tag",
                 ![a].stored = Hmac(op[a].seed, op[a].before, op[a].before)]
    /\ UNCHANGED <<disk, result, issued, edits>>

\* Case B: the HMAC of the ciphertext just written.
ComputeTag(a) ==
    LET content == data[op[a].file]
    IN  /\ op[a].pc = "encrypt"
        /\ op[a].pos = N + 1
        /\ \/ \E p \in 0..N :
                 /\ Hashed(p)
                 /\ op' = [op EXCEPT ![a].pc = "tag",
                              ![a].stored = Hmac(op[a].seed, Prefix(content, p),
                                                 op[a].before)]
                 /\ UNCHANGED result
           \/ Fault("mac") /\ Return(a, "fail")
        /\ UNCHANGED <<disk, issued, edits>>

\* WriteAdsData opens the tag with CREATE_ALWAYS and shares nothing: from here
\* to the write the tag exists and is empty.
CreateTag(a) ==
    /\ op[a].pc = "tag"
    /\ \/ /\ ~ TagHeld(a)
          /\ NoFault
          /\ SetTag(a, EmptyTag)
          /\ op' = [op EXCEPT ![a].pc = "tagwrite"]
          /\ UNCHANGED result
       \/ TagHeld(a) /\ NoFault /\ Return(a, "fail") /\ UNCHANGED <<ads, sidecar>>
       \/ Fault("tag") /\ Return(a, "fail") /\ UNCHANGED <<ads, sidecar>>
    /\ UNCHANGED <<dir, data, issued, edits>>

\* Mutant: the result of WriteFile is not looked at.
WriteTagUnchecked(a) ==
    /\ op[a].pc = "tagwrite"
    /\ \/ /\ NoFault
          /\ SetTag(a, op[a].stored)
          /\ issued' = issued \cup {op[a].stored}
       \/ Fault("tag") /\ UNCHANGED <<ads, sidecar, issued>>
    /\ Return(a, "ok")
    /\ UNCHANGED <<dir, data, edits>>

WriteTag(a) ==
    /\ op[a].pc = "tagwrite"
    /\ \/ /\ NoFault
          /\ SetTag(a, op[a].stored)
          /\ issued' = issued \cup {op[a].stored}
          /\ Return(a, "ok")
       \/ /\ Fault("tag")
          /\ Return(a, "fail")
          /\ UNCHANGED <<ads, sidecar, issued>>
    /\ UNCHANGED <<dir, data, edits>>

Transform(a) ==
    \/ \E n \in Names : Open(a, n) \/ OpenFails(a, n)
    \/ ReadTag(a) \/ Verify(a)
    \/ XorBlock(a) \/ XorBlockFails(a)
    \/ DeleteTag(a) \/ ComputeTag(a) \/ CreateTag(a) \/ WriteTag(a)

-----------------------------------------------------------------------------
(* The Explorer's other file operations *)

Edit == edits < MaxEdits /\ edits' = edits + 1

\* AuditMycelTagForPath opens the tag, sharing reading only ...
HasReadableTag(n) ==
    /\ dir[n] # NoFile
    /\ FoundTag(n) # NoTag
    /\ ~ \E b \in Actors : op[b].pc = "tagwrite" /\ op[b].file = dir[n]

AuditOpen(a, n) ==
    /\ op[a].pc = "idle"
    /\ HasReadableTag(n)
    /\ op' = [op EXCEPT ![a] = [Idle EXCEPT !.pc = "audit", !.name = n,
                                   !.file = dir[n], !.place = TagPlace(n)]]
    /\ UNCHANGED <<disk, result, issued, faults, edits>>

\* ... and closes it.
AuditClose(a) ==
    /\ op[a].pc = "audit"
    /\ op' = [op EXCEPT ![a] = Idle]
    /\ UNCHANGED <<disk, result, issued, faults, edits>>

\* Mutant: a rename by copying the bytes and deleting the source.
RenameByCopy(a, m, n) ==
    /\ op[a].pc = "idle"
    /\ dir[m] # NoFile
    /\ dir[n] = NoFile
    /\ ~ IsOpen(dir[m])
    /\ ~ AdsHeld(a, dir[m])
    /\ Edit
    /\ dir' = [dir EXCEPT ![m] = NoFile, ![n] = dir[m]]
    /\ ads' = [ads EXCEPT ![dir[m]] = NoTag]
    /\ UNCHANGED <<data, sidecar, op, result, issued, faults>>

\* LVN_ENDLABELEDIT: MoveFileW takes the streams along, but not the sidecar,
\* and fails while a handle on the file is open.
Rename(a, m, n) ==
    /\ op[a].pc = "idle"
    /\ dir[m] # NoFile
    /\ dir[n] = NoFile
    /\ ~ IsOpen(dir[m])
    /\ ~ AdsHeld(a, dir[m])
    /\ Edit
    /\ dir' = [dir EXCEPT ![m] = NoFile, ![n] = dir[m]]
    /\ UNCHANGED <<data, ads, sidecar, op, result, issued, faults>>

\* kDeleteId: the sidecar goes first, unless a handle keeps it ...
DeleteSidecar(a, n) ==
    /\ op[a].pc = "idle"
    /\ dir[n] # NoFile
    /\ Edit
    /\ sidecar' = IF SidecarHeld(a, n) THEN sidecar
                                       ELSE [sidecar EXCEPT ![n] = NoTag]
    /\ op' = [op EXCEPT ![a] = [Idle EXCEPT !.pc = "delete", !.name = n]]
    /\ UNCHANGED <<dir, data, ads, result, issued, faults>>

\* ... then the file, which a handle or an attribute may protect.
DeleteFile(a) ==
    LET n == op[a].name
        f == dir[n]
    IN  /\ op[a].pc = "delete"
        /\ \/ /\ f # NoFile
              /\ ~ IsOpen(f)
              /\ ~ AdsHeld(a, f)
              /\ NoFault
              /\ dir' = [dir EXCEPT ![n] = NoFile]
              /\ ads' = [ads EXCEPT ![f] = NoTag]
           \/ /\ f = NoFile \/ IsOpen(f) \/ AdsHeld(a, f)
              /\ NoFault
              /\ UNCHANGED <<dir, ads>>
           \/ Fault("delete") /\ UNCHANGED <<dir, ads>>
        /\ op' = [op EXCEPT ![a] = Idle]
        /\ UNCHANGED <<data, sidecar, result, issued, edits>>

-----------------------------------------------------------------------------
(* Other programs, and the end of the process *)

\* A program writes a block of a file that the Explorer does not have open.
ForeignWrite(n, i) ==
    /\ dir[n] # NoFile
    /\ ~ IsOpen(dir[n])
    /\ Edit
    /\ data' = [data EXCEPT ![dir[n]][i] = [base |-> Foreign, keys |-> {}]]
    /\ UNCHANGED <<dir, ads, sidecar, op, result, issued, faults>>

\* A program deletes the file and knows of no sidecar.
ForeignDelete(n) ==
    /\ dir[n] # NoFile
    /\ ~ \E a \in Actors : \/ HasOpen(a, dir[n])
                           \/ /\ op[a].pc = "audit" /\ op[a].place = "ads"
                              /\ op[a].file = dir[n]
    /\ Edit
    /\ dir' = [dir EXCEPT ![n] = NoFile]
    /\ ads' = [ads EXCEPT ![dir[n]] = NoTag]
    /\ UNCHANGED <<data, sidecar, op, result, issued, faults>>

\* A program creates a file under a free name.
ForeignCreate(n, f) ==
    /\ dir[n] = NoFile
    /\ \A m \in Names : dir[m] # f
    /\ Edit
    /\ dir' = [dir EXCEPT ![n] = f]
    /\ data' = [data EXCEPT ![f] = PlainContent(Foreign)]
    /\ ads' = [ads EXCEPT ![f] = NoTag]
    /\ UNCHANGED <<sidecar, op, result, issued, faults>>

\* The process dies, or the machine does: the volume keeps what it has.
Crash ==
    /\ Fault("crash")
    /\ op' = [a \in Actors |-> Idle]
    /\ result' = [a \in Actors |-> "none"]
    /\ UNCHANGED <<disk, issued, edits>>

-----------------------------------------------------------------------------
Explorer(a) ==
    \/ Transform(a)
    \/ \E n \in Names : AuditOpen(a, n) \/ DeleteSidecar(a, n)
    \/ AuditClose(a)
    \/ \E m, n \in Names : Rename(a, m, n)
    \/ DeleteFile(a)

Environment ==
    \/ \E n \in Names, i \in Blocks : ForeignWrite(n, i)
    \/ \E n \in Names : ForeignDelete(n) \/ \E f \in Files : ForeignCreate(n, f)
    \/ Crash

Next == (\E a \in Actors : Explorer(a)) \/ Environment

Spec == Init /\ [][Next]_vars

\* A thread that is inside TransformFile goes on: its loop ends by itself.
Progress(a) == \/ ReadTag(a) \/ Verify(a) \/ XorBlock(a) \/ DeleteTag(a)
               \/ ComputeTag(a) \/ CreateTag(a) \/ WriteTag(a)
               \/ AuditClose(a) \/ DeleteFile(a)

FairSpec == Spec /\ \A a \in Actors : WF_vars(Progress(a))

-----------------------------------------------------------------------------
(* Properties *)

OpType ==
    [pc : {"idle", "audit", "delete"} \cup Transforming,
     name : Names \cup {NoName}, file : Files \cup {NoFile},
     seed : [name : Names \cup {NoName}, serial : BOOLEAN], place : Places,
     stored : Tags, pos : 1..(N + 1), before : Contents \cup {<<>>}]

VolumeTypeOK ==
    /\ dir \in [Names -> Files \cup {NoFile}]
    /\ data \in [Files -> Contents]
    /\ ads \in [Files -> Tags]
    /\ sidecar \in [Names -> Tags]
    /\ \A t \in issued : t \in Hmacs
    /\ faults \in 0..MaxFaults
    /\ edits \in 0..MaxEdits

TypeOK ==
    /\ VolumeTypeOK
    /\ op \in [Actors -> OpType]
    /\ result \in [Actors -> {"none", "ok", "fail"}]

\* A completed decryption leaves exactly what the encryption that wrote the tag
\* found, on every block the tag covers: whatever failed, crashed, was renamed,
\* replaced or edited since, a file that differs is refused (TransformFile,
\* case A).
RoundTrip ==
    \A a \in Actors :
        op[a].pc = "decrypt" /\ op[a].pos = N + 1 =>
            \A i \in DOMAIN op[a].stored.over :
                data[op[a].file][i] = op[a].stored.from[i]

\* No block of a file was changed since it was sealed when its decryption
\* starts (README: "Manipulierte Dateien werden zuverlaessig erkannt").
TamperDetected ==
    \A a \in Actors :
        op[a].pc = "decrypt" =>
            op[a].before = XorAll(op[a].stored.from, op[a].seed)

\* A TransformFile that returns success is complete: the file is sealed by the
\* tag that ReadAdsData will find, or it is as the encryption found it and has
\* no tag.
SuccessIsComplete ==
    [][\A a \in Actors, n \in Names, f \in Files :
          op[a].name = n /\ op[a].file = f /\ result'[a] = "ok" /\ result[a] # "ok" =>
             \/ FoundTag(n)' = Hmac(op[a].seed, data'[f], op[a].before)
             \/ FoundTag(n)' = NoTag /\ data'[f] = op[a].stored.from]_vars

\* At rest, a file without a tag is plaintext: what case B takes for granted.
UntaggedIsPlain ==
    \A n \in Names :
        /\ dir[n] # NoFile /\ ~ IsOpen(dir[n]) /\ FoundTag(n) = NoTag
        /\ \A a \in Actors : op[a].pc = "delete" => op[a].name # n
        => \A i \in Blocks : data[dir[n]][i].keys = {}

\* At rest, the audit's answer "Encrypted" is not given for a file whose blocks
\* are all in clear.
TaggedIsCipher ==
    \A n \in Names :
        dir[n] # NoFile /\ ~ IsOpen(dir[n]) /\ FoundTag(n).kind = "hmac" =>
            N = 0 \/ \E i \in Blocks : data[dir[n]][i] # [base |-> dir[n], keys |-> {}]

\* Every operation a thread starts on a file comes to an end.
OperationEnds == \A a \in Actors : op[a].pc # "idle" ~> op[a].pc = "idle"

-----------------------------------------------------------------------------
(* Why RoundTrip and TamperDetected hold: the inductive invariant *)

\* A handle keeps its file under the name it was opened by.
HandleHolds(o) ==
    /\ o.pc = "delete" => o.name \in Names
    /\ o.pc \in Transforming =>
          /\ o.name \in Names
          /\ o.file \in Files
          /\ o.seed \in Seeds
          /\ dir[o.name] = o.file

\* The blocks before pos are transformed, the others are as they were found.
InPlace(o) ==
    /\ o.pc \in {"open", "verify"} => o.pos = 1
    /\ o.pc \in {"encrypt", "decrypt"} =>
          /\ o.before \in Contents
          /\ \A i \in Blocks :
                data[o.file][i] = IF i < o.pos THEN Xor(o.before[i], o.seed)
                                               ELSE o.before[i]

\* Decryption started from the blocks that its tag covers.
Checked(o) ==
    /\ o.pc \in {"verify", "decrypt", "tag", "tagwrite"} => o.stored.kind = "hmac"
    /\ o.pc = "decrypt" =>
          /\ o.stored.seed = o.seed
          /\ \A i \in DOMAIN o.stored.over : o.before[i] = o.stored.over[i]

\* A tag covers what an encryption made of the content it found.
Sound(t) ==
    t.kind = "hmac" =>
        \A i \in DOMAIN t.over : i \in Blocks /\ t.over[i] = Xor(t.from[i], t.seed)

OpSound(o) == HandleHolds(o) /\ InPlace(o) /\ Checked(o) /\ Sound(o.stored)

\* The sharing mode lets one TransformFile at a time at a file.
Exclusive ==
    \A a, b \in Actors :
        /\ op[a].pc \in Transforming
        /\ op[b].pc \in Transforming
        /\ op[a].file = op[b].file
        => a = b

TagsSound ==
    /\ \A f \in Files : Sound(ads[f])
    /\ \A n \in Names : Sound(sidecar[n])

IInv ==
    /\ TypeOK
    /\ Exclusive
    /\ TagsSound
    /\ \A a \in Actors : OpSound(op[a])

-----------------------------------------------------------------------------
(* The atomic store that TransformFile promises: a file under transformation *)
(* still counts as the content the operation found.                         *)

Content == [f \in Files |->
    IF \E a \in Actors : HasOpen(a, f) /\ op[a].pc \notin {"open", "verify"}
    THEN op[CHOOSE a \in Actors : HasOpen(a, f) /\ op[a].pc \notin {"open", "verify"}].before
    ELSE data[f]]

Store == INSTANCE SealedStore WITH content <- Content

\* TransformFile implements the atomic store, other threads' operations and
\* faults included: each toggle happens as a whole or tears the file.
Atomic == Store!Spec
=============================================================================
