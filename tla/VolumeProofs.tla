---------------------------- MODULE VolumeProofs ----------------------------
(***************************************************************************)
(* Proofs about a volume of fastfat: its counts are those of the file      *)
(* objects, its VCB is deleted unused, a lock excludes (VolumeLife); a     *)
(* volume that is flagged dirty has somebody on the way who cleans it      *)
(* (DirtyVolume); its clusters are owned once, are there when promised and *)
(* chained as the MCBs say (DiskSpace).                                    *)
(***************************************************************************)
EXTENDS VolumeLife, DirtyVolume, DiskSpace, FiniteSetTheorems, SequenceTheorems,
        WellFoundedInduction, TLAPS

-----------------------------------------------------------------------------
(* The inductive invariant of VolumeLife *)

All == Users \cup Streams
Vpb == [referenceCount : Nat, ofDevice : BOOLEAN, locked : BOOLEAN]

\* The file objects that a VCB has to count, those that hold a VPB, and those at the recheck
\* in FatCommonClose, when they are where O says.
CountedIn(O) == {o \in All : O[o] \in {"open", "cleaned", "closing", "queued", "taken"}}
ReferringIn(O) == {o \in All : O[o] \in {"creating", "open", "cleaned"}}
RecheckIn(O) == {o \in All : O[o] = "recheck"}

\* The VCB counts the file objects of C and the closes of R.
Counts(V, C, R) ==
    /\ V.openFileCount = Cardinality(C \cap Users) + Cardinality(R)
    /\ V.directAccessOpenCount = Cardinality(C \cap Handles)
    /\ V.internalOpenCount = Cardinality(C \cap Streams)
    /\ V.residualOpenCount = Cardinality(C \cap Residuals)

CountsOK(V, P, O) ==
    /\ O \in [All -> ObjectPlaces] /\ V \in Vcb /\ P \in Vpb
    /\ Counts(V, CountedIn(O), RecheckIn(O))
    /\ P.referenceCount = Cardinality(ReferringIn(O))

DeletedOK(V, O) == ~ V.exists => \A o \in All : O[o] = "none"
LockOK(V, O) == V.locked => CountedIn(O) \cap Users \subseteq {V.fileObjectWithVcbLocked}

\* A handle in FatLockVolumeInternal is open all the time.
LockingOK(L, O) ==
    /\ L \in [Handles -> {"no", "first", "second"}]
    /\ \A h \in Handles : L[h] # "no" => O[h] = "open"

VolumeInv ==
    /\ CountsOK(vcb, vpb, object)
    /\ DeletedOK(vcb, object)
    /\ LockOK(vcb, object)
    /\ LockingOK(locking, object)

-----------------------------------------------------------------------------
(* Sets of file objects and their sizes *)

LEMMA AllFacts ==
    /\ IsFiniteSet(All) /\ Users \subseteq All /\ Streams \subseteq All
    /\ Files \subseteq Users /\ Handles \subseteq Users /\ Files \cap Handles = {}
    /\ Users \cap Streams = {} /\ Residuals \subseteq Streams
    /\ "volume" \in Residuals /\ "root" \in Residuals /\ "dir" \in Streams
    /\ "dir" \notin Residuals /\ "dir" \notin Users
<1>1. IsFiniteSet(Users)
  BY FilesAssumption, FS_Union DEF Users
<1>2. IsFiniteSet(Streams)
  <2>1. Streams = (({} \cup {"volume"}) \cup {"root"}) \cup {"dir"}
    BY DEF Streams, Residuals
  <2>2. IsFiniteSet({})
    BY FS_EmptySet
  <2>3. IsFiniteSet(({} \cup {"volume"}) \cup {"root"})
    BY <2>2, FS_AddElement
  <2>4. IsFiniteSet((({} \cup {"volume"}) \cup {"root"}) \cup {"dir"})
    BY <2>3, FS_AddElement
  <2> QED
    BY <2>1, <2>4
<1>3. IsFiniteSet(All)
  BY <1>1, <1>2, FS_Union DEF All
<1> QED
  BY <1>3, DisjointAssumption DEF All, Users, Streams, Residuals

LEMMA SizeOf == \A C \in SUBSET All : \A U : IsFiniteSet(C \cap U) /\ Cardinality(C \cap U) \in Nat
<1> SUFFICES ASSUME NEW C \in SUBSET All, NEW U
             PROVE  IsFiniteSet(C \cap U) /\ Cardinality(C \cap U) \in Nat
  OBVIOUS
<1>1. IsFiniteSet(C \cap U)
  BY AllFacts, FS_Subset
<1> QED
  BY <1>1, FS_CardinalityType

\* The file objects of S go.
LEMMA SizeWithout ==
    ASSUME NEW C \in SUBSET All, NEW S \in SUBSET C, NEW U
    PROVE  Cardinality((C \ S) \cap U) = Cardinality(C \cap U) - Cardinality(S \cap U)
<1> DEFINE A == (C \ S) \cap U
           B == S \cap U
<1>1. A \cup B = C \cap U /\ A \cap B = {}
  OBVIOUS
<1>2. /\ IsFiniteSet(A) /\ IsFiniteSet(B)
      /\ Cardinality(A) \in Nat /\ Cardinality(B) \in Nat
  BY SizeOf
<1>3. Cardinality({}) = 0
  BY FS_EmptySet
<1> HIDE DEF A, B
<1>4. Cardinality(A \cup B) = Cardinality(A) + Cardinality(B) - Cardinality(A \cap B)
  BY <1>2, FS_Union
<1>5. Cardinality(C \cap U) = Cardinality(A \cup B) /\ Cardinality(A \cap B) = 0
  BY <1>1, <1>3, Zenon
<1>6. Cardinality(A) = Cardinality(C \cap U) - Cardinality(B)
  BY <1>2, <1>4, <1>5
<1> QED
  BY <1>6 DEF A, B

LEMMA SizesWithout ==
    \A C \in SUBSET All : \A S \in SUBSET C : \A U :
        /\ Cardinality((C \ S) \cap U) = Cardinality(C \cap U) - Cardinality(S \cap U)
        /\ Cardinality((C \ S) \cap U) \in Nat
        /\ Cardinality(C \cap U) \in Nat /\ Cardinality(S \cap U) \in Nat
<1> TAKE C \in SUBSET All
<1> TAKE S \in SUBSET C
<1> TAKE U
<1>1. S \in SUBSET All /\ C \ S \in SUBSET All
  OBVIOUS
<1>2. Cardinality((C \ S) \cap U) = Cardinality(C \cap U) - Cardinality(S \cap U)
  BY SizeWithout
<1>3. /\ Cardinality((C \ S) \cap U) \in Nat
      /\ Cardinality(C \cap U) \in Nat /\ Cardinality(S \cap U) \in Nat
  BY <1>1, SizeOf, Zenon
<1> QED
  BY <1>2, <1>3

\* The file object o comes.
LEMMA SizeWith ==
    ASSUME NEW C \in SUBSET All, NEW o \in All, o \notin C, NEW U
    PROVE  Cardinality((C \cup {o}) \cap U) =
               IF o \in U THEN Cardinality(C \cap U) + 1 ELSE Cardinality(C \cap U)
<1>1. IsFiniteSet(C \cap U)
  BY SizeOf
<1>2. CASE o \in U
  <2>1. (C \cup {o}) \cap U = (C \cap U) \cup {o}
    BY <1>2
  <2>2. Cardinality((C \cap U) \cup {o}) = Cardinality(C \cap U) + 1
    BY <1>1, FS_AddElement
  <2> QED
    BY <1>2, <2>1, <2>2, Zenon
<1>3. CASE o \notin U
  <2>1. (C \cup {o}) \cap U = C \cap U
    BY <1>3
  <2> QED
    BY <1>3, <2>1, Zenon
<1> QED
  BY <1>2, <1>3

LEMMA InAll == \A O : /\ CountedIn(O) \in SUBSET All /\ ReferringIn(O) \in SUBSET All
                      /\ RecheckIn(O) \in SUBSET All
BY DEF CountedIn, ReferringIn, RecheckIn

\* The size of a set of file objects.
LEMMA WholeSize ==
    ASSUME NEW C \in SUBSET All
    PROVE  /\ IsFiniteSet(C) /\ Cardinality(C) \in Nat
           /\ \A S \in SUBSET C : Cardinality(C \ S) = Cardinality(C) - Cardinality(S)
           /\ \A o \in All : o \notin C => Cardinality(C \cup {o}) = Cardinality(C) + 1
<1>1. /\ C \cap All = C /\ \A S \in SUBSET C : (C \ S) \cap All = C \ S /\ S \cap All = S
  OBVIOUS
<1>2. /\ IsFiniteSet(C) /\ Cardinality(C) \in Nat
  BY <1>1, SizeOf
<1>3. ASSUME NEW S \in SUBSET C PROVE Cardinality(C \ S) = Cardinality(C) - Cardinality(S)
  <2>1. Cardinality((C \ S) \cap All) = Cardinality(C \cap All) - Cardinality(S \cap All)
    BY SizeWithout
  <2> QED
    BY <1>1, <2>1
<1>4. \A o \in All : o \notin C => Cardinality(C \cup {o}) = Cardinality(C) + 1
  BY <1>2, FS_AddElement
<1> QED
  BY <1>2, <1>3, <1>4

-----------------------------------------------------------------------------
(* What is written to a VCB and a VPB *)

LEMMA VcbEdited ==
    ASSUME NEW V \in Vcb
    PROVE  /\ \A a, b, c, d \in Nat :
                  [V EXCEPT !.openFileCount = a, !.directAccessOpenCount = b,
                            !.internalOpenCount = c, !.residualOpenCount = d] \in Vcb
           /\ \A a \in Nat : [V EXCEPT !.openFileCount = a] \in Vcb
           /\ \A a, b \in Nat :
                  [V EXCEPT !.openFileCount = a, !.directAccessOpenCount = b] \in Vcb
           /\ \A a, b \in Nat, l \in BOOLEAN, h \in Handles \cup {NoHandle} :
                  [V EXCEPT !.openFileCount = a, !.directAccessOpenCount = b,
                            !.locked = l, !.fileObjectWithVcbLocked = h] \in Vcb
           /\ \A c, d \in Nat :
                  [V EXCEPT !.internalOpenCount = c, !.residualOpenCount = d] \in Vcb
           /\ \A l \in {"good", "notMounted", "bad"} : [V EXCEPT !.condition = l] \in Vcb
           /\ \A e \in BOOLEAN : [V EXCEPT !.exists = e] \in Vcb
           /\ \A a \in Nat, i \in BOOLEAN :
                  [V EXCEPT !.openFileCount = a, !.closeInProgress = i] \in Vcb
           /\ \A k \in {"good", "notMounted", "bad"}, l \in BOOLEAN,
                 h \in Handles \cup {NoHandle} :
                  [V EXCEPT !.condition = k, !.locked = l, !.fileObjectWithVcbLocked = h]
                      \in Vcb
           /\ \A l \in BOOLEAN, h \in Handles \cup {NoHandle} :
                  [V EXCEPT !.locked = l, !.fileObjectWithVcbLocked = h] \in Vcb
           /\ \A k \in {"good", "notMounted", "bad"}, h \in Handles \cup {NoHandle} :
                  [V EXCEPT !.condition = k, !.dismountedBy = h] \in Vcb
BY Zenon DEF Vcb

LEMMA VpbEdited ==
    ASSUME NEW P \in Vpb
    PROVE  /\ \A n \in Nat : [P EXCEPT !.referenceCount = n] \in Vpb
           /\ \A d, l \in BOOLEAN : [P EXCEPT !.ofDevice = d, !.locked = l] \in Vpb
           /\ \A l \in BOOLEAN : [P EXCEPT !.locked = l] \in Vpb
BY Zenon DEF Vpb

\* The file objects of S are counted out.
LEMMA CountOutCounts ==
    ASSUME NEW V \in Vcb, NEW C \in SUBSET All, NEW S \in SUBSET C, NEW R \in SUBSET All,
           Counts(V, C, R)
    PROVE  /\ CountOut(V, S) \in Vcb /\ Counts(CountOut(V, S), C \ S, R)
           /\ CountOut(V, S).exists = V.exists /\ CountOut(V, S).locked = V.locked
           /\ CountOut(V, S).condition = V.condition
           /\ CountOut(V, S).fileObjectWithVcbLocked = V.fileObjectWithVcbLocked
<1>2. \A U : /\ Cardinality((C \ S) \cap U) = Cardinality(C \cap U) - Cardinality(S \cap U)
             /\ Cardinality((C \ S) \cap U) \in Nat
             /\ Cardinality(C \cap U) \in Nat /\ Cardinality(S \cap U) \in Nat
  BY SizesWithout, Zenon
<1> DEFINE a == V.openFileCount - Cardinality(S \cap Users)
           b == V.directAccessOpenCount - Cardinality(S \cap Handles)
           c == V.internalOpenCount - Cardinality(S \cap Streams)
           d == V.residualOpenCount - Cardinality(S \cap Residuals)
           W == [V EXCEPT !.openFileCount = a, !.directAccessOpenCount = b,
                          !.internalOpenCount = c, !.residualOpenCount = d]
<1>1. CountOut(V, S) = W
  BY DEF CountOut
<1>3. Cardinality(R) \in Nat
  BY WholeSize
<1>4. /\ a = Cardinality((C \ S) \cap Users) + Cardinality(R)
      /\ b = Cardinality((C \ S) \cap Handles)
      /\ c = Cardinality((C \ S) \cap Streams)
      /\ d = Cardinality((C \ S) \cap Residuals)
      /\ a \in Nat /\ b \in Nat /\ c \in Nat /\ d \in Nat
  <2>1. /\ V.openFileCount = Cardinality(C \cap Users) + Cardinality(R)
        /\ V.directAccessOpenCount = Cardinality(C \cap Handles)
        /\ V.internalOpenCount = Cardinality(C \cap Streams)
        /\ V.residualOpenCount = Cardinality(C \cap Residuals)
    BY DEF Counts
  <2>2. /\ a = Cardinality((C \ S) \cap Users) + Cardinality(R) /\ a \in Nat
    <3>1. /\ Cardinality((C \ S) \cap Users) =
                 Cardinality(C \cap Users) - Cardinality(S \cap Users)
          /\ Cardinality((C \ S) \cap Users) \in Nat
          /\ Cardinality(C \cap Users) \in Nat /\ Cardinality(S \cap Users) \in Nat
      BY <1>2
    <3> QED
      BY <1>3, <2>1, <3>1
  <2>3. b = Cardinality((C \ S) \cap Handles) /\ b \in Nat
    BY <1>2, <2>1
  <2>4. c = Cardinality((C \ S) \cap Streams) /\ c \in Nat
    BY <1>2, <2>1
  <2>5. d = Cardinality((C \ S) \cap Residuals) /\ d \in Nat
    BY <1>2, <2>1
  <2> QED
    BY <2>2, <2>3, <2>4, <2>5
<1> HIDE DEF a, b, c, d
<1>6. W \in Vcb
  BY <1>4, VcbEdited, Zenon
<1>7. /\ W.openFileCount = a /\ W.directAccessOpenCount = b
      /\ W.internalOpenCount = c /\ W.residualOpenCount = d
      /\ W.exists = V.exists /\ W.locked = V.locked /\ W.condition = V.condition
      /\ W.fileObjectWithVcbLocked = V.fileObjectWithVcbLocked
  BY DEF Vcb
<1> HIDE DEF W
<1>8. Counts(W, C \ S, R)
  BY <1>4, <1>7 DEF Counts
<1> QED
  BY <1>1, <1>6, <1>7, <1>8

LEMMA DereferenceFacts ==
    ASSUME NEW P \in Vpb, NEW E \in SUBSET All, NEW S \in SUBSET E,
           P.referenceCount = Cardinality(E)
    PROVE  /\ Dereference(P, S) \in Vpb
           /\ Dereference(P, S).referenceCount = Cardinality(E \ S)
           /\ Dereference(P, S).locked = P.locked
           /\ Dereference(P, S).ofDevice = P.ofDevice
<1>1. /\ Cardinality(E \ S) = Cardinality(E) - Cardinality(S)
      /\ Cardinality(E \ S) \in Nat
  BY WholeSize
<1>2. Dereference(P, S) = [P EXCEPT !.referenceCount = Cardinality(E \ S)]
  BY <1>1 DEF Dereference
<1> QED
  BY <1>1, <1>2 DEF Vpb

-----------------------------------------------------------------------------
(* File objects that are closed *)

LEMMA ClosedFacts ==
    ASSUME object \in [All -> ObjectPlaces], NEW S \in SUBSET All,
           \A o \in S : object[o] \in {"closing", "queued", "taken"},
           NEW now \in SUBSET Along(S)
    PROVE  /\ Closed(S, now) \in [All -> ObjectPlaces]
           /\ now \in SUBSET Streams
           /\ S \cup now \in SUBSET CountedIn(object) /\ now \in SUBSET ReferringIn(object)
           /\ CountedIn(Closed(S, now)) = CountedIn(object) \ (S \cup now)
           /\ ReferringIn(Closed(S, now)) = ReferringIn(object) \ now
           /\ RecheckIn(Closed(S, now)) = RecheckIn(object)
           /\ \A u \in Users : Closed(S, now)[u] = IF u \in S THEN "none" ELSE object[u]
           /\ \A o \in now : object[o] = "open"
<1> DEFINE O == Closed(S, now)
<1>1. /\ Along(S) \subseteq {"dir"} /\ ("dir" \in Along(S) => object["dir"] = "open")
  BY DEF Along
<1>2. "dir" \in All /\ "dir" \in Streams /\ "dir" \notin Users
  BY AllFacts
<1>3. now \subseteq {"dir"} /\ \A o \in Along(S) : object[o] = "open"
  BY <1>1
<1>4. \A o \in Along(S) : o \in All /\ o \in Streams /\ o \notin Users
  BY <1>1, <1>2
<1>5. O = [o \in All |-> IF o \in S \cup now THEN "none"
                         ELSE IF o \in Along(S) THEN "cleaned" ELSE object[o]]
  BY DEF Closed, All
<1>6. \A o \in All : O[o] = IF o \in S \cup now THEN "none"
                            ELSE IF o \in Along(S) THEN "cleaned" ELSE object[o]
  BY <1>5
<1>7. O \in [All -> ObjectPlaces]
  BY <1>5 DEF ObjectPlaces
<1> HIDE DEF O
<1>8. S \cup now \in SUBSET CountedIn(object) /\ now \in SUBSET ReferringIn(object)
  BY <1>3, <1>4 DEF CountedIn, ReferringIn
<1>9. CountedIn(O) = CountedIn(object) \ (S \cup now)
  BY <1>3, <1>6 DEF CountedIn
<1>10. ReferringIn(O) = ReferringIn(object) \ now
  BY <1>3, <1>6 DEF ReferringIn
<1>11. RecheckIn(O) = RecheckIn(object)
  BY <1>3, <1>6 DEF RecheckIn
<1>12. \A u \in Users : O[u] = IF u \in S THEN "none" ELSE object[u]
  BY <1>4, <1>6, AllFacts
<1> QED
  BY <1>3, <1>4, <1>7, <1>8, <1>9, <1>10, <1>11, <1>12 DEF O

\* FatCommonClose and FatFspClose count out what they close.
LEMMA CloseMany ==
    ASSUME CountsOK(vcb, vpb, object), NEW S \in SUBSET All,
           \A o \in S : object[o] \in {"closing", "queued", "taken"},
           NEW now \in SUBSET Along(S)
    PROVE  /\ CountsOK(CountOut(vcb, S \cup now), Dereference(vpb, now), Closed(S, now))
           /\ CountOut(vcb, S \cup now).openFileCount =
                  Cardinality((CountedIn(object) \ (S \cup now)) \cap Users)
                      + Cardinality(RecheckIn(object))
           /\ CountOut(vcb, S \cup now).exists = vcb.exists
           /\ CountOut(vcb, S \cup now).locked = vcb.locked
           /\ CountOut(vcb, S \cup now).condition = vcb.condition
           /\ CountOut(vcb, S \cup now).fileObjectWithVcbLocked =
                  vcb.fileObjectWithVcbLocked
           /\ Dereference(vpb, now).locked = vpb.locked
           /\ Dereference(vpb, now).referenceCount = Cardinality(ReferringIn(object) \ now)
<1>0. /\ Dereference(vpb, now) \in Vpb /\ Dereference(vpb, now).locked = vpb.locked
      /\ Dereference(vpb, now).referenceCount = Cardinality(ReferringIn(object) \ now)
  <2>1. /\ vpb \in Vpb /\ vpb.referenceCount = Cardinality(ReferringIn(object))
        /\ object \in [All -> ObjectPlaces]
    BY DEF CountsOK
  <2>2. ReferringIn(object) \in SUBSET All /\ now \in SUBSET ReferringIn(object)
    BY <2>1, InAll, ClosedFacts
  <2> QED
    BY <2>1, <2>2, DereferenceFacts
<1> DEFINE V == CountOut(vcb, S \cup now)
           P == Dereference(vpb, now)
           O == Closed(S, now)
           C == CountedIn(object)
           E == ReferringIn(object)
           R == RecheckIn(object)
           T == S \cup now
<1>1. /\ object \in [All -> ObjectPlaces] /\ vcb \in Vcb /\ vpb \in Vpb
      /\ Counts(vcb, C, R) /\ vpb.referenceCount = Cardinality(E)
  BY DEF CountsOK
<1>2. C \in SUBSET All /\ E \in SUBSET All /\ R \in SUBSET All
  BY InAll
<1>3. /\ O \in [All -> ObjectPlaces] /\ T \in SUBSET C /\ now \in SUBSET E
      /\ CountedIn(O) = C \ T /\ ReferringIn(O) = E \ now /\ RecheckIn(O) = R
  BY <1>1, ClosedFacts
<1> HIDE DEF V, P, O, C, E, R, T
<1>4. /\ V \in Vcb /\ Counts(V, C \ T, R)
      /\ V.exists = vcb.exists /\ V.locked = vcb.locked /\ V.condition = vcb.condition
      /\ V.fileObjectWithVcbLocked = vcb.fileObjectWithVcbLocked
  BY <1>1, <1>2, <1>3, CountOutCounts DEF V, T
<1>5. P \in Vpb /\ P.referenceCount = Cardinality(E \ now) /\ P.locked = vpb.locked
  BY <1>0 DEF P, E
<1>6. CountsOK(V, P, O)
  BY <1>3, <1>4, <1>5 DEF CountsOK
<1>7. V.openFileCount = Cardinality((C \ T) \cap Users) + Cardinality(R)
  BY <1>4 DEF Counts
<1> QED
  BY <1>4, <1>5, <1>6, <1>7 DEF V, P, O, C, E, R, T

\* What is none of them stays none, so that a VCB with a file object exists.
LEMMA Exists ==
    ASSUME VolumeInv, NEW o \in All, object[o] # "none"
    PROVE  vcb.exists
BY DEF VolumeInv, DeletedOK

\* Sizes of the counts.
LEMMA NoneCounted ==
    ASSUME NEW V, NEW P, NEW O, CountsOK(V, P, O)
    PROVE  /\ V.openFileCount = 0 => /\ CountedIn(O) \cap Users = {}
                                     /\ RecheckIn(O) = {}
           /\ V.internalOpenCount = 0 => CountedIn(O) \cap Streams = {}
           /\ P.referenceCount = 0 => ReferringIn(O) = {}
<1> DEFINE C == CountedIn(O)
           E == ReferringIn(O)
           R == RecheckIn(O)
<1>1. /\ V.openFileCount = Cardinality(C \cap Users) + Cardinality(R)
      /\ V.internalOpenCount = Cardinality(C \cap Streams)
      /\ P.referenceCount = Cardinality(E)
  BY DEF CountsOK, Counts
<1>2. C \in SUBSET All /\ E \in SUBSET All /\ R \in SUBSET All
  BY InAll
<1> HIDE DEF C, E, R
<1>3. /\ IsFiniteSet(C \cap Users) /\ Cardinality(C \cap Users) \in Nat
      /\ IsFiniteSet(C \cap Streams)
  BY <1>2, SizeOf
<1>4. /\ IsFiniteSet(R) /\ Cardinality(R) \in Nat /\ IsFiniteSet(E)
  BY <1>2, WholeSize
<1>5. \A S : IsFiniteSet(S) => (Cardinality(S) = 0 <=> S = {})
  BY FS_EmptySet
<1>6. V.openFileCount = 0 => Cardinality(C \cap Users) = 0 /\ Cardinality(R) = 0
  BY <1>1, <1>3, <1>4
<1> QED
  BY <1>1, <1>3, <1>4, <1>5, <1>6 DEF C, E, R

-----------------------------------------------------------------------------
(* FatCheckForDismount *)

LEMMA TornDownFacts ==
    ASSUME NEW V, NEW O, CountsOK(V, vpb, O), V.openFileCount = 0,
           NEW now \in SUBSET {s \in Residuals : O[s] = "open"}
    PROVE  /\ CountsOK(TornDown(V, O, now).vcb, TornDown(V, O, now).vpb,
                       TornDown(V, O, now).object)
           /\ TornDown(V, O, now).vcb.locked = V.locked
           /\ TornDown(V, O, now).vcb.openFileCount = 0
           /\ CountedIn(TornDown(V, O, now).object) \subseteq CountedIn(O)
           /\ \A u \in Users : O[u] = "open" => TornDown(V, O, now).object[u] = "open"
<1> DEFINE B == [V EXCEPT !.condition = "bad"]
           Q == [vpb EXCEPT !.ofDevice = FALSE, !.locked = FALSE]
           gone == now \cup {o \in DOMAIN O : O[o] = "queued"}
           W == CountOut(B, gone)
           P == Dereference(Q, now)
           N == [o \in DOMAIN O |->
                    IF o \in gone THEN "none"
                    ELSE IF o \in Residuals /\ O[o] = "open" THEN "cleaned" ELSE O[o]]
           C == CountedIn(O)
           E == ReferringIn(O)
           R == RecheckIn(O)
<1>1. /\ TornDown(V, O, now).vcb = W /\ TornDown(V, O, now).vpb = P
      /\ TornDown(V, O, now).object = N
  BY DEF TornDown
<1>2. /\ O \in [All -> ObjectPlaces] /\ V \in Vcb /\ vpb \in Vpb /\ DOMAIN O = All
      /\ Counts(V, C, R) /\ vpb.referenceCount = Cardinality(E)
  BY DEF CountsOK
<1>3. C \in SUBSET All /\ E \in SUBSET All /\ R \in SUBSET All
  BY InAll
<1>4. Residuals \subseteq All /\ Residuals \cap Users = {}
  BY AllFacts
<1>5. \A o \in All : N[o] = IF o \in gone THEN "none"
                            ELSE IF o \in Residuals /\ O[o] = "open" THEN "cleaned" ELSE O[o]
  BY <1>2
<1>6. N \in [All -> ObjectPlaces]
  BY <1>2 DEF ObjectPlaces
<1>7. gone \subseteq All /\ \A o \in All : o \in gone <=> o \in now \/ O[o] = "queued"
  BY <1>2, <1>4
<1> HIDE DEF N, gone
<1>8. gone \in SUBSET C /\ now \in SUBSET E
  BY <1>4, <1>7 DEF CountedIn, ReferringIn
<1>9. CountedIn(N) = C \ gone
  BY <1>5, <1>7 DEF CountedIn
<1>10. ReferringIn(N) = E \ now
  BY <1>5, <1>7 DEF ReferringIn
<1>11. RecheckIn(N) = R
  BY <1>4, <1>5, <1>7 DEF RecheckIn
<1>12. /\ B \in Vcb /\ B.locked = V.locked /\ B.openFileCount = V.openFileCount
       /\ B.directAccessOpenCount = V.directAccessOpenCount
       /\ B.internalOpenCount = V.internalOpenCount
       /\ B.residualOpenCount = V.residualOpenCount
  BY <1>2 DEF Vcb
<1>13. Q \in Vpb
  BY <1>2, VpbEdited, Zenon
<1>14. Q.referenceCount = vpb.referenceCount
  BY <1>2 DEF Vpb
<1> HIDE DEF B, Q, C, E, R
<1>15. Counts(B, C, R)
  BY <1>2, <1>12 DEF Counts
<1>16. W \in Vcb /\ Counts(W, C \ gone, R) /\ W.locked = V.locked
  BY <1>3, <1>8, <1>12, <1>15, CountOutCounts
<1>17. P \in Vpb /\ P.referenceCount = Cardinality(E \ now)
  BY <1>2, <1>3, <1>8, <1>13, <1>14, DereferenceFacts
<1> HIDE DEF W, P
<1>18. CountsOK(W, P, N)
  BY <1>6, <1>9, <1>10, <1>11, <1>16, <1>17 DEF CountsOK
<1>19. W.openFileCount = 0
  <2>1. C \cap Users = {} /\ R = {}
    BY NoneCounted DEF C, R
  <2>2. (C \ gone) \cap Users = {}
    BY <2>1
  <2>3. W.openFileCount = Cardinality({}) + Cardinality({})
    BY <1>16, <2>1, <2>2, Zenon DEF Counts
  <2> QED
    BY <2>3, FS_EmptySet
<1>20. \A u \in Users : O[u] = "open" => N[u] = "open"
  BY <1>4, <1>5, <1>7, AllFacts
<1> QED
  BY <1>1, <1>9, <1>16, <1>18, <1>19, <1>20 DEF C

\* An outcome of FatCheckForDismount on the VCB V and the file objects O.
LEMMA CheckStep ==
    ASSUME NEW V, NEW O, CountsOK(V, vpb, O), V.exists, LockOK(V, O),
           LockingOK(locking, O), UNCHANGED locking, CheckForDismount(V, O)
    PROVE  VolumeInv'
<1>1. CASE InUse(V)
  <2>1. Becomes([vcb |-> V, vpb |-> vpb, object |-> O], TRUE)
    BY <1>1 DEF CheckForDismount, Kept
  <2>2. vcb' = [V EXCEPT !.exists = TRUE] /\ vpb' = vpb /\ object' = O
    BY <2>1 DEF Becomes
  <2>3. vcb' = V
    BY <2>2 DEF CountsOK, Vcb
  <2> QED
    BY <2>2, <2>3 DEF VolumeInv, DeletedOK, LockOK, LockingOK, CountsOK
<1>2. CASE ~ InUse(V)
  <2>1. V.openFileCount = 0
    BY <1>2 DEF InUse, Unused
  <2>2. PICK now \in SUBSET {s \in Residuals : O[s] = "open"} :
            LET T == TornDown(V, O, now)
            IN  Becomes(T, T.vpb.referenceCount # 0 \/ T.vcb.internalOpenCount # 0)
    BY <1>2 DEF CheckForDismount, TearDowns
  <2> DEFINE W == TornDown(V, O, now).vcb
             P == TornDown(V, O, now).vpb
             N == TornDown(V, O, now).object
             e == P.referenceCount # 0 \/ W.internalOpenCount # 0
  <2>3. vcb' = [W EXCEPT !.exists = e] /\ vpb' = P /\ object' = N
    BY <2>2 DEF Becomes
  <2>4. /\ CountsOK(W, P, N) /\ W.locked = V.locked /\ W.openFileCount = 0
        /\ CountedIn(N) \subseteq CountedIn(O)
        /\ \A u \in Users : O[u] = "open" => N[u] = "open"
    BY <2>1, TornDownFacts
  <2>5. e \in BOOLEAN
    OBVIOUS
  <2> HIDE DEF W, P, N
  <2>6. /\ vcb' \in Vcb /\ vcb'.exists = e /\ vcb'.locked = V.locked
        /\ vcb'.openFileCount = W.openFileCount
        /\ vcb'.directAccessOpenCount = W.directAccessOpenCount
        /\ vcb'.internalOpenCount = W.internalOpenCount
        /\ vcb'.residualOpenCount = W.residualOpenCount
    <3> HIDE DEF e
    <3> QED
      BY <2>3, <2>4, <2>5 DEF CountsOK, Vcb
  <2>7. CountsOK(vcb', vpb', object')
    BY <2>3, <2>4, <2>6 DEF CountsOK, Counts
  <2>8. CountedIn(N) \cap Users = {} /\ RecheckIn(N) = {}
    BY <2>4, NoneCounted
  <2>9. LockOK(vcb', object')
    BY <2>3, <2>8 DEF LockOK
  <2>10. DeletedOK(vcb', object')
    <3>1. SUFFICES ASSUME ~ e, NEW o \in All PROVE N[o] = "none"
      BY <2>3, <2>6 DEF DeletedOK
    <3>2. P.referenceCount = 0 /\ W.internalOpenCount = 0
      BY <3>1
    <3>3. CountedIn(N) \cap Streams = {} /\ ReferringIn(N) = {}
      BY <2>4, <3>2, NoneCounted
    <3>4. o \notin CountedIn(N) /\ o \notin ReferringIn(N) /\ o \notin RecheckIn(N)
      BY <2>8, <3>3 DEF All
    <3>5. N[o] \in ObjectPlaces
      BY <2>4 DEF CountsOK
    <3> QED
      BY <3>4, <3>5 DEF CountedIn, ReferringIn, RecheckIn, ObjectPlaces
  <2>11. LockingOK(locking', object')
    BY <2>3, <2>4, AllFacts DEF LockingOK
  <2> QED
    BY <2>7, <2>9, <2>10, <2>11 DEF VolumeInv
<1> QED
  BY <1>1, <1>2

-----------------------------------------------------------------------------
(* One file object moves *)

\* No count tells the places p and q apart.
SamePlaces(p, q) ==
    /\ p \in {"open", "cleaned", "closing", "queued", "taken"} <=>
           q \in {"open", "cleaned", "closing", "queued", "taken"}
    /\ p \in {"creating", "open", "cleaned"} <=> q \in {"creating", "open", "cleaned"}
    /\ p = "recheck" <=> q = "recheck"

LEMMA MoveOnly ==
    ASSUME NEW V, NEW P, NEW O, CountsOK(V, P, O), NEW o \in All, NEW p \in ObjectPlaces,
           SamePlaces(O[o], p), NEW N, N = [O EXCEPT ![o] = p]
    PROVE  CountsOK(V, P, N)
<1>1. O \in [All -> ObjectPlaces]
  BY DEF CountsOK
<1>2. N \in [All -> ObjectPlaces] /\ \A q \in All : N[q] = IF q = o THEN p ELSE O[q]
  BY <1>1
<1>3. /\ CountedIn(N) = CountedIn(O) /\ ReferringIn(N) = ReferringIn(O)
      /\ RecheckIn(N) = RecheckIn(O)
  BY <1>2 DEF CountedIn, ReferringIn, RecheckIn, SamePlaces
<1>4. CountsOK(V, P, N)
  BY <1>2, <1>3 DEF CountsOK
<1> QED
  BY <1>3, <1>4

\* A file object is counted in, and n more than the other.
LEMMA CountIn ==
    ASSUME NEW V, NEW W \in Vcb, NEW C \in SUBSET All, NEW R \in SUBSET All, Counts(V, C, R),
           NEW o \in All, o \notin C, V \in Vcb,
           W.openFileCount = IF o \in Users THEN V.openFileCount + 1 ELSE V.openFileCount,
           W.directAccessOpenCount =
               IF o \in Handles THEN V.directAccessOpenCount + 1 ELSE V.directAccessOpenCount,
           W.internalOpenCount =
               IF o \in Streams THEN V.internalOpenCount + 1 ELSE V.internalOpenCount,
           W.residualOpenCount =
               IF o \in Residuals THEN V.residualOpenCount + 1 ELSE V.residualOpenCount
    PROVE  Counts(W, C \cup {o}, R)
<1>1. ASSUME NEW U
      PROVE  Cardinality((C \cup {o}) \cap U) =
                 IF o \in U THEN Cardinality(C \cap U) + 1 ELSE Cardinality(C \cap U)
  BY SizeWith
<1>2. /\ V.openFileCount = Cardinality(C \cap Users) + Cardinality(R)
      /\ V.directAccessOpenCount = Cardinality(C \cap Handles)
      /\ V.internalOpenCount = Cardinality(C \cap Streams)
      /\ V.residualOpenCount = Cardinality(C \cap Residuals)
  BY DEF Counts
<1>3. Cardinality(C \cap Users) \in Nat /\ Cardinality(R) \in Nat
  BY SizeOf, WholeSize
<1>4. W.openFileCount = Cardinality((C \cup {o}) \cap Users) + Cardinality(R)
  <2>1. Cardinality((C \cup {o}) \cap Users) =
            IF o \in Users THEN Cardinality(C \cap Users) + 1 ELSE Cardinality(C \cap Users)
    BY <1>1
  <2> QED
    BY <1>2, <1>3, <2>1
<1>5. W.directAccessOpenCount = Cardinality((C \cup {o}) \cap Handles)
  BY <1>1, <1>2
<1>6. W.internalOpenCount = Cardinality((C \cup {o}) \cap Streams)
  BY <1>1, <1>2
<1>7. W.residualOpenCount = Cardinality((C \cup {o}) \cap Residuals)
  BY <1>1, <1>2
<1> QED
  BY <1>4, <1>5, <1>6, <1>7 DEF Counts

-----------------------------------------------------------------------------
(* Create *)

LEMMA IssueCreateStep ==
    ASSUME VolumeInv, NEW o \in Users, IssueCreate(o)
    PROVE  VolumeInv'
<1>1. /\ object[o] = "none" /\ vcb.exists /\ vcb' = vcb /\ locking' = locking
      /\ object' = [object EXCEPT ![o] = "creating"]
      /\ vpb' = [vpb EXCEPT !.referenceCount = @ + 1]
  BY DEF IssueCreate
<1>2. o \in All /\ "creating" \in ObjectPlaces
  BY AllFacts DEF ObjectPlaces
<1>3. object \in [All -> ObjectPlaces] /\ vpb \in Vpb
  BY DEF VolumeInv, CountsOK
<1>4. /\ object' \in [All -> ObjectPlaces]
      /\ \A q \in All : object'[q] = IF q = o THEN "creating" ELSE object[q]
  BY <1>1, <1>2, <1>3
<1>5. /\ CountedIn(object') = CountedIn(object) /\ RecheckIn(object') = RecheckIn(object)
      /\ ReferringIn(object') = ReferringIn(object) \cup {o} /\ o \notin ReferringIn(object)
  BY <1>1, <1>2, <1>4 DEF CountedIn, RecheckIn, ReferringIn
<1>6. /\ Cardinality(ReferringIn(object) \cup {o}) = Cardinality(ReferringIn(object)) + 1
      /\ Cardinality(ReferringIn(object)) \in Nat
  BY <1>2, <1>5, InAll, WholeSize
<1>7. vpb' \in Vpb /\ vpb'.referenceCount = vpb.referenceCount + 1
  BY <1>1, <1>3 DEF Vpb
<1>8. CountsOK(vcb', vpb', object')
  BY <1>1, <1>4, <1>5, <1>6, <1>7 DEF VolumeInv, CountsOK
<1>9. DeletedOK(vcb', object') /\ LockOK(vcb', object')
  BY <1>1, <1>5 DEF VolumeInv, DeletedOK, LockOK
<1>10. LockingOK(locking', object')
  BY <1>1, <1>4, AllFacts DEF VolumeInv, LockingOK
<1> QED
  BY <1>8, <1>9, <1>10 DEF VolumeInv

LEMMA RefuseStep ==
    ASSUME VolumeInv, NEW o \in Users, object[o] = "creating", Refuse(o), UNCHANGED locking
    PROVE  VolumeInv'
<1>1. object' = [object EXCEPT ![o] = "none"] /\ vpb' = Dereference(vpb, {o}) /\ vcb' = vcb
  BY DEF Refuse
<1>2. o \in All /\ "none" \in ObjectPlaces
  BY AllFacts DEF ObjectPlaces
<1>3. object \in [All -> ObjectPlaces] /\ vpb \in Vpb
  BY DEF VolumeInv, CountsOK
<1>4. /\ object' \in [All -> ObjectPlaces]
      /\ \A q \in All : object'[q] = IF q = o THEN "none" ELSE object[q]
  BY <1>1, <1>2, <1>3
<1>5. /\ CountedIn(object') = CountedIn(object) /\ RecheckIn(object') = RecheckIn(object)
      /\ ReferringIn(object') = ReferringIn(object) \ {o} /\ {o} \in SUBSET ReferringIn(object)
  BY <1>2, <1>4 DEF CountedIn, RecheckIn, ReferringIn
<1>6. vpb' \in Vpb /\ vpb'.referenceCount = Cardinality(ReferringIn(object) \ {o})
  BY <1>1, <1>5, InAll, DereferenceFacts DEF VolumeInv, CountsOK
<1>7. CountsOK(vcb', vpb', object')
  BY <1>1, <1>4, <1>5, <1>6 DEF VolumeInv, CountsOK
<1>8. DeletedOK(vcb', object') /\ LockOK(vcb', object')
  BY <1>1, <1>2, <1>4, <1>5, Exists DEF VolumeInv, DeletedOK, LockOK
<1>9. LockingOK(locking', object')
  BY <1>4, AllFacts DEF VolumeInv, LockingOK
<1> QED
  BY <1>7, <1>8, <1>9 DEF VolumeInv

\* A create that succeeds while the VCB may be V already.
LEMMA OpenedFacts ==
    ASSUME NEW V, NEW P, NEW O, CountsOK(V, P, O), NEW o \in Users, O[o] = "creating",
           NEW W \in Vcb,
           W.openFileCount = V.openFileCount + 1,
           W.directAccessOpenCount =
               IF o \in Handles THEN V.directAccessOpenCount + 1 ELSE V.directAccessOpenCount,
           W.internalOpenCount = V.internalOpenCount,
           W.residualOpenCount = V.residualOpenCount,
           NEW N, N = [O EXCEPT ![o] = "open"]
    PROVE  CountsOK(W, P, N)
<1>1. o \in All /\ "open" \in ObjectPlaces /\ o \notin Streams /\ o \notin Residuals
  BY AllFacts DEF ObjectPlaces
<1>2. O \in [All -> ObjectPlaces] /\ V \in Vcb
  BY DEF CountsOK
<1>3. N \in [All -> ObjectPlaces] /\ \A q \in All : N[q] = IF q = o THEN "open" ELSE O[q]
  BY <1>1, <1>2
<1>4. /\ CountedIn(N) = CountedIn(O) \cup {o} /\ o \notin CountedIn(O)
      /\ RecheckIn(N) = RecheckIn(O) /\ ReferringIn(N) = ReferringIn(O)
  BY <1>1, <1>3 DEF CountedIn, RecheckIn, ReferringIn
<1>5. CountedIn(O) \in SUBSET All /\ RecheckIn(O) \in SUBSET All
  BY InAll
<1>6. Counts(V, CountedIn(O), RecheckIn(O))
  BY DEF CountsOK
<1>7. Counts(W, CountedIn(O) \cup {o}, RecheckIn(O))
  <2> DEFINE C == CountedIn(O)
             R == RecheckIn(O)
  <2> HIDE DEF C, R
  <2>1. C \in SUBSET All /\ R \in SUBSET All /\ Counts(V, C, R) /\ o \notin C
    BY <1>4, <1>5, <1>6 DEF C, R
  <2>2. Counts(W, C \cup {o}, R)
    BY <1>1, <1>2, <2>1, CountIn
  <2> QED
    BY <2>2 DEF C, R
<1>8. CountsOK(W, P, N)
  BY <1>3, <1>4, <1>7 DEF CountsOK
<1> QED
  BY <1>8

\* The lock and the handles that wait for it, when the file object o opens.
LEMMA OpenedStep ==
    ASSUME VolumeInv, NEW o \in Users, object[o] = "creating",
           object' = [object EXCEPT ![o] = "open"], ~ vcb'.locked,
           CountsOK(vcb', vpb', object'), vcb'.exists = vcb.exists, locking' = locking
    PROVE  VolumeInv'
<1>1. o \in All
  BY AllFacts
<1>2. \A q \in All : object'[q] = IF q = o THEN "open" ELSE object[q]
  BY <1>1 DEF VolumeInv, CountsOK
<1>3. DeletedOK(vcb', object')
  BY <1>1, Exists DEF DeletedOK
<1>4. LockOK(vcb', object')
  BY DEF LockOK
<1>5. LockingOK(locking', object')
  BY <1>2, AllFacts DEF VolumeInv, LockingOK
<1> QED
  BY <1>3, <1>4, <1>5 DEF VolumeInv

LEMMA CreateFileStep ==
    ASSUME VolumeInv, NEW f \in Files, CreateFile(f)
    PROVE  VolumeInv'
<1>1. object[f] = "creating" /\ locking' = locking
  BY DEF CreateFile
<1>2. f \in Users /\ f \notin Handles
  BY AllFacts
<1>3. CASE Refuse(f)
  BY <1>1, <1>2, <1>3, RefuseStep
<1>4. CASE Usable /\ ~ Refuse(f)
  <2>1. /\ ~ vcb.locked /\ vpb' = vpb /\ object' = [object EXCEPT ![f] = "open"]
        /\ vcb' = [vcb EXCEPT !.openFileCount = @ + 1]
    BY <1>4 DEF CreateFile, Usable
  <2>2. CountsOK(vcb, vpb, object) /\ vcb \in Vcb
    BY DEF VolumeInv, CountsOK
  <2>3. /\ vcb' \in Vcb /\ vcb'.openFileCount = vcb.openFileCount + 1
        /\ vcb'.directAccessOpenCount = vcb.directAccessOpenCount
        /\ vcb'.internalOpenCount = vcb.internalOpenCount
        /\ vcb'.residualOpenCount = vcb.residualOpenCount
        /\ vcb'.locked = vcb.locked /\ vcb'.exists = vcb.exists
    BY <2>1, <2>2 DEF Vcb
  <2>4. CountsOK(vcb', vpb', object')
    BY <1>1, <1>2, <2>1, <2>2, <2>3, OpenedFacts
  <2> QED
    BY <1>1, <1>2, <2>1, <2>3, <2>4, OpenedStep
<1> QED
  BY <1>3, <1>4 DEF CreateFile

LEMMA CreateHandleStep ==
    ASSUME VolumeInv, NEW h \in Handles, CreateHandle(h)
    PROVE  VolumeInv'
<1>1. object[h] = "creating" /\ locking' = locking
  BY DEF CreateHandle
<1>2. h \in Users
  BY AllFacts
<1>3. CASE Refuse(h)
  BY <1>1, <1>2, <1>3, RefuseStep
<1>4. CASE Usable /\ ~ Refuse(h)
  <2> DEFINE a == vcb.openFileCount + 1
             b == vcb.directAccessOpenCount + 1
  <2>1. /\ ~ vcb.locked /\ vpb' = vpb /\ object' = [object EXCEPT ![h] = "open"]
        /\ vcb' = [vcb EXCEPT !.openFileCount = a, !.directAccessOpenCount = b]
    BY <1>4 DEF CreateHandle, Usable
  <2>2. CountsOK(vcb, vpb, object) /\ vcb \in Vcb
    BY DEF VolumeInv, CountsOK
  <2>3. a \in Nat /\ b \in Nat
    BY <2>2 DEF Vcb
  <2>4. /\ vcb'.openFileCount = vcb.openFileCount + 1
        /\ vcb'.directAccessOpenCount = vcb.directAccessOpenCount + 1
        /\ vcb'.internalOpenCount = vcb.internalOpenCount
        /\ vcb'.residualOpenCount = vcb.residualOpenCount
        /\ vcb'.locked = vcb.locked /\ vcb'.exists = vcb.exists
    BY <2>1, <2>2 DEF Vcb
  <2>5. vcb' \in Vcb
    <3> HIDE DEF a, b
    <3> QED
      BY <2>1, <2>2, <2>3, VcbEdited, Zenon
  <2>6. CountsOK(vcb', vpb', object')
    BY <1>1, <1>2, <2>1, <2>2, <2>4, <2>5, OpenedFacts
  <2> QED
    BY <1>1, <1>2, <2>1, <2>4, <2>6, OpenedStep
<1> QED
  BY <1>3, <1>4 DEF CreateHandle

\* An action under which the users that count only become fewer.
LEMMA FewerStep ==
    ASSUME VolumeInv, vcb.exists, CountsOK(vcb', vpb', object'), vcb'.exists = vcb.exists,
           vcb'.locked => /\ vcb.locked
                          /\ vcb'.fileObjectWithVcbLocked = vcb.fileObjectWithVcbLocked,
           CountedIn(object') \cap Users \subseteq CountedIn(object),
           LockingOK(locking', object')
    PROVE  VolumeInv'
BY DEF VolumeInv, DeletedOK, LockOK

\* The deferred closes.
LEMMA QueuedFacts ==
    /\ At("queued") \in SUBSET All
    /\ \A o \in At("queued") : object[o] \in {"closing", "queued", "taken"}
    /\ \A o \in At("queued") : object[o] = "queued"
BY DEF At, All

LEMMA CreateExclusiveStep ==
    ASSUME VolumeInv, NEW h \in Handles, CreateExclusive(h)
    PROVE  VolumeInv'
<1>1. object[h] = "creating" /\ locking' = locking
  BY DEF CreateExclusive
<1>2. h \in Users /\ h \in All
  BY AllFacts
<1>3. CASE Refuse(h)
  BY <1>1, <1>2, <1>3, RefuseStep
<1>4. CASE ~ Refuse(h)
  <2>1. PICK now \in SUBSET Along(At("queued")) :
          LET V == CountOut(vcb, At("queued") \cup now)
              O == Closed(At("queued"), now)
          IN  IF V.openFileCount = 0
              THEN /\ object' = [O EXCEPT ![h] = "open"]
                   /\ vcb' = [V EXCEPT !.openFileCount = @ + 1,
                                       !.directAccessOpenCount = @ + 1,
                                       !.locked = TRUE,
                                       !.fileObjectWithVcbLocked = h]
                   /\ vpb' = Dereference(vpb, now)
              ELSE /\ object' = [O EXCEPT ![h] = "none"]
                   /\ vcb' = V
                   /\ vpb' = Dereference(vpb, now \cup {h})
    BY <1>4 DEF CreateExclusive
  <2> DEFINE S == At("queued")
             V == CountOut(vcb, S \cup now)
             P == Dereference(vpb, now)
             O == Closed(S, now)
             a == V.openFileCount + 1
             b == V.directAccessOpenCount + 1
  <2>2. CountsOK(vcb, vpb, object) /\ object \in [All -> ObjectPlaces] /\ vpb \in Vpb
    BY DEF VolumeInv, CountsOK
  <2>3. /\ CountsOK(V, P, O) /\ V.exists = vcb.exists /\ V.locked = vcb.locked
        /\ V.fileObjectWithVcbLocked = vcb.fileObjectWithVcbLocked
    BY <2>2, QueuedFacts, CloseMany
  <2>4. /\ now \in SUBSET ReferringIn(object)
        /\ CountedIn(O) = CountedIn(object) \ (S \cup now)
        /\ ReferringIn(O) = ReferringIn(object) \ now
        /\ \A u \in Users : O[u] = IF u \in S THEN "none" ELSE object[u]
    BY <2>2, QueuedFacts, ClosedFacts
  <2>5. vcb.exists
    BY <1>1, <1>2, Exists
  <2>6. h \notin S
    BY <1>1, QueuedFacts
  <2>7. O[h] = "creating" /\ O \in [All -> ObjectPlaces] /\ V \in Vcb
    BY <1>1, <1>2, <2>3, <2>4, <2>6 DEF CountsOK
  <2>8. \A g \in Handles : locking[g] # "no" => g # h /\ O[g] = "open"
    <3>1. ASSUME NEW g \in Handles, locking[g] # "no" PROVE g # h /\ O[g] = "open"
      <4>1. object[g] = "open" /\ g \in Users
        BY <3>1, AllFacts DEF VolumeInv, LockingOK
      <4>2. g \notin S
        BY <4>1, QueuedFacts
      <4> QED
        BY <1>1, <2>4, <4>1, <4>2
    <3> QED
      BY <3>1
  <2>9. CASE V.openFileCount = 0
    <3>1. /\ object' = [O EXCEPT ![h] = "open"] /\ vpb' = P
          /\ vcb' = [V EXCEPT !.openFileCount = a, !.directAccessOpenCount = b,
                              !.locked = TRUE, !.fileObjectWithVcbLocked = h]
      BY <2>1, <2>9
    <3> HIDE DEF V, P, O, S
    <3>2. a \in Nat /\ b \in Nat
      BY <2>7 DEF Vcb
    <3>3. /\ vcb'.openFileCount = V.openFileCount + 1
          /\ vcb'.directAccessOpenCount = V.directAccessOpenCount + 1
          /\ vcb'.internalOpenCount = V.internalOpenCount
          /\ vcb'.residualOpenCount = V.residualOpenCount
          /\ vcb'.exists = V.exists
          /\ vcb'.fileObjectWithVcbLocked = h
      BY <2>7, <3>1 DEF Vcb
    <3>4. vcb' \in Vcb
      <4>1. TRUE \in BOOLEAN /\ h \in Handles \cup {NoHandle}
        OBVIOUS
      <4> HIDE DEF a, b
      <4> QED
        BY <2>7, <3>1, <3>2, <4>1, VcbEdited, Zenon
    <3>5. /\ CountsOK(vcb', vpb', object')
          /\ CountedIn(object') = CountedIn(O) \cup {h}
      <4>1. /\ CountsOK(V, P, O) /\ O[h] = "creating"
            /\ vcb'.openFileCount = V.openFileCount + 1
            /\ vcb'.directAccessOpenCount =
                   IF h \in Handles THEN V.directAccessOpenCount + 1
                   ELSE V.directAccessOpenCount
            /\ object' = [O EXCEPT ![h] = "open"]
        BY <2>3, <2>7, <3>1, <3>3
      <4>2. CountsOK(vcb', P, object')
        BY <1>2, <3>3, <3>4, <4>1, OpenedFacts, Zenon
      <4>3. \A q \in All : object'[q] = IF q = h THEN "open" ELSE O[q]
        BY <2>7, <4>1
      <4>4. CountedIn(object') = CountedIn(O) \cup {h}
        BY <1>2, <4>3 DEF CountedIn
      <4> QED
        BY <3>1, <4>2, <4>4
    <3>6. CountedIn(O) \cap Users = {}
      BY <2>3, <2>9, NoneCounted
    <3>7. LockOK(vcb', object')
      BY <3>3, <3>5, <3>6 DEF LockOK
    <3>8. LockingOK(locking', object')
      BY <1>1, <2>7, <2>8, <3>1, AllFacts DEF VolumeInv, LockingOK
    <3>9. DeletedOK(vcb', object')
      BY <2>3, <2>5, <3>3 DEF DeletedOK
    <3> QED
      BY <3>5, <3>7, <3>8, <3>9 DEF VolumeInv
  <2>10. CASE V.openFileCount # 0
    <3>1. /\ object' = [O EXCEPT ![h] = "none"] /\ vcb' = V
          /\ vpb' = Dereference(vpb, now \cup {h})
      BY <2>1, <2>10
    <3> HIDE DEF V, P, O, S
    <3>2. now \cup {h} \in SUBSET ReferringIn(object)
      BY <1>1, <1>2, <2>4 DEF ReferringIn
    <3>3. /\ vpb' \in Vpb
          /\ vpb'.referenceCount = Cardinality(ReferringIn(object) \ (now \cup {h}))
      BY <2>2, <3>1, <3>2, InAll, DereferenceFacts DEF CountsOK
    <3>4. /\ object' \in [All -> ObjectPlaces]
          /\ \A q \in All : object'[q] = IF q = h THEN "none" ELSE O[q]
      BY <1>2, <2>7, <3>1 DEF ObjectPlaces
    <3>5. /\ CountedIn(object') = CountedIn(O) /\ RecheckIn(object') = RecheckIn(O)
          /\ ReferringIn(object') = ReferringIn(O) \ {h}
      BY <1>2, <2>7, <3>4 DEF CountedIn, RecheckIn, ReferringIn
    <3>6. ReferringIn(object') = ReferringIn(object) \ (now \cup {h})
      BY <2>4, <3>5
    <3>7. CountsOK(vcb', vpb', object')
      BY <2>3, <3>1, <3>3, <3>4, <3>5, <3>6 DEF CountsOK
    <3>8. LockingOK(locking', object')
      BY <1>1, <2>8, <3>4, AllFacts DEF VolumeInv, LockingOK
    <3> QED
      BY <2>3, <2>4, <2>5, <3>1, <3>5, <3>7, <3>8, FewerStep
  <2> QED
    BY <2>9, <2>10
<1> QED
  BY <1>3, <1>4

LEMMA OpenDirectoryFileStep ==
    ASSUME VolumeInv, NEW s \in Streams, OpenDirectoryFile(s)
    PROVE  VolumeInv'
<1> DEFINE c == vcb.internalOpenCount + 1
           d == vcb.residualOpenCount + Cardinality({s} \cap Residuals)
<1>1. /\ object[s] = "none" /\ locking' = locking
      /\ object' = [object EXCEPT ![s] = "open"]
      /\ vcb' = [vcb EXCEPT !.internalOpenCount = c, !.residualOpenCount = d]
      /\ vpb' = [vpb EXCEPT !.referenceCount = @ + 1]
  BY DEF OpenDirectoryFile
<1>2. PICK f \in Files : f \in At("open")
  BY DEF OpenDirectoryFile
<1>3. f \in All /\ object[f] = "open" /\ s \in All /\ s \notin Users /\ s \notin Handles
  BY <1>2, AllFacts DEF At
<1>4. vcb.exists
  BY <1>3, Exists
<1>5. /\ object \in [All -> ObjectPlaces] /\ vcb \in Vcb /\ vpb \in Vpb
      /\ Counts(vcb, CountedIn(object), RecheckIn(object))
      /\ vpb.referenceCount = Cardinality(ReferringIn(object))
  BY DEF VolumeInv, CountsOK
<1>6. d = IF s \in Residuals THEN vcb.residualOpenCount + 1 ELSE vcb.residualOpenCount
  <2>1. vcb.residualOpenCount \in Nat
    BY <1>5 DEF Vcb
  <2>2. CASE s \in Residuals
    <3>1. {s} \cap Residuals = {s}
      BY <2>2
    <3>2. Cardinality({s}) = 1
      BY FS_Singleton
    <3>3. Cardinality({s} \cap Residuals) = 1
      BY <3>1, <3>2, Zenon
    <3> QED
      BY <2>2, <3>3
  <2>3. CASE s \notin Residuals
    <3>1. {s} \cap Residuals = {}
      BY <2>3
    <3>2. Cardinality({s} \cap Residuals) = 0
      BY <3>1, FS_EmptySet, Zenon
    <3> QED
      BY <2>1, <2>3, <3>2
  <2> QED
    BY <2>2, <2>3
<1>7. c \in Nat /\ d \in Nat
  BY <1>5, <1>6 DEF Vcb
<1> HIDE DEF d
<1>8. /\ vcb'.internalOpenCount = vcb.internalOpenCount + 1 /\ vcb'.residualOpenCount = d
      /\ vcb'.openFileCount = vcb.openFileCount
      /\ vcb'.directAccessOpenCount = vcb.directAccessOpenCount
      /\ vcb'.locked = vcb.locked /\ vcb'.exists = vcb.exists
      /\ vcb'.fileObjectWithVcbLocked = vcb.fileObjectWithVcbLocked
  BY <1>1, <1>5 DEF Vcb
<1>9. vcb' \in Vcb
  <2> HIDE DEF c
  <2> QED
    BY <1>1, <1>5, <1>7, VcbEdited, Zenon
<1>10. vpb' \in Vpb /\ vpb'.referenceCount = vpb.referenceCount + 1
  BY <1>1, <1>5 DEF Vpb
<1>11. /\ object' \in [All -> ObjectPlaces]
       /\ \A q \in All : object'[q] = IF q = s THEN "open" ELSE object[q]
  BY <1>1, <1>3, <1>5 DEF ObjectPlaces
<1> DEFINE C == CountedIn(object)
           E == ReferringIn(object)
           R == RecheckIn(object)
<1>12. /\ CountedIn(object') = C \cup {s} /\ s \notin C
       /\ ReferringIn(object') = E \cup {s} /\ s \notin E
       /\ RecheckIn(object') = R
  BY <1>1, <1>3, <1>11 DEF CountedIn, ReferringIn, RecheckIn
<1>13. C \in SUBSET All /\ E \in SUBSET All /\ R \in SUBSET All /\ Counts(vcb, C, R)
  BY <1>5, InAll
<1>14. Cardinality(E \cup {s}) = Cardinality(E) + 1
  BY <1>3, <1>12, <1>13, WholeSize
<1>15. vpb.referenceCount = Cardinality(E)
  BY <1>5
<1> HIDE DEF C, E, R
<1>16. Counts(vcb', C \cup {s}, R)
  BY <1>3, <1>5, <1>6, <1>8, <1>9, <1>12, <1>13, CountIn
<1>17. CountsOK(vcb', vpb', object')
  BY <1>9, <1>10, <1>11, <1>12, <1>14, <1>15, <1>16 DEF CountsOK
<1>18. CountedIn(object') \cap Users \subseteq CountedIn(object)
  BY <1>3, <1>12 DEF C
<1>19. LockingOK(locking', object')
  BY <1>1, <1>3, <1>11, AllFacts DEF VolumeInv, LockingOK
<1> QED
  BY <1>4, <1>8, <1>17, <1>18, <1>19, FewerStep

-----------------------------------------------------------------------------
(* Cleanup and close *)

\* A file object goes a step nearer to its close.
LEMMA NearerStep ==
    ASSUME VolumeInv, NEW o \in All, NEW p \in {"cleaned", "queued", "taken"},
           p = "cleaned" => object[o] = "open",
           p # "cleaned" => object[o] \in {"closing", "queued"},
           object' = [object EXCEPT ![o] = p], vcb' = vcb, vpb' = vpb, locking' = locking,
           o \in Handles => locking[o] = "no"
    PROVE  VolumeInv'
<1>1. CountsOK(vcb, vpb, object)
  BY DEF VolumeInv
<1>2. p \in ObjectPlaces
  BY DEF ObjectPlaces
<1>3. CountsOK(vcb, vpb, object')
  <2>1. SamePlaces(object[o], p)
    BY DEF SamePlaces
  <2> QED
    BY <1>1, <1>2, <2>1, MoveOnly, Zenon
<1>4. vcb.exists
  BY Exists
<1>5. \A q \in All : object'[q] = IF q = o THEN p ELSE object[q]
  BY <1>1 DEF CountsOK
<1>6. LockingOK(locking', object')
  BY <1>5, AllFacts DEF VolumeInv, LockingOK
<1>7. CountedIn(object') \cap Users \subseteq CountedIn(object)
  BY <1>5 DEF CountedIn
<1> QED
  BY <1>3, <1>4, <1>6, <1>7, FewerStep

\* A handle that is in FatLockVolumeInternal is open.
LEMMA NotLocking ==
    ASSUME VolumeInv, NEW h \in Handles, object[h] # "open"
    PROVE  locking[h] = "no"
BY DEF VolumeInv, LockingOK

LEMMA CleanupFileStep ==
    ASSUME VolumeInv, NEW f \in Files, CleanupFile(f)
    PROVE  VolumeInv'
<1>1. f \in All /\ f \notin Handles
  BY AllFacts
<1> QED
  BY <1>1, NearerStep DEF CleanupFile

LEMMA DeferCloseStep ==
    ASSUME VolumeInv, NEW o \in All, DeferClose(o) \/ WorkerTakesClose(o)
    PROVE  VolumeInv'
<1>1. CASE DeferClose(o)
  BY <1>1, NotLocking, NearerStep DEF DeferClose
<1>2. CASE WorkerTakesClose(o)
  BY <1>2, NotLocking, NearerStep DEF WorkerTakesClose
<1> QED
  BY <1>1, <1>2

LEMMA CleanupHandleStep ==
    ASSUME VolumeInv, NEW h \in Handles, CleanupHandle(h)
    PROVE  VolumeInv'
<1> DEFINE swap == vcb.dismountedBy = h
           unlock == vcb.locked /\ vcb.fileObjectWithVcbLocked = h
           k == IF swap THEN "bad" ELSE vcb.condition
           l == vcb.locked /\ ~ unlock
           w == IF unlock THEN NoHandle ELSE vcb.fileObjectWithVcbLocked
           d == vpb.ofDevice /\ ~ swap
           m == vpb.locked /\ ~ unlock
<1>1. /\ object[h] = "open" /\ locking[h] = "no" /\ locking' = locking
      /\ object' = [object EXCEPT ![h] = "cleaned"]
      /\ vcb' = [vcb EXCEPT !.condition = k, !.locked = l, !.fileObjectWithVcbLocked = w]
      /\ vpb' = [vpb EXCEPT !.ofDevice = d, !.locked = m]
  BY DEF CleanupHandle
<1>2. h \in All /\ "cleaned" \in ObjectPlaces
  BY AllFacts DEF ObjectPlaces
<1>3. CountsOK(vcb, vpb, object) /\ vcb \in Vcb /\ vpb \in Vpb
  BY DEF VolumeInv, CountsOK
<1>4. /\ k \in {"good", "notMounted", "bad"} /\ l \in BOOLEAN
      /\ w \in Handles \cup {NoHandle} /\ d \in BOOLEAN /\ m \in BOOLEAN
  BY <1>3 DEF Vcb, Vpb
<1>5. l => vcb.locked /\ w = vcb.fileObjectWithVcbLocked
  OBVIOUS
<1> HIDE DEF k, l, w, d, m
<1>6. vcb' \in Vcb
  BY <1>1, <1>3, <1>4, VcbEdited, Zenon
<1>7. vpb' \in Vpb
  BY <1>1, <1>3, <1>4, VpbEdited, Zenon
<1>8. /\ vcb'.openFileCount = vcb.openFileCount
      /\ vcb'.directAccessOpenCount = vcb.directAccessOpenCount
      /\ vcb'.internalOpenCount = vcb.internalOpenCount
      /\ vcb'.residualOpenCount = vcb.residualOpenCount
      /\ vcb'.exists = vcb.exists /\ vcb'.locked = l /\ vcb'.fileObjectWithVcbLocked = w
      /\ vpb'.referenceCount = vpb.referenceCount
  BY <1>1, <1>3 DEF Vcb, Vpb
<1>9. CountsOK(vcb, vpb, object')
  <2>1. SamePlaces(object[h], "cleaned")
    BY <1>1 DEF SamePlaces
  <2> QED
    BY <1>1, <1>2, <1>3, <2>1, MoveOnly, Zenon
<1>10. CountsOK(vcb', vpb', object')
  BY <1>6, <1>7, <1>8, <1>9 DEF CountsOK, Counts
<1>11. vcb.exists
  BY <1>1, <1>2, Exists
<1>12. \A q \in All : object'[q] = IF q = h THEN "cleaned" ELSE object[q]
  BY <1>1, <1>3 DEF CountsOK
<1>13. LockingOK(locking', object')
  BY <1>1, <1>12, AllFacts DEF VolumeInv, LockingOK
<1>14. CountedIn(object') \cap Users \subseteq CountedIn(object)
  BY <1>1, <1>12 DEF CountedIn
<1> QED
  BY <1>5, <1>8, <1>10, <1>11, <1>13, <1>14, FewerStep

LEMMA SendCloseStep ==
    ASSUME VolumeInv, NEW o \in All, SendClose(o)
    PROVE  VolumeInv'
<1>1. /\ object[o] = "cleaned" /\ object' = [object EXCEPT ![o] = "closing"]
      /\ vpb' = Dereference(vpb, {o}) /\ vcb' = vcb /\ locking' = locking
  BY DEF SendClose
<1>2. object \in [All -> ObjectPlaces] /\ vpb \in Vpb
  BY DEF VolumeInv, CountsOK
<1>3. /\ object' \in [All -> ObjectPlaces]
      /\ \A q \in All : object'[q] = IF q = o THEN "closing" ELSE object[q]
  BY <1>1, <1>2 DEF ObjectPlaces
<1>4. /\ CountedIn(object') = CountedIn(object) /\ RecheckIn(object') = RecheckIn(object)
      /\ ReferringIn(object') = ReferringIn(object) \ {o} /\ {o} \in SUBSET ReferringIn(object)
  BY <1>1, <1>3 DEF CountedIn, RecheckIn, ReferringIn
<1>5. vpb' \in Vpb /\ vpb'.referenceCount = Cardinality(ReferringIn(object) \ {o})
  BY <1>1, <1>4, InAll, DereferenceFacts DEF VolumeInv, CountsOK
<1>6. CountsOK(vcb', vpb', object')
  BY <1>1, <1>3, <1>4, <1>5 DEF VolumeInv, CountsOK
<1>7. LockingOK(locking', object')
  BY <1>1, <1>3, NotLocking, AllFacts DEF VolumeInv, LockingOK
<1>8. vcb.exists
  BY <1>1, Exists
<1> QED
  BY <1>1, <1>4, <1>6, <1>7, <1>8, FewerStep

\* A handle in FatLockVolumeInternal stays open when others are closed.
LEMMA ClosedLocking ==
    ASSUME VolumeInv, NEW S \in SUBSET All,
           \A o \in S : object[o] \in {"closing", "queued", "taken"},
           NEW now \in SUBSET Along(S)
    PROVE  LockingOK(locking, Closed(S, now))
<1>1. object \in [All -> ObjectPlaces]
  BY DEF VolumeInv, CountsOK
<1>2. \A u \in Users : Closed(S, now)[u] = IF u \in S THEN "none" ELSE object[u]
  BY <1>1, ClosedFacts
<1> QED
  BY <1>2, AllFacts DEF VolumeInv, LockingOK

LEMMA CommonCloseStep ==
    ASSUME VolumeInv, NEW o \in All, CommonClose(o)
    PROVE  VolumeInv'
<1>1. PICK now \in SUBSET Along({o}) :
        LET V == CountOut(vcb, {o} \cup now)
            O == Closed({o}, now)
        IN  /\ object[o] \in {"closing", "taken"}
            /\ vpb' = Dereference(vpb, now)
            /\ \/ /\ ~ vcb.closeInProgress /\ object[o] = "closing"
                  /\ V.openFileCount = 0 /\ V.condition # "good"
                  /\ object' = [O EXCEPT ![o] = "recheck"]
                  /\ vcb' = [V EXCEPT !.openFileCount = 1, !.closeInProgress = TRUE]
               \/ /\ \/ vcb.closeInProgress \/ object[o] = "taken"
                     \/ V.openFileCount # 0 \/ V.condition = "good"
                  /\ object' = O
                  /\ vcb' = V
            /\ UNCHANGED locking
  BY DEF CommonClose
<1> DEFINE S == {o}
           V == CountOut(vcb, S \cup now)
           P == Dereference(vpb, now)
           O == Closed(S, now)
<1>2. /\ CountsOK(vcb, vpb, object) /\ object \in [All -> ObjectPlaces]
      /\ S \in SUBSET All /\ \A q \in S : object[q] \in {"closing", "queued", "taken"}
      /\ now \in SUBSET Along(S) /\ o \in S
  BY <1>1 DEF VolumeInv, CountsOK
<1> HIDE DEF S
<1>3. /\ CountsOK(V, P, O) /\ V.exists = vcb.exists /\ V.locked = vcb.locked
      /\ V.fileObjectWithVcbLocked = vcb.fileObjectWithVcbLocked
  BY <1>2, CloseMany
<1>4. /\ CountedIn(O) = CountedIn(object) \ (S \cup now)
      /\ ReferringIn(O) = ReferringIn(object) \ now
  BY <1>2, ClosedFacts
<1>5. LockingOK(locking, O)
  BY <1>2, ClosedLocking
<1>6. vcb.exists
  BY <1>1, Exists
<1>7. vpb' = P /\ locking' = locking /\ object[o] \in {"closing", "taken"}
  BY <1>1 DEF S
<1>8. CASE object' = O /\ vcb' = V
  <2> HIDE DEF V, P, O
  <2>1. CountsOK(vcb', vpb', object') /\ LockingOK(locking', object')
    BY <1>3, <1>5, <1>7, <1>8
  <2>2. /\ vcb'.exists = vcb.exists
        /\ vcb'.locked => /\ vcb.locked
                          /\ vcb'.fileObjectWithVcbLocked = vcb.fileObjectWithVcbLocked
    BY <1>3, <1>8
  <2>3. CountedIn(object') \cap Users \subseteq CountedIn(object)
    BY <1>4, <1>8
  <2> QED
    BY <1>6, <2>1, <2>2, <2>3, FewerStep
<1>9. CASE /\ V.openFileCount = 0 /\ object' = [O EXCEPT ![o] = "recheck"]
           /\ vcb' = [V EXCEPT !.openFileCount = 1, !.closeInProgress = TRUE]
  <2>1. o \notin CountedIn(O) /\ o \notin ReferringIn(O)
    BY <1>2, <1>4, <1>7 DEF ReferringIn
  <2> HIDE DEF V, P, O, S
  <2>2. /\ O \in [All -> ObjectPlaces] /\ V \in Vcb
        /\ Counts(V, CountedIn(O), RecheckIn(O))
    BY <1>3 DEF CountsOK
  <2>3. CountedIn(O) \cap Users = {} /\ RecheckIn(O) = {}
    BY <1>3, <1>9, NoneCounted
  <2>4. /\ object' \in [All -> ObjectPlaces]
        /\ \A q \in All : object'[q] = IF q = o THEN "recheck" ELSE O[q]
    BY <1>9, <2>2 DEF ObjectPlaces
  <2>5. /\ CountedIn(object') = CountedIn(O) /\ ReferringIn(object') = ReferringIn(O)
        /\ RecheckIn(object') = {o}
    BY <2>1, <2>3, <2>4 DEF CountedIn, ReferringIn, RecheckIn
  <2>6. vcb' \in Vcb
    <3>1. 1 \in Nat /\ TRUE \in BOOLEAN
      OBVIOUS
    <3> QED
      BY <1>9, <2>2, <3>1, VcbEdited, Zenon
  <2>7. /\ vcb'.openFileCount = 1 /\ vcb'.exists = V.exists /\ vcb'.locked = V.locked
        /\ vcb'.directAccessOpenCount = V.directAccessOpenCount
        /\ vcb'.internalOpenCount = V.internalOpenCount
        /\ vcb'.residualOpenCount = V.residualOpenCount
        /\ vcb'.fileObjectWithVcbLocked = V.fileObjectWithVcbLocked
    BY <1>9, <2>2 DEF Vcb
  <2>8. Cardinality({o}) = 1
    BY FS_Singleton
  <2>9. Cardinality(CountedIn(O) \cap Users) = 0
    BY <2>3, FS_EmptySet, Zenon
  <2>10. Counts(vcb', CountedIn(object'), RecheckIn(object'))
    BY <2>2, <2>5, <2>7, <2>8, <2>9 DEF Counts
  <2>11. CountsOK(vcb', vpb', object')
    BY <1>3, <1>7, <2>4, <2>5, <2>6, <2>10 DEF CountsOK
  <2>12. LockingOK(locking', object')
    <3>1. \A h \in Handles : locking[h] # "no" => h # o
      BY <1>7, NotLocking
    <3> QED
      BY <1>5, <1>7, <2>4, <3>1, AllFacts DEF LockingOK
  <2> QED
    BY <1>3, <1>4, <1>6, <2>5, <2>7, <2>11, <2>12, FewerStep
<1> QED
  BY <1>1, <1>8, <1>9 DEF S

LEMMA RecheckStep ==
    ASSUME VolumeInv, NEW o \in All, Recheck(o)
    PROVE  VolumeInv'
<1> DEFINE a == vcb.openFileCount - 1
           V == [vcb EXCEPT !.openFileCount = a, !.closeInProgress = FALSE]
           O == [object EXCEPT ![o] = "none"]
<1>1. object[o] = "recheck" /\ CheckForDismount(V, O) /\ UNCHANGED locking
  BY DEF Recheck
<1>2. /\ CountsOK(vcb, vpb, object) /\ object \in [All -> ObjectPlaces] /\ vcb \in Vcb
      /\ Counts(vcb, CountedIn(object), RecheckIn(object)) /\ vpb \in Vpb
      /\ vpb.referenceCount = Cardinality(ReferringIn(object))
  BY DEF VolumeInv, CountsOK
<1>3. /\ O \in [All -> ObjectPlaces]
      /\ \A q \in All : O[q] = IF q = o THEN "none" ELSE object[q]
  BY <1>2 DEF ObjectPlaces
<1> HIDE DEF O
<1>4. /\ CountedIn(O) = CountedIn(object) /\ ReferringIn(O) = ReferringIn(object)
      /\ RecheckIn(O) = RecheckIn(object) \ {o} /\ {o} \in SUBSET RecheckIn(object)
  BY <1>1, <1>3 DEF CountedIn, ReferringIn, RecheckIn
<1>5. /\ Cardinality(RecheckIn(object) \ {o}) =
             Cardinality(RecheckIn(object)) - Cardinality({o})
      /\ Cardinality(RecheckIn(object)) \in Nat
      /\ RecheckIn(object) \ {o} \in SUBSET All
  BY <1>4, InAll, WholeSize
<1>6. Cardinality({o}) = 1
  BY FS_Singleton
<1>7. Cardinality(RecheckIn(object) \ {o}) \in Nat
  BY <1>5, WholeSize
<1>8. Cardinality(CountedIn(object) \cap Users) \in Nat
  BY InAll, SizeOf
<1>9. a \in Nat /\ a = Cardinality(CountedIn(O) \cap Users) + Cardinality(RecheckIn(O))
  BY <1>2, <1>4, <1>5, <1>6, <1>7, <1>8 DEF Counts
<1>10. V \in Vcb
  <2>1. FALSE \in BOOLEAN
    OBVIOUS
  <2> HIDE DEF a
  <2> QED
    BY <1>2, <1>9, <2>1, VcbEdited, Zenon
<1>11. /\ V.openFileCount = a /\ V.exists = vcb.exists /\ V.locked = vcb.locked
       /\ V.directAccessOpenCount = vcb.directAccessOpenCount
       /\ V.internalOpenCount = vcb.internalOpenCount
       /\ V.residualOpenCount = vcb.residualOpenCount
       /\ V.fileObjectWithVcbLocked = vcb.fileObjectWithVcbLocked
  BY <1>2 DEF Vcb
<1> HIDE DEF a, V
<1>12. CountsOK(V, vpb, O)
  BY <1>2, <1>3, <1>4, <1>9, <1>10, <1>11 DEF CountsOK, Counts
<1>13. V.exists
  BY <1>1, <1>11, Exists
<1>14. LockOK(V, O)
  BY <1>4, <1>11 DEF VolumeInv, LockOK
<1>15. LockingOK(locking, O)
  BY <1>1, <1>3, AllFacts DEF VolumeInv, LockingOK
<1> QED
  BY <1>1, <1>12, <1>13, <1>14, <1>15, CheckStep

LEMMA ScanStep ==
    ASSUME VolumeInv, Scan
    PROVE  VolumeInv'
BY CheckStep DEF Scan, VolumeInv

-----------------------------------------------------------------------------
(* Lock, unlock, dismount *)

LEMMA LockWaitsStep ==
    ASSUME VolumeInv, NEW h \in Handles, LockWaits(h)
    PROVE  VolumeInv'
<1> DEFINE S == At("queued")
           q == IF locking[h] = "no" THEN "first" ELSE "second"
<1>1. PICK now \in SUBSET Along(S) :
          /\ object' = Closed(S, now)
          /\ vcb' = CountOut(vcb, S \cup now)
          /\ vpb' = Dereference(vpb, now)
  BY DEF LockWaits
<1>2. object[h] = "open" /\ locking' = [locking EXCEPT ![h] = q] /\ h \in All
  BY AllFacts DEF LockWaits
<1>3. /\ CountsOK(vcb, vpb, object) /\ object \in [All -> ObjectPlaces]
      /\ S \in SUBSET All /\ \A o \in S : object[o] \in {"closing", "queued", "taken"}
      /\ h \notin S
  BY <1>2, QueuedFacts DEF VolumeInv, CountsOK
<1> HIDE DEF S
<1>4. /\ CountsOK(vcb', vpb', object')
      /\ vcb'.exists = vcb.exists /\ vcb'.locked = vcb.locked
      /\ vcb'.fileObjectWithVcbLocked = vcb.fileObjectWithVcbLocked
  BY <1>1, <1>3, CloseMany
<1>5. /\ CountedIn(object') = CountedIn(object) \ (S \cup now)
      /\ \A u \in Users : object'[u] = IF u \in S THEN "none" ELSE object[u]
  BY <1>1, <1>3, ClosedFacts
<1>6. LockingOK(locking, object')
  BY <1>1, <1>3, ClosedLocking
<1>7. /\ locking' \in [Handles -> {"no", "first", "second"}]
      /\ \A g \in Handles : locking'[g] = IF g = h THEN q ELSE locking[g]
  BY <1>2, <1>6 DEF LockingOK
<1>8. object'[h] = "open"
  BY <1>2, <1>3, <1>5, AllFacts
<1>9. LockingOK(locking', object')
  BY <1>6, <1>7, <1>8 DEF LockingOK
<1>10. vcb.exists
  BY <1>2, Exists
<1> QED
  BY <1>4, <1>5, <1>9, <1>10, FewerStep

\* With one open left, the lock is that of the handle that asked for it.
LEMMA LockEndsStep ==
    ASSUME VolumeInv, NEW h \in Handles, LockEnds(h)
    PROVE  VolumeInv'
<1> DEFINE S == At("queued")
<1>1. PICK now \in SUBSET Along(S) :
          LockIf(h, now, ReferencesAtLock(now) <= 2 + 1 /\ OpensAtLock(now) = 1)
  BY DEF LockEnds
<1> DEFINE V == CountOut(vcb, S \cup now)
           P == Dereference(vpb, now)
           O == Closed(S, now)
<1>2. /\ locking[h] = "second" /\ object' = O
      /\ \/ /\ V.openFileCount = 1
            /\ vcb' = [V EXCEPT !.locked = TRUE, !.fileObjectWithVcbLocked = h]
            /\ vpb' = [P EXCEPT !.locked = TRUE]
         \/ vcb' = V /\ vpb' = P
      /\ locking' = [locking EXCEPT ![h] = "no"]
  BY <1>1 DEF LockIf, OpensAtLock
<1>3. object[h] = "open" /\ h \in All /\ h \in Users
  BY <1>2, AllFacts DEF VolumeInv, LockingOK
<1>4. /\ CountsOK(vcb, vpb, object) /\ object \in [All -> ObjectPlaces]
      /\ S \in SUBSET All /\ \A o \in S : object[o] \in {"closing", "queued", "taken"}
      /\ h \notin S
  BY <1>3, QueuedFacts DEF VolumeInv, CountsOK
<1>5. /\ CountsOK(V, P, O) /\ V.exists = vcb.exists /\ V.locked = vcb.locked
      /\ V.fileObjectWithVcbLocked = vcb.fileObjectWithVcbLocked
  BY <1>4, CloseMany
<1>6. /\ CountedIn(O) = CountedIn(object) \ (S \cup now)
      /\ \A u \in Users : O[u] = IF u \in S THEN "none" ELSE object[u]
  BY <1>4, ClosedFacts
<1>7. LockingOK(locking, O)
  BY <1>4, ClosedLocking
<1> HIDE DEF V, P, O, S
<1>8. /\ locking' \in [Handles -> {"no", "first", "second"}]
      /\ \A g \in Handles : locking'[g] = IF g = h THEN "no" ELSE locking[g]
  BY <1>2, <1>7 DEF LockingOK
<1>9. LockingOK(locking', object')
  BY <1>2, <1>7, <1>8 DEF LockingOK
<1>10. vcb.exists
  BY <1>3, Exists
<1>11. CASE vcb' = V /\ vpb' = P
  BY <1>2, <1>5, <1>6, <1>9, <1>10, <1>11, FewerStep
<1>12. CASE /\ V.openFileCount = 1
            /\ vcb' = [V EXCEPT !.locked = TRUE, !.fileObjectWithVcbLocked = h]
            /\ vpb' = [P EXCEPT !.locked = TRUE]
  <2>1. /\ O \in [All -> ObjectPlaces] /\ V \in Vcb /\ P \in Vpb
        /\ Counts(V, CountedIn(O), RecheckIn(O))
        /\ P.referenceCount = Cardinality(ReferringIn(O))
    BY <1>5 DEF CountsOK
  <2>2. TRUE \in BOOLEAN /\ h \in Handles \cup {NoHandle}
    OBVIOUS
  <2>3. vcb' \in Vcb
    BY <1>12, <2>1, <2>2, VcbEdited, Zenon
  <2>4. vpb' \in Vpb
    BY <1>12, <2>1, <2>2, VpbEdited, Zenon
  <2>5. /\ vcb'.openFileCount = V.openFileCount
        /\ vcb'.directAccessOpenCount = V.directAccessOpenCount
        /\ vcb'.internalOpenCount = V.internalOpenCount
        /\ vcb'.residualOpenCount = V.residualOpenCount
        /\ vcb'.exists = V.exists /\ vcb'.fileObjectWithVcbLocked = h
        /\ vpb'.referenceCount = P.referenceCount
    BY <1>12, <2>1 DEF Vcb, Vpb
  <2>6. CountsOK(vcb', vpb', object')
    BY <1>2, <2>1, <2>3, <2>4, <2>5 DEF CountsOK, Counts
  <2> DEFINE A == CountedIn(O) \cap Users
  <2>7. h \in A
    BY <1>3, <1>4, <1>6 DEF CountedIn
  <2>8. Cardinality(A) + Cardinality(RecheckIn(O)) = 1
    BY <1>12, <2>1 DEF Counts
  <2>9. A \in SUBSET All
    BY InAll
  <2> HIDE DEF A
  <2>10. Cardinality(A) \in Nat /\ Cardinality(A \ {h}) = Cardinality(A) - Cardinality({h})
    BY <2>7, <2>9, WholeSize
  <2>11. Cardinality(RecheckIn(O)) \in Nat
    BY InAll, WholeSize
  <2>12. IsFiniteSet(A \ {h}) /\ Cardinality(A \ {h}) \in Nat
    BY <2>9, WholeSize
  <2>13. Cardinality({h}) = 1
    BY FS_Singleton
  <2>14. Cardinality(A \ {h}) = 0
    BY <2>8, <2>10, <2>11, <2>12, <2>13
  <2>15. A \ {h} = {}
    BY <2>12, <2>14, FS_EmptySet
  <2>16. LockOK(vcb', object')
    BY <1>2, <2>5, <2>15 DEF LockOK, A
  <2>17. DeletedOK(vcb', object')
    BY <1>5, <1>10, <2>5 DEF DeletedOK
  <2> QED
    BY <1>9, <2>6, <2>16, <2>17 DEF VolumeInv
<1> QED
  BY <1>2, <1>11, <1>12

\* No file object moves and no count changes.
LEMMA SameCountsStep ==
    ASSUME VolumeInv, object' = object, locking' = locking, vcb' \in Vcb, vpb' \in Vpb,
           vcb'.openFileCount = vcb.openFileCount,
           vcb'.directAccessOpenCount = vcb.directAccessOpenCount,
           vcb'.internalOpenCount = vcb.internalOpenCount,
           vcb'.residualOpenCount = vcb.residualOpenCount,
           vpb'.referenceCount = vpb.referenceCount, vcb'.exists = vcb.exists,
           vcb'.locked => /\ vcb.locked
                          /\ vcb'.fileObjectWithVcbLocked = vcb.fileObjectWithVcbLocked
    PROVE  VolumeInv'
<1>1. CountsOK(vcb', vpb', object')
  BY DEF VolumeInv, CountsOK, Counts
<1> QED
  BY <1>1 DEF VolumeInv, DeletedOK, LockOK

LEMMA UnlockStep ==
    ASSUME VolumeInv, NEW h \in Handles, Unlock(h)
    PROVE  VolumeInv'
<1>1. /\ vpb' = [vpb EXCEPT !.locked = FALSE] /\ object' = object /\ locking' = locking
      /\ vcb' = [vcb EXCEPT !.locked = FALSE, !.fileObjectWithVcbLocked = NoHandle]
  BY DEF Unlock
<1>2. vcb \in Vcb /\ vpb \in Vpb
  BY DEF VolumeInv, CountsOK
<1>3. FALSE \in BOOLEAN /\ NoHandle \in Handles \cup {NoHandle}
  OBVIOUS
<1>4. vcb' \in Vcb
  BY <1>1, <1>2, <1>3, VcbEdited, Zenon
<1>5. vpb' \in Vpb
  BY <1>1, <1>2, <1>3, VpbEdited, Zenon
<1>6. /\ vcb'.openFileCount = vcb.openFileCount
      /\ vcb'.directAccessOpenCount = vcb.directAccessOpenCount
      /\ vcb'.internalOpenCount = vcb.internalOpenCount
      /\ vcb'.residualOpenCount = vcb.residualOpenCount
      /\ vcb'.exists = vcb.exists /\ ~ vcb'.locked
      /\ vpb'.referenceCount = vpb.referenceCount
  BY <1>1, <1>2 DEF Vcb, Vpb
<1> QED
  BY <1>1, <1>4, <1>5, <1>6, SameCountsStep

LEMMA DismountStep ==
    ASSUME VolumeInv, NEW h \in Handles, Dismount(h)
    PROVE  VolumeInv'
<1>1. /\ vcb' = [vcb EXCEPT !.condition = "bad", !.dismountedBy = h]
      /\ vpb' = vpb /\ object' = object /\ locking' = locking
  BY DEF Dismount
<1>2. vcb \in Vcb /\ vpb \in Vpb
  BY DEF VolumeInv, CountsOK
<1>3. "bad" \in {"good", "notMounted", "bad"} /\ h \in Handles \cup {NoHandle}
  OBVIOUS
<1>4. vcb' \in Vcb
  BY <1>1, <1>2, <1>3, VcbEdited, Zenon
<1>5. /\ vcb'.openFileCount = vcb.openFileCount
      /\ vcb'.directAccessOpenCount = vcb.directAccessOpenCount
      /\ vcb'.internalOpenCount = vcb.internalOpenCount
      /\ vcb'.residualOpenCount = vcb.residualOpenCount
      /\ vcb'.exists = vcb.exists /\ vcb'.locked = vcb.locked
      /\ vcb'.fileObjectWithVcbLocked = vcb.fileObjectWithVcbLocked
  BY <1>1, <1>2 DEF Vcb
<1>6. vpb' \in Vpb /\ vpb'.referenceCount = vpb.referenceCount
  BY <1>1, <1>2
<1>7. vcb'.locked => /\ vcb.locked
                     /\ vcb'.fileObjectWithVcbLocked = vcb.fileObjectWithVcbLocked
  BY <1>5
<1> QED
  BY <1>1, <1>4, <1>5, <1>6, <1>7, SameCountsStep

LEMMA MediumChangesStep ==
    ASSUME VolumeInv, MediumChanges
    PROVE  VolumeInv'
<1>1. PICK c \in {"good", "notMounted", "bad"} : vcb' = [vcb EXCEPT !.condition = c]
  BY DEF MediumChanges
<1>2. vpb' = vpb /\ object' = object /\ locking' = locking
  BY DEF MediumChanges
<1>3. vcb \in Vcb /\ vpb \in Vpb
  BY DEF VolumeInv, CountsOK
<1>4. /\ vcb' \in Vcb
      /\ vcb'.openFileCount = vcb.openFileCount
      /\ vcb'.directAccessOpenCount = vcb.directAccessOpenCount
      /\ vcb'.internalOpenCount = vcb.internalOpenCount
      /\ vcb'.residualOpenCount = vcb.residualOpenCount
      /\ vcb'.exists = vcb.exists /\ vcb'.locked = vcb.locked
      /\ vcb'.fileObjectWithVcbLocked = vcb.fileObjectWithVcbLocked
  BY <1>1, <1>3 DEF Vcb
<1>5. vpb' \in Vpb /\ vpb'.referenceCount = vpb.referenceCount
  BY <1>2, <1>3
<1>6. vcb'.locked => /\ vcb.locked
                     /\ vcb'.fileObjectWithVcbLocked = vcb.fileObjectWithVcbLocked
  BY <1>4
<1> QED
  BY <1>2, <1>4, <1>5, <1>6, SameCountsStep

-----------------------------------------------------------------------------
(* The invariant *)

LEMMA InitVolumeInv == InitVolume => VolumeInv
<1> SUFFICES ASSUME InitVolume PROVE VolumeInv
  OBVIOUS
<1>1. /\ object = [o \in All |-> IF o = "volume" THEN "open" ELSE "none"]
      /\ vpb.referenceCount = 1 /\ vcb.openFileCount = 0 /\ vcb.directAccessOpenCount = 0
      /\ vcb.internalOpenCount = 1 /\ vcb.residualOpenCount = 1
      /\ vcb.exists /\ ~ vcb.locked /\ locking = [h \in Handles |-> "no"]
  BY DEF InitVolume, All
<1>2. vcb \in Vcb /\ vpb \in Vpb
  BY DEF InitVolume, Vcb, Vpb
<1>3. object \in [All -> ObjectPlaces]
  BY <1>1 DEF ObjectPlaces
<1>4. /\ "volume" \in All /\ "volume" \in Streams /\ "volume" \in Residuals
      /\ "volume" \notin Users /\ "volume" \notin Handles
  BY AllFacts
<1>5. /\ CountedIn(object) = {"volume"} /\ ReferringIn(object) = {"volume"}
      /\ RecheckIn(object) = {}
  BY <1>1, <1>4 DEF CountedIn, ReferringIn, RecheckIn
<1>6. /\ CountedIn(object) \cap Users = {} /\ CountedIn(object) \cap Handles = {}
      /\ CountedIn(object) \cap Streams = {"volume"}
      /\ CountedIn(object) \cap Residuals = {"volume"}
  BY <1>4, <1>5
<1>7. Cardinality({"volume"}) = 1
  BY FS_Singleton
<1>8. /\ Cardinality(CountedIn(object) \cap Users) = 0
      /\ Cardinality(CountedIn(object) \cap Handles) = 0
      /\ Cardinality(CountedIn(object) \cap Streams) = 1
      /\ Cardinality(CountedIn(object) \cap Residuals) = 1
      /\ Cardinality(RecheckIn(object)) = 0 /\ Cardinality(ReferringIn(object)) = 1
  BY <1>5, <1>6, <1>7, FS_EmptySet, Zenon
<1>9. Counts(vcb, CountedIn(object), RecheckIn(object))
  BY <1>1, <1>8 DEF Counts
<1>10. CountsOK(vcb, vpb, object)
  BY <1>1, <1>2, <1>3, <1>8, <1>9 DEF CountsOK
<1>11. DeletedOK(vcb, object) /\ LockOK(vcb, object)
  BY <1>1 DEF DeletedOK, LockOK
<1>12. LockingOK(locking, object)
  BY <1>1 DEF LockingOK
<1> QED
  BY <1>10, <1>11, <1>12 DEF VolumeInv

LEMMA StepVolumeInv ==
    ASSUME VolumeInv, [NextVolume]_volumeVars
    PROVE  VolumeInv'
<1>1. ASSUME NEW o \in Users, IssueCreate(o) \/ Recheck(o) PROVE VolumeInv'
  BY <1>1, IssueCreateStep, RecheckStep, AllFacts
<1>2. ASSUME NEW f \in Files, CreateFile(f) \/ CleanupFile(f) PROVE VolumeInv'
  BY <1>2, CreateFileStep, CleanupFileStep
<1>3. ASSUME NEW h \in Handles,
             \/ CreateHandle(h) \/ CreateExclusive(h) \/ CleanupHandle(h)
             \/ LockWaits(h) \/ LockEnds(h) \/ Unlock(h) \/ Dismount(h)
      PROVE  VolumeInv'
  BY <1>3, CreateHandleStep, CreateExclusiveStep, CleanupHandleStep, LockWaitsStep,
     LockEndsStep, UnlockStep, DismountStep
<1>4. ASSUME NEW s \in Streams, OpenDirectoryFile(s) \/ Recheck(s) PROVE VolumeInv'
  BY <1>4, OpenDirectoryFileStep, RecheckStep, AllFacts
<1>5. ASSUME NEW o \in Users \cup Streams,
             SendClose(o) \/ DeferClose(o) \/ WorkerTakesClose(o) \/ CommonClose(o)
      PROVE  VolumeInv'
  BY <1>5, SendCloseStep, DeferCloseStep, CommonCloseStep DEF All
<1>6. CASE Scan
  BY <1>6, ScanStep
<1>7. CASE MediumChanges
  BY <1>7, MediumChangesStep
<1>8. CASE UNCHANGED volumeVars
  BY <1>8 DEF volumeVars, VolumeInv, CountsOK, DeletedOK, LockOK, LockingOK
<1> QED
  BY <1>1, <1>2, <1>3, <1>4, <1>5, <1>6, <1>7, <1>8 DEF NextVolume

LEMMA VolumeInvProperties ==
    ASSUME VolumeInv
    PROVE  CountsMeanOpens /\ DeletedUnused /\ LockExcludes
<1>1. /\ object \in [All -> ObjectPlaces] /\ vcb \in Vcb /\ vpb \in Vpb
      /\ Counts(vcb, CountedIn(object), RecheckIn(object))
      /\ vpb.referenceCount = Cardinality(ReferringIn(object))
  BY DEF VolumeInv, CountsOK
<1>2. TypeOKVolume
  BY <1>1 DEF VolumeInv, LockingOK, TypeOKVolume, All, Vpb
<1>3. /\ CountedIn(object) \cap Users = {o \in Users : Counted(o)}
      /\ CountedIn(object) \cap Handles = {h \in Handles : Counted(h)}
      /\ CountedIn(object) \cap Streams = {s \in Streams : Counted(s)}
      /\ CountedIn(object) \cap Residuals = {s \in Residuals : Counted(s)}
  BY AllFacts DEF CountedIn, Counted
<1>4. /\ ReferringIn(object) = At("creating") \cup At("open") \cup At("cleaned")
      /\ RecheckIn(object) = At("recheck")
  BY DEF ReferringIn, RecheckIn, At, All
<1>5. CountsMeanOpens
  BY <1>1, <1>2, <1>3, <1>4 DEF CountsMeanOpens, Counts
<1>6. DeletedUnused
  BY DEF VolumeInv, DeletedOK, DeletedUnused, All
<1>7. LockExcludes
  BY <1>3 DEF VolumeInv, LockOK, LockExcludes
<1> QED
  BY <1>5, <1>6, <1>7

-----------------------------------------------------------------------------
(* Theorems *)

\* The counts are those of the file objects, a deleted VCB has none, a lock leaves only its
\* owner, and a handle that asks for a lock is open: in every state.
THEOREM VolumeInvariant == SpecVolume => []VolumeInv
<1>1. VolumeInv /\ [NextVolume]_volumeVars => VolumeInv'
  BY StepVolumeInv
<1> QED
  BY <1>1, InitVolumeInv, PTL DEF SpecVolume

\* OpenFileCount, InternalOpenCount, ResidualOpenCount and the ReferenceCount of the VPB are
\* what they stand for, with any number of file objects and however their closes run.
THEOREM CountsAreOpens == SpecVolume => []CountsMeanOpens
<1>1. VolumeInv => CountsMeanOpens
  BY VolumeInvProperties
<1> QED
  BY <1>1, VolumeInvariant, PTL

\* FatDeleteVcb never takes the VCB from under a file object, a create on its way, a
\* deferred close, the worker's close or a close at its recheck.
THEOREM DeletedWhenUnused == SpecVolume => []DeletedUnused
<1>1. VolumeInv => DeletedUnused
  BY VolumeInvProperties
<1> QED
  BY <1>1, VolumeInvariant, PTL

\* No other file object is open on a locked volume.
THEOREM LockIsExclusive == SpecVolume => []LockExcludes
<1>1. VolumeInv => LockExcludes
  BY VolumeInvProperties
<1> QED
  BY <1>1, VolumeInvariant, PTL

-----------------------------------------------------------------------------
(* The dirty mark *)

SetterPlaces == {"idle", "cancel", "test", "mark", "flag", "rearm"}

TypeOKDirty ==
    /\ vcbState \in [dirty : BOOLEAN, mountedDirty : BOOLEAN, good : BOOLEAN]
    /\ mark \in BOOLEAN
    /\ cleaning \in [timer : BOOLEAN, dpc : {"no", "queued", "running"},
                     packet : {"no", "queued", "marked", "redirty"}]
    /\ setter \in [Setters -> SetterPlaces]
    /\ flusher \in {"idle", "cancel", "mark", "clear", "drop", "bad"}
    /\ cache \in [unwritten : BOOLEAN, recent : BOOLEAN]
    /\ lost \in [flag : BOOLEAN, mark : BOOLEAN]

\* What is tested and what is cancelled are apart, but whoever cancels goes on.
DirtyInv == TypeOKDirty /\ CleanIsUnderWay

LEMMA InitDirtyInv == InitDirty => DirtyInv
<1> SUFFICES ASSUME InitDirty PROVE DirtyInv
  OBVIOUS
<1>1. /\ vcbState \in [dirty : BOOLEAN, mountedDirty : BOOLEAN, good : BOOLEAN]
      /\ ~ vcbState.dirty
  BY DEF InitDirty
<1>2. /\ setter \in [Setters -> SetterPlaces]
      /\ flusher \in {"idle", "cancel", "mark", "clear", "drop", "bad"}
  BY DEF InitDirty, SetterPlaces
<1>3. cleaning \in [timer : BOOLEAN, dpc : {"no", "queued", "running"},
                    packet : {"no", "queued", "marked", "redirty"}]
  BY DEF InitDirty
<1>4. /\ cache \in [unwritten : BOOLEAN, recent : BOOLEAN]
      /\ lost \in [flag : BOOLEAN, mark : BOOLEAN]
  BY DEF InitDirty
<1>5. mark \in BOOLEAN
  BY DEF InitDirty
<1> QED
  BY <1>1, <1>2, <1>3, <1>4, <1>5 DEF DirtyInv, TypeOKDirty, CleanIsUnderWay

\* FatMarkVolume: what it does to the mark, and to the history of the mark.
LEMMA Marking ==
    ASSUME DirtyInv
    PROVE  /\ \A m \in BOOLEAN : MarkReturns(m) \/ MarkRaises(m) => mark' \in BOOLEAN
           /\ mark' \in BOOLEAN /\ MarkLeft =>
                  lost' \in [flag : BOOLEAN, mark : BOOLEAN] /\ lost'.flag = lost.flag
<1>1. /\ mark \in BOOLEAN /\ lost \in [flag : BOOLEAN, mark : BOOLEAN]
  BY DEF DirtyInv, TypeOKDirty
<1>2. ASSUME NEW m \in BOOLEAN, MarkReturns(m) \/ MarkRaises(m) PROVE mark' \in BOOLEAN
  BY <1>1, <1>2 DEF MarkReturns, MarkRaises
<1>3. ASSUME mark' \in BOOLEAN, MarkLeft
      PROVE  lost' \in [flag : BOOLEAN, mark : BOOLEAN] /\ lost'.flag = lost.flag
  BY <1>1, <1>3 DEF MarkLeft
<1> QED
  BY <1>2, <1>3

LEMMA SetterStep ==
    ASSUME DirtyInv, NEW s \in Setters, Change(s) \/ SetDirtyBcb(s)
    PROVE  DirtyInv'
<1> USE DEF DirtyInv, TypeOKDirty, SetterPlaces
<1>1. CASE Change(s)
  <2>1. /\ setter' \in [Setters -> SetterPlaces] /\ setter[s] = "idle"
        /\ \A t \in Setters : t # s => setter'[t] = setter[t]
    BY <1>1 DEF Change, SetterAt
  <2>2. /\ cache' \in [unwritten : BOOLEAN, recent : BOOLEAN]
        /\ UNCHANGED <<vcbState, mark, cleaning, flusher, lost>>
    BY <1>1 DEF Change
  <2>3. CleanIsUnderWay'
    BY <2>1, <2>2 DEF CleanIsUnderWay
  <2> QED
    BY <2>1, <2>2, <2>3
<1>2. CASE CancelTimer(s)
  BY <1>2 DEF CancelTimer, SetterAt, CancelClean, CleanIsUnderWay
<1>3. CASE TestDirty(s)
  BY <1>3 DEF TestDirty, SetterAt, CleanIsUnderWay
<1>4. CASE MarkDirty(s)
  <2>1. /\ mark' \in BOOLEAN
        /\ lost' \in [flag : BOOLEAN, mark : BOOLEAN] /\ lost'.flag = lost.flag
    BY <1>4, Marking DEF MarkDirty
  <2>2. /\ setter' \in [Setters -> SetterPlaces] /\ setter[s] = "mark"
        /\ \A t \in Setters : t # s => setter'[t] = setter[t]
    BY <1>4 DEF MarkDirty, SetterAt
  <2>3. UNCHANGED <<vcbState, cleaning, flusher, cache>>
    BY <1>4 DEF MarkDirty
  <2>4. CleanIsUnderWay'
    BY <2>1, <2>2, <2>3 DEF CleanIsUnderWay
  <2> QED
    BY <2>1, <2>2, <2>3, <2>4
<1>5. CASE FlagDirty(s)
  <2>1. setter' \in [Setters -> SetterPlaces] /\ setter'[s] = "rearm"
    BY <1>5 DEF FlagDirty, SetterAt
  <2>2. /\ vcbState' \in [dirty : BOOLEAN, mountedDirty : BOOLEAN, good : BOOLEAN]
        /\ UNCHANGED <<mark, cleaning, flusher, cache, lost>>
    BY <1>5 DEF FlagDirty
  <2> QED
    BY <2>1, <2>2 DEF CleanIsUnderWay
<1>6. CASE SetCleanTimer(s)
  <2>1. setter' \in [Setters -> SetterPlaces]
    <3>1. SetterAt(s, "rearm", "idle")
      BY <1>6 DEF SetCleanTimer
    <3> QED
      BY <3>1 DEF SetterAt
  <2>2. /\ cache' \in [unwritten : BOOLEAN, recent : BOOLEAN]
        /\ cleaning' \in [timer : BOOLEAN, dpc : {"no", "queued", "running"},
                          packet : {"no", "queued", "marked", "redirty"}]
        /\ cleaning'.timer
        /\ UNCHANGED <<vcbState, mark, flusher>>
    BY <1>6 DEF SetCleanTimer
  <2>3. lost' \in [flag : BOOLEAN, mark : BOOLEAN]
    BY <1>6 DEF SetCleanTimer
  <2> QED
    BY <2>1, <2>2, <2>3 DEF CleanIsUnderWay
<1> QED
  BY <1>1, <1>2, <1>3, <1>4, <1>5, <1>6 DEF SetDirtyBcb

LEMMA CleaningStep ==
    ASSUME DirtyInv, TimerExpires \/ CleanVolumeDpc \/ QueueClean \/ DeferredCleanVolume
    PROVE  DirtyInv'
<1> USE DEF DirtyInv, TypeOKDirty, CleanIsUnderWay
<1>1. CASE TimerExpires
  BY <1>1 DEF TimerExpires
<1>2. CASE CleanVolumeDpc
  BY <1>2 DEF CleanVolumeDpc
<1>3. CASE QueueClean
  BY <1>3 DEF QueueClean
<1>4. CASE DeferredClean
  <2>1. mark' \in BOOLEAN
    BY <1>4, Marking DEF DeferredClean
  <2>2. lost' \in [flag : BOOLEAN, mark : BOOLEAN] /\ lost'.flag = lost.flag
    BY <1>4, <2>1, Marking DEF DeferredClean
  <2>3. /\ UNCHANGED <<vcbState, setter, flusher, cache>>
        /\ cleaning' \in [timer : BOOLEAN, dpc : {"no", "queued", "running"},
                          packet : {"no", "queued", "marked", "redirty"}]
        /\ cleaning'.timer = cleaning.timer /\ cleaning'.dpc = cleaning.dpc
    BY <1>4 DEF DeferredClean
  <2> QED
    BY <2>1, <2>2, <2>3
<1>5. CASE TestRace \/ FixRace
  BY <1>5 DEF TestRace, FixRace
<1> QED
  BY <1>1, <1>2, <1>3, <1>4, <1>5 DEF DeferredCleanVolume

LEMMA FlushStep ==
    ASSUME DirtyInv, FlushVolume \/ FlushGoesOn \/ RemoveVolume \/ ShutdownVolume
    PROVE  DirtyInv'
<1> USE DEF DirtyInv, TypeOKDirty, CleanIsUnderWay
<1>1. CASE FlushVolume
  BY <1>1 DEF FlushVolume
<1>2. CASE FlushCancels
  BY <1>2 DEF FlushCancels, CancelClean
<1>3. CASE FlushMarks
  <2>1. mark' \in BOOLEAN
    BY <1>3, Marking DEF FlushMarks
  <2>2. UNCHANGED <<vcbState, cleaning, setter, cache>>
    BY <1>3 DEF FlushMarks
  <2>3. CASE MarkReturns(FALSE) /\ MarkLeft
             /\ flusher' = IF vcbState.mountedDirty THEN "idle" ELSE "clear"
    <3>1. lost' \in [flag : BOOLEAN, mark : BOOLEAN] /\ lost'.flag = lost.flag
      BY <2>1, <2>3, Marking
    <3> QED
      BY <2>1, <2>2, <2>3, <3>1
  <2>4. CASE flusher' = "idle" /\ lost' = [flag |-> TRUE, mark |-> lost.mark \/ mark']
    BY <2>1, <2>2, <2>4
  <2> QED
    BY <1>3, <2>3, <2>4 DEF FlushMarks
<1>4. CASE FlushClears
  BY <1>4 DEF FlushClears
<1>5. CASE RemoveVolume
  <2>1. /\ flusher = "idle" /\ flusher' \in {"drop", "bad"}
        /\ vcbState.dirty => flusher' = "drop"
        /\ UNCHANGED <<vcbState, mark, cleaning, setter, cache, lost>>
    BY <1>5 DEF RemoveVolume, EndsAlone
  <2> QED
    BY <2>1
<1>6. CASE RemoveCancels
  BY <1>6 DEF RemoveCancels, CancelClean
<1>7. CASE VolumeGone
  BY <1>7 DEF VolumeGone
<1>8. CASE ShutdownVolume
  <2>1. mark' \in BOOLEAN
    BY <1>8, Marking DEF ShutdownVolume
  <2> QED
    BY <1>8, <2>1 DEF ShutdownVolume
<1> QED
  BY <1>1, <1>2, <1>3, <1>4, <1>5, <1>6, <1>7, <1>8 DEF FlushGoesOn

LEMMA StepDirtyInv ==
    ASSUME DirtyInv, [NextDirty]_dirtyVars
    PROVE  DirtyInv'
<1>1. CASE SecondPasses \/ LazyWriter
  BY <1>1 DEF SecondPasses, LazyWriter, DirtyInv, TypeOKDirty, CleanIsUnderWay
<1>2. CASE MarkForCheck
  <2>1. mark' \in BOOLEAN
    BY <1>2, Marking DEF MarkForCheck
  <2> QED
    BY <1>2, <2>1 DEF MarkForCheck, DirtyInv, TypeOKDirty, CleanIsUnderWay
<1>3. CASE UNCHANGED dirtyVars
  BY <1>3 DEF dirtyVars, DirtyInv, TypeOKDirty, CleanIsUnderWay
<1> QED
  BY <1>1, <1>2, <1>3, SetterStep, CleaningStep, FlushStep DEF NextDirty

\* With any number of threads that change the volume, and wherever FatMarkVolume fails:
\* when the flag of a good volume is set, a thread, a flush, the timer or the DPC is still
\* to clear it, although cancel, test and timer are steps of their own; but for a flag that
\* the code gave up, and a volume that stays dirty or is being removed.
THEOREM DirtyIsBeingCleaned == SpecDirty => []CleanIsUnderWay
<1>1. DirtyInv /\ [NextDirty]_dirtyVars => DirtyInv'
  BY StepDirtyInv
<1>2. DirtyInv => CleanIsUnderWay
  BY DEF DirtyInv
<1> QED
  BY <1>1, <1>2, InitDirtyInv, PTL DEF SpecDirty

-----------------------------------------------------------------------------
(* The inductive invariant of DiskSpace *)

Runs == Seq(Clusters)
Fcbs == [mcb : Runs, size : Nat, first : Nat, entry : Nat, torn : {"no", "entry", "chain"}]
DiskPcs == {"idle", "reserved", "exclusive", "looping", "found", "unwinding", "got", "spliced",
            "freeing", "freed", "given"}
DiskKinds == {"none", "grow", "move", "truncate", "undo"}
DiskOps ==
    [pc : DiskPcs, kind : DiskKinds,
     promised : 0 .. MaxSize, got : Runs, run : Runs, at : Nat]

TypeOKDisk ==
    /\ fat \in [Clusters -> Nat]
    /\ bitmap \subseteq Clusters
    /\ freeClusters \in Nat
    /\ fcb \in [Chained -> Fcbs]
    /\ op \in [Chained -> DiskOps]

Distinct(s) == \A i, j \in DOMAIN s : s[i] = s[j] => i = j
Apart(s, t) == Range(s) \cap Range(t) = {}
Consecutive(s) == \A i \in DOMAIN s : s[i] = s[1] + i - 1
Chains(table, s) ==
    \A i \in DOMAIN s : table[s[i]] = IF i = Len(s) THEN EndOfChain ELSE s[i + 1]
Empty(table, S) == \A c \in S : table[c] = Available

\* FCB, MCB and FAT agree, and unless a move has torn it the directory entry too.
Entire(F, table) ==
    /\ Chains(table, F.mcb)
    /\ F.mcb = <<>> => F.first = 0 /\ F.size = 0
    /\ F.mcb # <<>> => F.first = F.mcb[1] /\ F.size # 0
    /\ F.torn = "no" => F.entry = F.first

\* Or they do but for a torn chain, with which nothing begins any more.
Sound(F, table) ==
    \/ Entire(F, table)
    \/ F.torn = "chain" /\ F.mcb # <<>> /\ F.first = F.mcb[1]

\* An operation that extends the file, from its promise on.
Growing(F, o, table) ==
    /\ o.kind = "grow" /\ Entire(F, table) /\ Apart(F.mcb, o.got)
    /\ \/ o.pc = "reserved" /\ o.got = <<>> /\ o.run # <<>> /\ o.promised = Len(o.run)
       \/ o.pc = "exclusive" /\ o.got = <<>> /\ o.run = <<>> /\ o.promised # 0
       \/ o.pc = "looping" /\ o.run = <<>> /\ Len(o.got) < o.promised /\ Chains(table, o.got)
       \/ /\ o.pc = "found" /\ o.run # <<>> /\ Len(o.got) + Len(o.run) <= o.promised
          /\ Chains(table, o.got)
       \/ o.pc = "unwinding" /\ o.run # <<>>
       \/ /\ o.pc = "got" /\ o.run = <<>> /\ o.got # <<>> /\ o.promised = Len(o.got)
          /\ Chains(table, o.got)

\* FatMoveFile until the old cluster is out of the chain.
Moving(F, o, table) ==
    /\ o.kind = "move" /\ Entire(F, table) /\ Apart(F.mcb, o.got) /\ o.at \in DOMAIN F.mcb
    /\ \/ o.pc = "reserved" /\ o.got = <<>> /\ Len(o.run) = 1 /\ o.promised = 1
       \/ o.pc = "got" /\ o.run = <<>> /\ Len(o.got) = 1
       \/ /\ o.pc = "spliced" /\ o.run = <<>> /\ Len(o.got) = 1
          /\ table[o.got[1]] = IF o.at = Len(F.mcb) THEN EndOfChain ELSE F.mcb[o.at + 1]

\* The file with its cluster replaced.
Moved(F, o) == [F EXCEPT !.mcb[o.at] = o.run[1]]

\* FatDeallocateDiskSpace: after a failure, at the end of a truncation to zero or to a size,
\* and of a move.  What stays with the file is a chain apart from what is freed.
Freeing(F, o, table) ==
    /\ o.pc \in {"freeing", "freed"}
    /\ \/ o.kind = "undo" /\ o.run = <<>> /\ Sound(F, table) /\ Apart(F.mcb, o.got)
       \/ /\ o.kind = "truncate" /\ o.run = <<>>
          /\ F.size = 0 /\ F.first = 0 /\ F.entry = 0 /\ o.got = F.mcb
       \/ /\ o.kind = "truncate" /\ o.run = <<>> /\ o.at # 0
          /\ F.size # 0 /\ Entire(F, table) /\ Apart(F.mcb, o.got)
       \/ /\ o.kind = "move" /\ Len(o.run) = 1 /\ o.at \in DOMAIN F.mcb
          /\ o.got = <<F.mcb[o.at]>> /\ Entire(Moved(F, o), table)

\* The bits of the clusters are clear, and what the MCB is about to say is right.
Given(F, o, table) ==
    /\ o.pc = "given"
    /\ LET S == Settled(F, o, FALSE)
       IN  S \in Fcbs /\ Sound(S, table) /\ Distinct(S.mcb)

\* A file and the operation on it: what it holds is held once, a run that is found and not
\* yet chained is still free in the FAT, and so is what has been freed.
FileInv(F, o, table) ==
    /\ Distinct(F.mcb) /\ Distinct(o.got) /\ Distinct(o.run)
    /\ Apart(F.mcb, o.run) /\ Apart(o.got, o.run)
    /\ o.pc \in {"reserved", "found"} => Consecutive(o.run)
    /\ o.pc \in {"reserved", "found", "unwinding"} => Empty(table, Range(o.run))
    /\ o.pc = "freed" => Empty(table, Range(o.got))
    /\ \/ o = NoOp /\ Sound(F, table)
       \/ Growing(F, o, table) \/ Moving(F, o, table)
       \/ Freeing(F, o, table) \/ Given(F, o, table)

HeldBy(F, o) ==
    IF o.pc = "given" THEN Range(Settled(F, o, FALSE).mcb)
    ELSE Range(F.mcb) \cup Range(o.got) \cup Range(o.run)

Due(o) ==
    IF o.pc \in {"exclusive", "looping", "found"}
    THEN o.promised - Len(o.got) - Len(o.run) ELSE 0
\* The promises that the operations ops stand for.
PromisesIn(ops) == UNION {{f} \X (1 .. Due(ops[f])) : f \in Chained}

DiskInv ==
    /\ TypeOKDisk
    /\ \A f \in Chained : FileInv(fcb[f], op[f], fat)
    /\ OwnedOnce
    /\ PromisesKept

-----------------------------------------------------------------------------
(* Sequences of clusters *)

LEMMA ClusterFacts ==
    /\ Clusters \subseteq Nat /\ IsFiniteSet(Clusters)
    /\ \A c \in Clusters : c # 0 /\ c # Available
    /\ Available \in Nat /\ EndOfChain \in Nat /\ \A c \in Clusters : c + 1 \in Nat
    /\ NumberOfClusters \in Nat
<1>1. NumberOfClusters \in Nat
  BY NumberOfClustersAssumption
<1>2. IsFiniteSet(2 .. NumberOfClusters + 1)
  BY <1>1, FS_Interval
<1> QED
  BY <1>1, <1>2 DEF Clusters, Available, EndOfChain

\* What a sequence without repetitions covers has its length.
LEMMA RangeSize ==
    ASSUME NEW s \in Runs, Distinct(s)
    PROVE  IsFiniteSet(Range(s)) /\ Cardinality(Range(s)) = Len(s)
<1>1. DOMAIN s = 1 .. Len(s) /\ Len(s) \in Nat
  BY DEF Runs
<1>2. IsFiniteSet(1 .. Len(s)) /\ Cardinality(1 .. Len(s)) = Len(s)
  <2>1. /\ IsFiniteSet(1 .. Len(s))
        /\ Cardinality(1 .. Len(s)) = IF 1 > Len(s) THEN 0 ELSE Len(s) - 1 + 1
    BY <1>1, FS_Interval
  <2> QED
    BY <1>1, <2>1
<1>3. s \in Bijection(1 .. Len(s), Range(s))
  BY <1>1 DEF Runs, Distinct, Range, Bijection, Injection, Surjection, IsInjective
<1>4. ExistsBijection(1 .. Len(s), Range(s))
  BY <1>3 DEF ExistsBijection
<1> QED
  BY <1>2, <1>4, FS_Bijection

LEMMA RunFacts ==
    ASSUME NEW c \in Clusters, NEW n \in Nat \ {0}, NEW r, r = Run(c, n), IsFree(r)
    PROVE  /\ r \in Runs /\ Len(r) = n /\ r # <<>> /\ r[1] = c
           /\ Distinct(r) /\ Consecutive(r)
           /\ Range(r) \subseteq Clusters \ bitmap
<1>1. DOMAIN r = 1 .. n /\ \A i \in 1 .. n : r[i] = c + i - 1
  BY DEF Run
<1>2. \A i \in 1 .. n : r[i] \in Clusters
  BY <1>1 DEF IsFree, Range
<1>3. r \in [1 .. n -> Clusters]
  BY <1>1, <1>2 DEF Run
<1>4. r \in Runs /\ Len(r) = n
  BY <1>3, SeqDef DEF Runs
<1>5. c \in Nat
  BY ClusterFacts
<1> QED
  BY <1>1, <1>4, <1>5 DEF Distinct, Consecutive, IsFree, Range

LEMMA AllocatedFacts ==
    ASSUME NEW table \in [Clusters -> Nat], NEW r \in Runs, r # <<>>,
           Distinct(r), Consecutive(r), NEW new, new = Allocated(table, r)
    PROVE  /\ new \in [Clusters -> Nat]
           /\ \A c \in Clusters : c \notin Range(r) => new[c] = table[c]
           /\ Chains(new, r)
<1>1. DOMAIN r = 1 .. Len(r) /\ Len(r) \in Nat \ {0} /\ \A i \in 1 .. Len(r) : r[i] \in Clusters
  BY DEF Runs
<1>2. Last(r) = r[Len(r)]
  BY DEF Last
<1>3. ASSUME NEW i \in DOMAIN r, i # Len(r) PROVE r[i] # Last(r) /\ r[i] + 1 = r[i + 1]
  <2>1. i + 1 \in DOMAIN r /\ Len(r) \in DOMAIN r /\ r[1] \in Nat
    <3>1. 1 \in DOMAIN r /\ i + 1 \in DOMAIN r /\ Len(r) \in DOMAIN r
      BY <1>1, <1>3
    <3> QED
      BY <1>1, <3>1, ClusterFacts
  <2>2. r[i] = r[1] + i - 1 /\ r[i + 1] = r[1] + (i + 1) - 1
    BY <2>1 DEF Consecutive
  <2>3. r[i] # r[Len(r)]
    BY <2>1, <1>3 DEF Distinct
  <2> QED
    BY <1>1, <1>2, <2>1, <2>2, <2>3
<1>4. new \in [Clusters -> Nat]
  BY ClusterFacts DEF Allocated
<1>5. \A i \in DOMAIN r : r[i] \in Range(r)
  BY DEF Range
<1> QED
  BY <1>1, <1>2, <1>3, <1>4, <1>5 DEF Chains, Allocated

LEMMA LastFacts ==
    ASSUME NEW s \in Runs, s # <<>>
    PROVE  /\ Last(s) = s[Len(s)] /\ Len(s) \in DOMAIN s
           /\ Last(s) \in Range(s) /\ Last(s) \in Clusters
BY DEF Runs, Last, Range

LEMMA LinkedFacts ==
    ASSUME fat \in [Clusters -> Nat], NEW s \in Runs, NEW c \in Nat, NEW new, new = Linked(s, c)
    PROVE  /\ new \in [Clusters -> Nat]
           /\ s = <<>> => new = fat
           /\ \A d \in Clusters : d \notin Range(s) => new[d] = fat[d]
           /\ s # <<>> => new[Last(s)] = c /\ \A d \in Clusters : d # Last(s) => new[d] = fat[d]
<1>1. CASE s = <<>>
  BY <1>1 DEF Linked
<1>2. CASE s # <<>>
  BY <1>2, LastFacts DEF Linked
<1> QED
  BY <1>1, <1>2

LEMMA ConcatFacts ==
    ASSUME NEW s \in Runs, NEW t \in Runs
    PROVE  /\ s \o t \in Runs /\ Len(s \o t) = Len(s) + Len(t)
           /\ Range(s \o t) = Range(s) \cup Range(t)
           /\ s = <<>> => s \o t = t
           /\ t # <<>> => s \o t # <<>>
           /\ s # <<>> => (s \o t)[1] = s[1]
           /\ Distinct(s) /\ Distinct(t) /\ Apart(s, t) => Distinct(s \o t)
<1>1. /\ s \o t \in Runs /\ Len(s \o t) = Len(s) + Len(t)
      /\ \A i \in 1 .. Len(s) + Len(t) :
             (s \o t)[i] = IF i <= Len(s) THEN s[i] ELSE t[i - Len(s)]
  BY ConcatProperties DEF Runs
<1>2. /\ DOMAIN (s \o t) = 1 .. Len(s) + Len(t) /\ DOMAIN s = 1 .. Len(s)
      /\ DOMAIN t = 1 .. Len(t) /\ Len(s) \in Nat /\ Len(t) \in Nat
  BY <1>1 DEF Runs
<1>3. Range(s \o t) = Range(s) \cup Range(t)
  <2>1. \A i \in 1 .. Len(s) : (s \o t)[i] = s[i] /\ i \in DOMAIN (s \o t)
    BY <1>1, <1>2
  <2>2. \A i \in 1 .. Len(t) : (s \o t)[i + Len(s)] = t[i] /\ i + Len(s) \in DOMAIN (s \o t)
    BY <1>1, <1>2
  <2>3. \A i \in DOMAIN (s \o t) : \/ i \in DOMAIN s /\ (s \o t)[i] = s[i]
                                   \/ i - Len(s) \in DOMAIN t /\ (s \o t)[i] = t[i - Len(s)]
    BY <1>1, <1>2
  <2>4. Range(s \o t) \subseteq Range(s) \cup Range(t)
    BY <2>3 DEF Range
  <2>5. Range(s) \subseteq Range(s \o t)
    BY <2>1, <1>2 DEF Range
  <2>6. Range(t) \subseteq Range(s \o t)
    BY <2>2, <1>2 DEF Range
  <2> QED
    BY <2>4, <2>5, <2>6
<1>4. s = <<>> => s \o t = t
  BY ConcatEmptySeq DEF Runs
<1>5. t # <<>> => s \o t # <<>>
  BY <1>1, <1>2, EmptySeq DEF Runs
<1>6. s # <<>> => (s \o t)[1] = s[1]
  BY <1>1, <1>2, EmptySeq DEF Runs
<1>7. ASSUME Distinct(s), Distinct(t), Apart(s, t) PROVE Distinct(s \o t)
  <2> SUFFICES ASSUME NEW i \in 1 .. Len(s) + Len(t), NEW j \in 1 .. Len(s) + Len(t),
                      (s \o t)[i] = (s \o t)[j]
               PROVE  i = j
    BY <1>2 DEF Distinct
  <2>1. CASE i <= Len(s) /\ j <= Len(s)
    BY <1>1, <1>2, <1>7, <2>1 DEF Distinct
  <2>2. CASE i > Len(s) /\ j > Len(s)
    <3>1. t[i - Len(s)] = t[j - Len(s)] /\ i - Len(s) \in DOMAIN t /\ j - Len(s) \in DOMAIN t
      BY <1>1, <1>2, <2>2
    <3>2. i - Len(s) = j - Len(s)
      BY <3>1, <1>7 DEF Distinct
    <3> QED
      BY <3>2, <1>2
  <2>3. ASSUME NEW k \in 1 .. Len(s), NEW l \in 1 .. Len(s) + Len(t), l > Len(s),
               (s \o t)[k] = (s \o t)[l]
        PROVE  FALSE
    <3>1. (s \o t)[k] = s[k] /\ k \in DOMAIN s
      BY <1>1, <1>2
    <3>2. (s \o t)[l] = t[l - Len(s)] /\ l - Len(s) \in DOMAIN t
      BY <1>1, <1>2, <2>3
    <3> QED
      BY <3>1, <3>2, <2>3, <1>7 DEF Apart, Range
  <2> QED
    BY <2>1, <2>2, <2>3, <1>2
<1> QED
  BY <1>1, <1>3, <1>4, <1>5, <1>6, <1>7

\* Two chains linked.
LEMMA ChainsConcat ==
    ASSUME NEW s \in Runs, NEW t \in Runs, NEW u, u = s \o t, t # <<>>,
           NEW old, NEW new, Chains(old, s), Chains(new, t),
           s # <<>> => new[Last(s)] = t[1],
           \A i \in DOMAIN s : i # Len(s) => new[s[i]] = old[s[i]]
    PROVE  Chains(new, u)
<1>1. /\ u \in Runs /\ Len(u) = Len(s) + Len(t)
      /\ \A i \in 1 .. Len(s) + Len(t) : u[i] = IF i <= Len(s) THEN s[i] ELSE t[i - Len(s)]
  BY ConcatProperties DEF Runs
<1> DEFINE m == Len(s)
           n == Len(t)
<1>2. /\ DOMAIN u = 1 .. m + n /\ DOMAIN s = 1 .. m /\ DOMAIN t = 1 .. n
      /\ m \in Nat /\ n \in Nat \ {0}
  BY <1>1, EmptySeq DEF Runs
<1>3. Len(u) = m + n /\ \A i \in 1 .. m + n : u[i] = IF i <= m THEN s[i] ELSE t[i - m]
  BY <1>1
<1>4. /\ m # 0 => new[s[m]] = t[1]
      /\ \A i \in 1 .. m : i # m => new[s[i]] = s[i + 1]
      /\ \A i \in 1 .. n : new[t[i]] = IF i = n THEN EndOfChain ELSE t[i + 1]
  <2>1. m # 0 => new[s[m]] = t[1]
    BY <1>2, LastFacts, EmptySeq
  <2>2. \A i \in 1 .. m : i # m => new[s[i]] = s[i + 1]
    BY <1>2 DEF Chains
  <2>3. \A i \in 1 .. n : new[t[i]] = IF i = n THEN EndOfChain ELSE t[i + 1]
    BY <1>2 DEF Chains
  <2> QED
    BY <2>1, <2>2, <2>3
<1> HIDE DEF m, n
<1>5. ASSUME NEW i \in 1 .. m + n PROVE new[u[i]] = IF i = m + n THEN EndOfChain ELSE u[i + 1]
  <2>1. CASE i < m
    <3>1. u[i] = s[i] /\ u[i + 1] = s[i + 1] /\ i \in 1 .. m /\ i # m /\ i # m + n
      BY <1>2, <1>3, <2>1
    <3> QED
      BY <1>4, <3>1
  <2>2. CASE i = m
    <3>1. u[i] = s[m] /\ u[i + 1] = t[(m + 1) - m] /\ m # 0 /\ i # m + n
      BY <1>2, <1>3, <2>2
    <3>2. (m + 1) - m = 1
      BY <1>2
    <3> QED
      BY <1>4, <3>1, <3>2
  <2>3. CASE i > m
    <3>0. m \in Nat /\ n \in Nat \ {0} /\ i \in Nat
      BY <1>2
    <3>1. u[i] = t[i - m] /\ i - m \in 1 .. n
      <4>1. ~ (i <= m) /\ i - m \in 1 .. n
        BY <2>3, <3>0
      <4> QED
        BY <1>3, <4>1
    <3>2. CASE i = m + n
      <4>1. i - m = n
        BY <1>2, <3>2
      <4> QED
        BY <1>4, <3>1, <3>2, <4>1
    <3>3. CASE i # m + n
      <4>0. i + 1 \in 1 .. m + n /\ ~ (i + 1 <= m)
        BY <2>3, <3>0, <3>3
      <4>1. u[i + 1] = t[(i + 1) - m]
        BY <1>3, <4>0
      <4>2. i - m # n /\ (i + 1) - m = (i - m) + 1
        BY <3>0, <3>3
      <4> QED
        BY <1>4, <3>1, <3>3, <4>1, <4>2
    <3> QED
      BY <3>2, <3>3
  <2>4. i < m \/ i = m \/ i > m
    BY <1>2
  <2> QED
    BY <2>1, <2>2, <2>3, <2>4
<1> QED
  BY <1>2, <1>3, <1>5 DEF Chains

\* A chain does not mind what happens elsewhere.
LEMMA ChainsElsewhere ==
    ASSUME NEW s, NEW old, NEW new, Chains(old, s), \A c \in Range(s) : new[c] = old[c]
    PROVE  Chains(new, s)
BY DEF Chains, Range

LEMMA RunType ==
    \A s \in Runs : /\ DOMAIN s = 1 .. Len(s) /\ Len(s) \in Nat /\ Range(s) \subseteq Clusters
                    /\ \A i \in DOMAIN s : s[i] \in Clusters /\ s[i] \in Range(s)
BY DEF Runs, Range

\* What FatSplitAllocation makes of an MCB.
LEMMA SplitFacts ==
    ASSUME NEW s \in Runs, Distinct(s), NEW n \in Nat, NEW kept, NEW rest, n < Len(s),
           kept = SubSeq(s, 1, n), rest = SubSeq(s, n + 1, Len(s))
    PROVE  /\ kept \in Runs /\ Distinct(kept) /\ Range(kept) \subseteq Range(s)
           /\ Len(kept) = n /\ \A i \in 1 .. n : kept[i] = s[i]
           /\ rest \in Runs /\ Distinct(rest) /\ Range(rest) \subseteq Range(s)
           /\ Apart(kept, rest)
<1>1. DOMAIN s = 1 .. Len(s) /\ Len(s) \in Nat /\ \A i \in DOMAIN s : s[i] \in Clusters
  BY RunType
<1>2. /\ kept \in Runs /\ Len(kept) = n /\ \A i \in 1 .. n : kept[i] = s[i]
  BY <1>1, SubSeqProperties DEF Runs
<1>3. /\ rest \in Runs /\ Len(rest) = Len(s) - n
      /\ \A i \in 1 .. Len(s) - n : rest[i] = s[n + i]
  <2> DEFINE m == n + 1
             l == Len(s)
  <2>2. m \in Int /\ l \in Int /\ \A i \in m .. l : s[i] \in Clusters
    BY <1>1
  <2>3. rest = SubSeq(s, m, l)
    OBVIOUS
  <2> HIDE DEF m, l
  <2>6. /\ SubSeq(s, m, l) \in Seq(Clusters)
        /\ Len(SubSeq(s, m, l)) = IF m <= l THEN l - m + 1 ELSE 0
        /\ \A i \in 1 .. l - m + 1 : SubSeq(s, m, l)[i] = s[m + i - 1]
    BY <2>2, SubSeqProperties
  <2>4. /\ rest \in Seq(Clusters)
        /\ Len(rest) = IF m <= l THEN l - m + 1 ELSE 0
        /\ \A i \in 1 .. l - m + 1 : rest[i] = s[m + i - 1]
    BY <2>3, <2>6
  <2>5. l - m + 1 = Len(s) - n /\ m <= l /\ \A i \in 1 .. Len(s) - n : m + i - 1 = n + i
    BY <1>1 DEF m, l
  <2>1. /\ rest \in Seq(Clusters) /\ Len(rest) = Len(s) - n
        /\ \A i \in 1 .. Len(s) - n : rest[i] = s[n + i]
    BY <2>4, <2>5
  <2> QED
    BY <2>1, <1>1 DEF Runs
<1>4. DOMAIN kept = 1 .. n /\ DOMAIN rest = 1 .. Len(s) - n
  BY <1>2, <1>3, RunType
<1>5. Distinct(kept) /\ Range(kept) \subseteq Range(s)
  BY <1>1, <1>2, <1>4 DEF Distinct, Range
<1>7. \A i \in DOMAIN rest : rest[i] = s[n + i] /\ n + i \in DOMAIN s
  <2>1. ASSUME NEW i \in DOMAIN rest PROVE i \in 1 .. Len(s) - n /\ n + i \in DOMAIN s
    BY <1>1, <1>4
  <2> QED
    BY <1>3, <2>1
<1>6. Distinct(rest)
  <2> SUFFICES ASSUME NEW i \in DOMAIN rest, NEW j \in DOMAIN rest, rest[i] = rest[j]
               PROVE  i = j
    BY DEF Distinct
  <2>1. s[n + i] = s[n + j] /\ n + i \in DOMAIN s /\ n + j \in DOMAIN s
    BY <1>7
  <2>2. n + i = n + j
    BY <2>1 DEF Distinct
  <2>3. i \in Int /\ j \in Int
    BY <1>1, <1>4
  <2> QED
    BY <2>2, <2>3
<1>8. Range(rest) \subseteq Range(s)
  BY <1>7 DEF Range
<1>9. Apart(kept, rest)
  <2> SUFFICES ASSUME NEW i \in DOMAIN kept, NEW j \in DOMAIN rest PROVE kept[i] # rest[j]
    BY DEF Apart, Range
  <2>1. i \in DOMAIN s /\ n + j \in DOMAIN s /\ i # n + j /\ kept[i] = s[i] /\ rest[j] = s[n + j]
    BY <1>1, <1>2, <1>4, <1>7
  <2> QED
    BY <2>1 DEF Distinct
<1> QED
  BY <1>2, <1>3, <1>5, <1>6, <1>8, <1>9
-----------------------------------------------------------------------------
(* Counting *)

LEMMA DueIsNat ==
    ASSUME NEW F \in Fcbs, NEW o \in DiskOps, NEW table, FileInv(F, o, table)
    PROVE  Due(o) \in 0 .. MaxSize
<1>1. MaxSize \in Nat /\ o.promised \in 0 .. MaxSize /\ Len(o.got) \in Nat /\ Len(o.run) \in Nat
  BY MaxSizeAssumption, RunType DEF DiskOps
<1>2. Len(<<>>) = 0
  BY EmptySeq
<1>3. CASE o.pc \notin {"exclusive", "looping", "found"}
  BY <1>1, <1>3 DEF Due
<1>4. CASE o.pc \in {"exclusive", "looping", "found"}
  <2>0. ~ Given(F, o, table)
    BY <1>4 DEF Given
  <2>1. Growing(F, o, table)
    BY <1>4, <2>0 DEF FileInv, NoOp, Moving, Freeing
  <2>2. Len(o.got) + Len(o.run) <= o.promised
    <3>1. CASE o.pc = "exclusive"
      <4>1. o.got = <<>> /\ o.run = <<>>
        BY <2>1, <3>1 DEF Growing
      <4> QED
        BY <1>1, <1>2, <4>1, MaxSizeAssumption
    <3>2. CASE o.pc = "looping"
      <4>1. Len(o.got) < o.promised /\ o.run = <<>>
        BY <2>1, <3>2 DEF Growing
      <4> QED
        BY <1>1, <1>2, <4>1, MaxSizeAssumption
    <3>3. CASE o.pc = "found"
      BY <2>1, <3>3 DEF Growing
    <3> QED
      BY <1>4, <3>1, <3>2, <3>3
  <2>3. Due(o) = o.promised - Len(o.got) - Len(o.run)
    BY <1>4 DEF Due
  <2> DEFINE p == o.promised
             g == Len(o.got)
             r == Len(o.run)
  <2>4. p \in Nat /\ p <= MaxSize /\ g \in Nat /\ r \in Nat /\ g + r <= p /\ MaxSize \in Nat
    <3>1. o.promised \in Nat /\ o.promised <= MaxSize
      BY <1>1
    <3> QED
      BY <1>1, <2>2, <3>1
  <2> HIDE DEF p, g, r
  <2>5. p - g - r \in 0 .. MaxSize
    BY <2>4
  <2> QED
    BY <2>3, <2>5 DEF p, g, r
<1> QED
  BY <1>3, <1>4

LEMMA PromisesOfOne ==
    ASSUME NEW f \in Chained, NEW n \in 0 .. MaxSize
    PROVE  IsFiniteSet({f} \X (1 .. n)) /\ Cardinality({f} \X (1 .. n)) = n
<1>1. n \in Nat
  BY MaxSizeAssumption
<1>2. IsFiniteSet(1 .. n) /\ Cardinality(1 .. n) = IF 1 > n THEN 0 ELSE n - 1 + 1
  BY <1>1, FS_Interval
<1>3. Cardinality(1 .. n) = n
  BY <1>1, <1>2
<1>4. IsFiniteSet({f}) /\ Cardinality({f}) = 1
  BY FS_Singleton
<1> DEFINE A == {f}
           B == 1 .. n
<1> HIDE DEF A, B
<1>5. IsFiniteSet(A \X B) /\ Cardinality(A \X B) = Cardinality(A) * Cardinality(B)
  <2>1. IsFiniteSet(A) /\ IsFiniteSet(B)
    BY <1>2, <1>4 DEF A, B
  <2> QED
    BY <2>1, FS_Product
<1>6. Cardinality(A) = 1 /\ Cardinality(B) = n
  BY <1>3, <1>4 DEF A, B
<1> QED
  BY <1>1, <1>5, <1>6 DEF A, B

\* The promises change with those of one file.
LEMMA PromisesChange ==
    ASSUME NEW old, NEW f \in Chained, NEW o, NEW new, new = [old EXCEPT ![f] = o],
           f \in DOMAIN old, \A g \in Chained : Due(old[g]) \in 0 .. MaxSize,
           Due(o) \in 0 .. MaxSize
    PROVE  /\ Cardinality(PromisesIn(old)) \in Nat /\ Cardinality(PromisesIn(new)) \in Nat
           /\ Cardinality(PromisesIn(new)) + Due(old[f]) = Cardinality(PromisesIn(old)) + Due(o)
<1> DEFINE Rest == UNION {{g} \X (1 .. Due(old[g])) : g \in Chained \ {f}}
           Before == {f} \X (1 .. Due(old[f]))
           After == {f} \X (1 .. Due(o))
<1>1. /\ IsFiniteSet(Before) /\ Cardinality(Before) = Due(old[f])
      /\ IsFiniteSet(After) /\ Cardinality(After) = Due(o)
  BY PromisesOfOne
<1>2. IsFiniteSet(Chained \X (1 .. MaxSize))
  <2>1. IsFiniteSet(1 .. MaxSize)
    <3>1. 1 \in Int /\ MaxSize \in Int
      BY MaxSizeAssumption
    <3> QED
      BY <3>1, FS_Interval
  <2> QED
    BY <2>1, ChainedAssumption, FS_Product
<1>3. Rest \subseteq Chained \X (1 .. MaxSize)
  <2>1. ASSUME NEW g \in Chained PROVE {g} \X (1 .. Due(old[g])) \subseteq Chained \X (1 .. MaxSize)
    BY MaxSizeAssumption
  <2> QED
    BY <2>1
<1>4. IsFiniteSet(Rest)
  BY <1>2, <1>3, FS_Subset
<1>5. \A g \in Chained \ {f} : new[g] = old[g]
  OBVIOUS
<1>6. new[f] = o
  OBVIOUS
<1>7. PromisesIn(old) = Rest \cup Before
  BY DEF PromisesIn
<1>8. PromisesIn(new) = Rest \cup After
  <2> DEFINE Old(g) == {g} \X (1 .. Due(old[g]))
             New(g) == {g} \X (1 .. Due(new[g]))
  <2>1. /\ \A g \in Chained \ {f} : New(g) = Old(g)
        /\ New(f) = After
    BY <1>5, <1>6
  <2>2. /\ PromisesIn(new) = UNION {New(g) : g \in Chained}
        /\ Rest = UNION {Old(g) : g \in Chained \ {f}}
    BY DEF PromisesIn
  <2> HIDE DEF Old, New, Rest, After
  <2> QED
    BY <2>1, <2>2
<1>9. Rest \cap Before = {} /\ Rest \cap After = {}
  OBVIOUS
<1> HIDE DEF Rest, Before, After
<1>10. Cardinality({}) = 0
  BY FS_EmptySet
<1>11. Cardinality(Rest \cup Before) = Cardinality(Rest) + Cardinality(Before)
  <2>1. Cardinality(Rest \cup Before)
            = Cardinality(Rest) + Cardinality(Before) - Cardinality(Rest \cap Before)
    BY <1>1, <1>4, FS_Union
  <2>2. Cardinality(Rest) \in Nat /\ Cardinality(Before) \in Nat
    BY <1>1, <1>4, FS_CardinalityType
  <2>3. Cardinality(Rest \cap Before) = 0
    BY <1>9, <1>10, Zenon
  <2> QED
    BY <2>1, <2>2, <2>3
<1>12. Cardinality(Rest \cup After) = Cardinality(Rest) + Cardinality(After)
  <2>1. Cardinality(Rest \cup After)
            = Cardinality(Rest) + Cardinality(After) - Cardinality(Rest \cap After)
    BY <1>1, <1>4, FS_Union
  <2>2. Cardinality(Rest) \in Nat /\ Cardinality(After) \in Nat
    BY <1>1, <1>4, FS_CardinalityType
  <2>3. Cardinality(Rest \cap After) = 0
    BY <1>9, <1>10, Zenon
  <2> QED
    BY <2>1, <2>2, <2>3
<1>13. Cardinality(Rest) \in Nat /\ Due(o) \in Nat /\ Due(old[f]) \in Nat
  <2>1. Cardinality(Rest) \in Nat
    BY <1>4, FS_CardinalityType
  <2> QED
    BY <2>1, MaxSizeAssumption
<1>14. Cardinality(PromisesIn(old)) = Cardinality(Rest) + Due(old[f])
  BY <1>1, <1>7, <1>11
<1>15. Cardinality(PromisesIn(new)) = Cardinality(Rest) + Due(o)
  BY <1>1, <1>8, <1>12
<1> QED
  BY <1>13, <1>14, <1>15

LEMMA PromisesChanges ==
    \A old, new : \A f \in Chained : \A o :
        new = [old EXCEPT ![f] = o] /\ f \in DOMAIN old
        /\ (\A g \in Chained : Due(old[g]) \in 0 .. MaxSize) /\ Due(o) \in 0 .. MaxSize
        => /\ Cardinality(PromisesIn(old)) \in Nat /\ Cardinality(PromisesIn(new)) \in Nat
           /\ Cardinality(PromisesIn(new)) + Due(old[f]) = Cardinality(PromisesIn(old)) + Due(o)
BY PromisesChange

\* A run that is taken, and one that is given back.
LEMMA ClearWithout ==
    ASSUME NEW B \in SUBSET Clusters, NEW S \in SUBSET (Clusters \ B)
    PROVE  /\ Cardinality(Clusters \ B) = Cardinality(Clusters \ (B \cup S)) + Cardinality(S)
           /\ Cardinality(Clusters \ (B \cup S)) \in Nat /\ Cardinality(S) \in Nat
<1> DEFINE R == Clusters \ (B \cup S)
<1>1. R \cup S = Clusters \ B /\ R \cap S = {}
  OBVIOUS
<1>2. IsFiniteSet(R) /\ IsFiniteSet(S)
  BY ClusterFacts, FS_Subset
<1> HIDE DEF R
<1>3. Cardinality(R \cup S) = Cardinality(R) + Cardinality(S) - Cardinality(R \cap S)
  BY <1>2, FS_Union
<1>4. Cardinality(R) \in Nat /\ Cardinality(S) \in Nat
  BY <1>2, FS_CardinalityType
<1>5. Cardinality(R \cap S) = 0
  BY <1>1, FS_EmptySet, Zenon DEF R
<1>6. Cardinality(R \cup S) = Cardinality(R) + Cardinality(S)
  BY <1>3, <1>4, <1>5
<1>7. R \cup S = Clusters \ B
  BY <1>1 DEF R
<1> QED
  BY <1>4, <1>6, <1>7 DEF R

LEMMA RunTaken ==
    ASSUME NEW B \in SUBSET Clusters, NEW r \in Runs, Distinct(r), Range(r) \subseteq Clusters \ B
    PROVE  /\ Cardinality(Clusters \ B) = Cardinality(Clusters \ (B \cup Range(r))) + Len(r)
           /\ Cardinality(Clusters \ (B \cup Range(r))) \in Nat
           /\ Cardinality(Clusters \ B) \in Nat /\ Len(r) \in Nat
<1>1. Cardinality(Range(r)) = Len(r) /\ Len(r) \in Nat
  BY RangeSize, RunType
<1>2. /\ Cardinality(Clusters \ B)
             = Cardinality(Clusters \ (B \cup Range(r))) + Cardinality(Range(r))
      /\ Cardinality(Clusters \ (B \cup Range(r))) \in Nat
  BY ClearWithout
<1> QED
  BY <1>1, <1>2

LEMMA RunReturned ==
    ASSUME NEW B \in SUBSET Clusters, NEW r \in Runs, Distinct(r), Range(r) \subseteq B
    PROVE  /\ Cardinality(Clusters \ (B \ Range(r))) = Cardinality(Clusters \ B) + Len(r)
           /\ Cardinality(Clusters \ B) \in Nat /\ Len(r) \in Nat
<1> DEFINE C == B \ Range(r)
<1>1. C \in SUBSET Clusters /\ Range(r) \subseteq Clusters \ C /\ C \cup Range(r) = B
  OBVIOUS
<1> HIDE DEF C
<1>2. /\ Cardinality(Clusters \ C) = Cardinality(Clusters \ (C \cup Range(r))) + Len(r)
      /\ Cardinality(Clusters \ (C \cup Range(r))) \in Nat /\ Len(r) \in Nat
  BY <1>1, RunTaken
<1> QED
  BY <1>1, <1>2 DEF C

-----------------------------------------------------------------------------
(* An operation of one file leaves the others alone. *)

LEMMA EntireElsewhere ==
    ASSUME NEW F, NEW old, NEW new, Entire(F, old), \A c \in Range(F.mcb) : new[c] = old[c]
    PROVE  Entire(F, new)
BY ChainsElsewhere DEF Entire

LEMMA SoundElsewhere ==
    ASSUME NEW F, NEW old, NEW new, Sound(F, old), \A c \in Range(F.mcb) : new[c] = old[c]
    PROVE  Sound(F, new)
BY EntireElsewhere DEF Sound

\* What a file and an operation on it have.
LEMMA HeldIs ==
    ASSUME NEW F, NEW o
    PROVE  /\ o.pc # "given" => HeldBy(F, o) = Range(F.mcb) \cup Range(o.got) \cup Range(o.run)
           /\ o.pc = "given" => HeldBy(F, o) = Range(Settled(F, o, FALSE).mcb)
BY DEF HeldBy

LEMMA FileInvGivenElsewhere ==
    ASSUME NEW F, NEW o, NEW old, NEW new, FileInv(F, o, old), o.pc = "given",
           \A c \in HeldBy(F, o) : new[c] = old[c]
    PROVE  FileInv(F, o, new)
<1>1. Given(F, o, old)
  BY DEF FileInv, NoOp, Growing, Moving, Freeing
<1>2. HeldBy(F, o) = Range(Settled(F, o, FALSE).mcb)
  BY HeldIs
<1>3. Sound(Settled(F, o, FALSE), new)
  BY <1>1, <1>2, SoundElsewhere DEF Given
<1>4. Given(F, o, new)
  BY <1>1, <1>3 DEF Given
<1> QED
  BY <1>4 DEF FileInv

LEMMA FileInvElsewhere ==
    ASSUME NEW F \in Fcbs, NEW o \in DiskOps, NEW old, NEW new, FileInv(F, o, old),
           \A c \in HeldBy(F, o) : new[c] = old[c]
    PROVE  FileInv(F, o, new)
<1>10. SUFFICES ASSUME o.pc # "given" PROVE FileInv(F, o, new)
  BY FileInvGivenElsewhere
<1>1. F.mcb \in Runs /\ o.got \in Runs /\ o.run \in Runs
  BY DEF Fcbs, DiskOps
<1>2. /\ \A c \in Range(F.mcb) : new[c] = old[c]
      /\ \A c \in Range(o.got) : new[c] = old[c]
      /\ \A c \in Range(o.run) : new[c] = old[c]
  BY <1>10 DEF HeldBy
<1>3. (Entire(F, old) => Entire(F, new)) /\ (Sound(F, old) => Sound(F, new))
  BY <1>2, EntireElsewhere, SoundElsewhere
<1>4. Chains(old, o.got) => Chains(new, o.got)
  BY <1>2, ChainsElsewhere
<1>5. Growing(F, o, old) => Growing(F, o, new)
  BY <1>3, <1>4 DEF Growing
<1>6. Moving(F, o, old) => Moving(F, o, new)
  <2>1. Len(o.got) = 1 => o.got[1] \in Range(o.got)
    BY <1>1, RunType
  <2> QED
    BY <1>2, <1>3, <2>1 DEF Moving
<1>7. Freeing(F, o, old) => Freeing(F, o, new)
  <2>1. ASSUME Len(o.run) = 1, o.at \in DOMAIN F.mcb, Entire(Moved(F, o), old)
        PROVE  Entire(Moved(F, o), new)
    <3>1. o.run[1] \in Range(o.run)
      BY <1>1, <2>1, RunType
    <3>2. Moved(F, o).mcb = [F.mcb EXCEPT ![o.at] = o.run[1]]
      BY DEF Moved, Fcbs
    <3>3. Range(Moved(F, o).mcb) \subseteq Range(F.mcb) \cup Range(o.run)
      BY <3>1, <3>2 DEF Range
    <3> QED
      BY <1>2, <2>1, <3>3, EntireElsewhere
  <2> QED
    BY <1>3, <2>1 DEF Freeing
<1>8. Empty(old, Range(o.run)) => Empty(new, Range(o.run))
  BY <1>2 DEF Empty
<1>9. Empty(old, Range(o.got)) => Empty(new, Range(o.got))
  BY <1>2 DEF Empty
<1>11. ~ Given(F, o, old)
  BY <1>10 DEF Given
<1> QED
  BY <1>3, <1>5, <1>6, <1>7, <1>8, <1>9, <1>11 DEF FileInv

\* What has been given back is not had, and what is had are clusters.
LEMMA HeldClusters ==
    ASSUME NEW F \in Fcbs, NEW o \in DiskOps, NEW table, FileInv(F, o, table)
    PROVE  HeldBy(F, o) \subseteq Clusters
<1>1. CASE o.pc = "given"
  <2>1. Given(F, o, table)
    BY <1>1 DEF FileInv, NoOp, Growing, Moving, Freeing
  <2>2. Settled(F, o, FALSE) \in Fcbs
    BY <2>1 DEF Given
  <2>3. Settled(F, o, FALSE).mcb \in Runs
    BY <2>2 DEF Fcbs
  <2> QED
    BY <1>1, <2>3, HeldIs, RunType
<1>2. CASE o.pc # "given"
  <2>1. F.mcb \in Runs /\ o.got \in Runs /\ o.run \in Runs
    BY DEF Fcbs, DiskOps
  <2> QED
    BY <1>2, <2>1, HeldIs, RunType
<1> QED
  BY <1>1, <1>2

\* What an operation on f has to do so that the invariant holds on: it changes the FAT at
\* its own clusters, takes clear bits, and clears bits of clusters that it had and freed.
LEMMA DiskStep ==
    ASSUME DiskInv, NEW f \in Chained, NEW o \in DiskOps, NEW F \in Fcbs,
           op' = [op EXCEPT ![f] = o], fcb' = [fcb EXCEPT ![f] = F],
           fat' \in [Clusters -> Nat], bitmap' \subseteq Clusters, freeClusters' \in Nat,
           HeldBy(F, o) \subseteq Held(f) \cup (Clusters \ bitmap),
           HeldBy(F, o) \subseteq bitmap',
           \A c \in Clusters \ Held(f) : fat'[c] = fat[c],
           bitmap \ Held(f) \subseteq bitmap',
           \A c \in Clusters \ bitmap' : c \in Held(f) => fat'[c] = Available,
           FileInv(F, o, fat'),
           freeClusters' + Due(o) + Cardinality(Clusters \ bitmap)
               <= freeClusters + Due(op[f]) + Cardinality(Clusters \ bitmap')
    PROVE  DiskInv'
<1>1. /\ fcb \in [Chained -> Fcbs] /\ op \in [Chained -> DiskOps]
      /\ bitmap \subseteq Clusters /\ freeClusters \in Nat /\ fat \in [Clusters -> Nat]
      /\ \A g \in Chained : FileInv(fcb[g], op[g], fat)
      /\ \A g, h \in Chained : g # h => Held(g) \cap Held(h) = {}
      /\ \A c \in Clusters \ bitmap : fat[c] = Available /\ \A g \in Chained : c \notin Held(g)
      /\ freeClusters + Cardinality(Promises) <= Cardinality(Clusters \ bitmap)
  BY DEF DiskInv, TypeOKDisk, OwnedOnce, PromisesKept
<1>2. /\ op' \in [Chained -> DiskOps] /\ fcb' \in [Chained -> Fcbs]
      /\ op'[f] = o /\ fcb'[f] = F
      /\ \A g \in Chained \ {f} : op'[g] = op[g] /\ fcb'[g] = fcb[g]
  BY <1>1
<1>3. TypeOKDisk'
  BY <1>2 DEF TypeOKDisk
<1>4. \A g \in Chained : Held(g) = HeldBy(fcb[g], op[g]) /\ Held(g)' = HeldBy(fcb'[g], op'[g])
  BY DEF Held, HeldBy
<1>5. /\ Held(f)' = HeldBy(F, o)
      /\ \A g \in Chained \ {f} : Held(g)' = Held(g)
  BY <1>2, <1>4
<1>6. \A g \in Chained : Held(g) \subseteq bitmap
  <2> SUFFICES ASSUME NEW g \in Chained PROVE Held(g) \subseteq bitmap
    OBVIOUS
  <2>1. Held(g) \subseteq Clusters
    <3>1. fcb[g] \in Fcbs /\ op[g] \in DiskOps /\ FileInv(fcb[g], op[g], fat)
      BY <1>1
    <3>2. HeldBy(fcb[g], op[g]) \subseteq Clusters
      BY <3>1, HeldClusters
    <3> QED
      BY <1>4, <3>2
  <2> QED
    BY <1>1, <2>1
<1>7. \A g \in Chained : FileInv(fcb'[g], op'[g], fat')
  <2>1. ASSUME NEW g \in Chained \ {f} PROVE FileInv(fcb'[g], op'[g], fat')
    <3>1. fcb[g] \in Fcbs /\ op[g] \in DiskOps /\ FileInv(fcb[g], op[g], fat)
      BY <1>1
    <3>2. \A c \in HeldBy(fcb[g], op[g]) : fat'[c] = fat[c]
      <4>1. Held(g) \cap Held(f) = {} /\ Held(g) \subseteq Clusters
        BY <1>1, <1>6
      <4> QED
        BY <1>4, <4>1
    <3>3. FileInv(fcb[g], op[g], fat')
      BY <3>1, <3>2, FileInvElsewhere
    <3> QED
      BY <1>2, <3>3
  <2> QED
    BY <1>2, <2>1
<1>8. OwnedOnce'
  <2>1. ASSUME NEW g \in Chained, NEW h \in Chained, g # h PROVE Held(g)' \cap Held(h)' = {}
    <3>1. ASSUME NEW k \in Chained \ {f} PROVE HeldBy(F, o) \cap Held(k) = {}
      BY <1>1, <1>6
    <3> QED
      BY <1>1, <1>5, <2>1, <3>1
  <2>2. ASSUME NEW c \in Clusters \ bitmap'
        PROVE  fat'[c] = Available /\ \A g \in Chained : c \notin Held(g)'
    <3>1. c \in Held(f) \/ c \notin bitmap
      BY <2>2
    <3>2. fat'[c] = Available
      BY <1>1, <2>2, <3>1
    <3>3. c \notin HeldBy(F, o)
      BY <2>2
    <3>4. ASSUME NEW g \in Chained \ {f} PROVE c \notin Held(g)
      BY <1>1, <3>1
    <3> QED
      BY <1>5, <3>2, <3>3, <3>4
  <2> QED
    BY <2>1, <2>2 DEF OwnedOnce
<1>9. PromisesKept'
  <2>1. Promises = PromisesIn(op) /\ Promises' = PromisesIn(op')
    <3>1. \A g \in Chained : Outstanding(g) = Due(op[g]) /\ Outstanding(g)' = Due(op'[g])
      BY DEF Outstanding, Due
    <3> QED
      BY <3>1 DEF Promises, PromisesIn
  <2>2. \A g \in Chained : Due(op[g]) \in 0 .. MaxSize
    BY <1>1, DueIsNat
  <2>3. Due(o) \in 0 .. MaxSize
    BY DueIsNat
  <2>4. f \in DOMAIN op
    BY <1>1
  <2>5. /\ Cardinality(PromisesIn(op)) \in Nat /\ Cardinality(PromisesIn(op')) \in Nat
        /\ Cardinality(PromisesIn(op')) + Due(op[f]) = Cardinality(PromisesIn(op)) + Due(o)
    BY <2>2, <2>3, <2>4, PromisesChanges, Zenon
  <2>6. Cardinality(Clusters \ bitmap) \in Nat /\ Cardinality(Clusters \ bitmap') \in Nat
    BY ClusterFacts, FS_Subset, FS_CardinalityType
  <2>7. Due(op[f]) \in Nat /\ Due(o) \in Nat
    BY <2>2, <2>3, MaxSizeAssumption
  <2>8. freeClusters' + Cardinality(PromisesIn(op')) <= Cardinality(Clusters \ bitmap')
    BY <1>1, <2>1, <2>5, <2>6, <2>7
  <2>9. \A g \in Chained : op'[g].pc # "bugcheck"
    BY <1>2 DEF DiskOps, DiskPcs
  <2> QED
    BY <2>1, <2>8, <2>9 DEF PromisesKept
<1> QED
  BY <1>3, <1>7, <1>8, <1>9 DEF DiskInv

LEMMA EmptyFacts ==
    /\ <<>> \in Runs /\ Len(<<>>) = 0 /\ Range(<<>>) = {}
    /\ Distinct(<<>>) /\ Consecutive(<<>>)
    /\ \A s : Apart(s, <<>>) /\ Apart(<<>>, s)
    /\ \A table : Chains(table, <<>>) /\ Empty(table, {})
<1>1. <<>> \in Runs /\ Len(<<>>) = 0 /\ DOMAIN <<>> = {}
  BY EmptySeq DEF Runs
<1>2. Range(<<>>) = {}
  BY <1>1 DEF Range
<1> QED
  BY <1>1, <1>2 DEF Distinct, Consecutive, Apart, Chains, Empty

LEMMA OneFacts ==
    ASSUME NEW c \in Clusters
    PROVE  /\ <<c>> \in Runs /\ Len(<<c>>) = 1 /\ <<c>>[1] = c /\ Range(<<c>>) = {c}
           /\ Distinct(<<c>>) /\ Consecutive(<<c>>) /\ <<c>> # <<>>
<1>1. <<c>> \in Runs /\ Len(<<c>>) = 1 /\ <<c>>[1] = c /\ DOMAIN <<c>> = {1}
  BY DEF Runs
<1>2. c \in Nat
  BY ClusterFacts
<1>3. Range(<<c>>) = {c}
  BY <1>1 DEF Range
<1> QED
  BY <1>1, <1>2, <1>3 DEF Distinct, Consecutive

LEMMA OpTypes ==
    /\ NoOp \in DiskOps
    /\ \A o \in DiskOps : \A p \in DiskPcs : [o EXCEPT !.pc = p] \in DiskOps
    /\ \A o \in DiskOps : \A p \in DiskPcs : \A r \in Runs :
           [o EXCEPT !.pc = p, !.run = r] \in DiskOps
    /\ \A o \in DiskOps : \A p \in DiskPcs : \A g \in Runs : \A r \in Runs :
           [o EXCEPT !.pc = p, !.got = g, !.run = r] \in DiskOps
    /\ \A o \in DiskOps : \A p \in DiskPcs : \A g \in Runs : \A r \in Runs :
           [o EXCEPT !.pc = p, !.run = r, !.got = g] \in DiskOps
    /\ \A o \in DiskOps : \A p \in DiskPcs : \A k \in DiskKinds : \A r \in Runs :
           [o EXCEPT !.pc = p, !.kind = k, !.run = r] \in DiskOps
    /\ \A o \in DiskOps : \A p \in DiskPcs : \A k \in DiskKinds :
           [o EXCEPT !.pc = p, !.kind = k] \in DiskOps
    /\ \A o \in DiskOps : \A k \in DiskKinds : \A n \in 0 .. MaxSize :
           [o EXCEPT !.kind = k, !.promised = n] \in DiskOps
    /\ \A o \in DiskOps : \A p \in DiskPcs : \A k \in DiskKinds : \A g \in Runs : \A n \in Nat :
           [o EXCEPT !.pc = p, !.kind = k, !.got = g, !.at = n] \in DiskOps
    /\ \A o \in DiskOps : \A p \in DiskPcs : \A k \in DiskKinds : \A m \in 0 .. MaxSize :
           \A r \in Runs : \A n \in Nat :
           [o EXCEPT !.pc = p, !.kind = k, !.promised = m, !.run = r, !.at = n] \in DiskOps
<1>1. NoOp \in DiskOps
  BY EmptyFacts, MaxSizeAssumption DEF NoOp, DiskOps, DiskPcs, DiskKinds
<1> QED
  BY <1>1, Zenon DEF DiskOps

\* What the place of an operation tells of it.
LEMMA PcSays ==
    ASSUME NEW F, NEW o \in DiskOps, NEW table, FileInv(F, o, table)
    PROVE  /\ o.pc = "idle" => o = NoOp /\ Sound(F, table)
           /\ o.pc \in {"exclusive", "looping", "found", "unwinding"} => Growing(F, o, table)
           /\ o.pc = "reserved" => Growing(F, o, table) \/ Moving(F, o, table)
           /\ o.pc = "got" /\ o.kind = "grow" => Growing(F, o, table)
           /\ o.pc = "got" => Growing(F, o, table) \/ Moving(F, o, table)
           /\ o.pc \in {"got", "spliced"} /\ o.kind = "move" => Moving(F, o, table)
           /\ o.pc = "spliced" => Moving(F, o, table)
           /\ o.pc \in {"freeing", "freed"} => Freeing(F, o, table)
           /\ o.pc = "given" => Given(F, o, table)
<1>1. \/ o = NoOp /\ Sound(F, table)
      \/ Growing(F, o, table) \/ Moving(F, o, table) \/ Freeing(F, o, table)
      \/ Given(F, o, table)
  BY DEF FileInv
<1>2. o = NoOp => o.pc = "idle" /\ o.kind = "none"
  BY DEF NoOp
<1>3. Growing(F, o, table) => /\ o.kind = "grow"
                              /\ o.pc \in {"reserved", "exclusive", "looping", "found",
                                           "unwinding", "got"}
  BY DEF Growing
<1>4. Moving(F, o, table) => o.kind = "move" /\ o.pc \in {"reserved", "got", "spliced"}
  BY DEF Moving
<1>5. Freeing(F, o, table) => o.pc \in {"freeing", "freed"}
  BY DEF Freeing
<1>6. Given(F, o, table) => o.pc = "given"
  BY DEF Given
<1> QED
  BY <1>1, <1>2, <1>3, <1>4, <1>5, <1>6

LEMMA DueIs ==
    ASSUME NEW o
    PROVE  /\ o.pc \notin {"exclusive", "looping", "found"} => Due(o) = 0
           /\ o.pc \in {"exclusive", "looping", "found"} =>
                  Due(o) = o.promised - Len(o.got) - Len(o.run)
BY DEF Due

LEMMA DiskFacts ==
    ASSUME DiskInv, NEW f \in Chained
    PROVE  /\ fcb[f] \in Fcbs /\ op[f] \in DiskOps /\ FileInv(fcb[f], op[f], fat)
           /\ fcb[f].mcb \in Runs /\ op[f].got \in Runs /\ op[f].run \in Runs
           /\ op[f].promised \in 0 .. MaxSize /\ op[f].promised \in Nat /\ op[f].at \in Nat
           /\ fcb = [fcb EXCEPT ![f] = fcb[f]] /\ op = [op EXCEPT ![f] = op[f]]
           /\ Held(f) = HeldBy(fcb[f], op[f]) /\ Held(f) \subseteq bitmap
           /\ bitmap \subseteq Clusters /\ fat \in [Clusters -> Nat] /\ freeClusters \in Nat
           /\ \A c \in Clusters \ bitmap : fat[c] = Available
           /\ Cardinality(Clusters \ bitmap) \in Nat /\ Due(op[f]) \in Nat
           /\ MaxSize \in Nat
<1>1. /\ fcb \in [Chained -> Fcbs] /\ op \in [Chained -> DiskOps]
      /\ bitmap \subseteq Clusters /\ freeClusters \in Nat /\ fat \in [Clusters -> Nat]
      /\ FileInv(fcb[f], op[f], fat)
      /\ \A c \in Clusters \ bitmap : fat[c] = Available /\ c \notin Held(f)
  BY DEF DiskInv, TypeOKDisk, OwnedOnce
<1>2. fcb[f] \in Fcbs /\ op[f] \in DiskOps
  BY <1>1
<1>3. /\ fcb[f].mcb \in Runs /\ op[f].got \in Runs /\ op[f].run \in Runs
      /\ op[f].promised \in 0 .. MaxSize /\ op[f].at \in Nat
  BY <1>2 DEF Fcbs, DiskOps
<1>4. op[f].promised \in Nat /\ MaxSize \in Nat
  BY <1>3, MaxSizeAssumption
<1>5. Held(f) = HeldBy(fcb[f], op[f]) /\ Held(f) \subseteq bitmap
  <2>1. Held(f) = HeldBy(fcb[f], op[f])
    BY DEF Held, HeldBy
  <2>2. HeldBy(fcb[f], op[f]) \subseteq Clusters
    BY <1>1, <1>2, HeldClusters
  <2> QED
    BY <1>1, <2>1, <2>2
<1>6. Cardinality(Clusters \ bitmap) \in Nat
  BY ClusterFacts, FS_Subset, FS_CardinalityType
<1>7. Due(op[f]) \in Nat
  BY <1>1, <1>2, <1>4, DueIsNat
<1>8. fcb = [fcb EXCEPT ![f] = fcb[f]] /\ op = [op EXCEPT ![f] = op[f]]
  BY <1>1
<1> QED
  BY <1>1, <1>2, <1>3, <1>4, <1>5, <1>6, <1>7, <1>8

\* FAT and bitmap stay as they are.
LEMMA QuietStep ==
    ASSUME DiskInv, NEW f \in Chained, NEW o \in DiskOps, NEW F \in Fcbs,
           op' = [op EXCEPT ![f] = o], fcb' = [fcb EXCEPT ![f] = F],
           fat' = fat, bitmap' = bitmap, freeClusters' \in Nat,
           HeldBy(F, o) \subseteq Held(f), FileInv(F, o, fat'),
           freeClusters' + Due(o) <= freeClusters + Due(op[f])
    PROVE  DiskInv'
<1>1. /\ Held(f) \subseteq bitmap /\ bitmap \subseteq Clusters /\ fat \in [Clusters -> Nat]
      /\ freeClusters \in Nat /\ Cardinality(Clusters \ bitmap) \in Nat
      /\ Due(op[f]) \in Nat /\ MaxSize \in Nat
  BY DiskFacts
<1>2. Due(o) \in Nat
  BY <1>1, DueIsNat
<1>3. freeClusters' + Due(o) + Cardinality(Clusters \ bitmap)
          <= freeClusters + Due(op[f]) + Cardinality(Clusters \ bitmap')
  BY <1>1, <1>2
<1>4. /\ fat' \in [Clusters -> Nat] /\ bitmap' \subseteq Clusters
      /\ HeldBy(F, o) \subseteq Held(f) \cup (Clusters \ bitmap)
      /\ HeldBy(F, o) \subseteq bitmap'
      /\ \A c \in Clusters \ Held(f) : fat'[c] = fat[c]
      /\ bitmap \ Held(f) \subseteq bitmap'
      /\ \A c \in Clusters \ bitmap' : c \in Held(f) => fat'[c] = Available
  BY <1>1
<1> QED
  BY <1>3, <1>4, DiskStep

-----------------------------------------------------------------------------
(* FatAllocateDiskSpace *)

\* A run of clear bits in the hands of f.
LEMMA FreeRunFacts ==
    ASSUME DiskInv, NEW f \in Chained, NEW c \in Clusters, NEW n \in Nat \ {0}, NEW r,
           r = Run(c, n), IsFree(r), op[f].pc # "given"
    PROVE  /\ r \in Runs /\ Len(r) = n /\ r # <<>> /\ Distinct(r) /\ Consecutive(r)
           /\ Range(r) \subseteq Clusters \ bitmap
           /\ Apart(fcb[f].mcb, r) /\ Apart(op[f].got, r) /\ Empty(fat, Range(r))
           /\ Cardinality(Clusters \ bitmap) = Cardinality(Clusters \ (bitmap \cup Range(r))) + n
           /\ Cardinality(Clusters \ (bitmap \cup Range(r))) \in Nat
<1>1. /\ r \in Runs /\ Len(r) = n /\ r # <<>> /\ Distinct(r) /\ Consecutive(r)
      /\ Range(r) \subseteq Clusters \ bitmap
  BY RunFacts
<1>2. Range(fcb[f].mcb) \subseteq bitmap /\ Range(op[f].got) \subseteq bitmap
  BY DiskFacts DEF HeldBy
<1>3. Apart(fcb[f].mcb, r) /\ Apart(op[f].got, r)
  BY <1>1, <1>2 DEF Apart
<1>4. Empty(fat, Range(r))
  BY <1>1, DiskFacts DEF Empty
<1>5. bitmap \in SUBSET Clusters
  BY DiskFacts
<1>6. /\ Cardinality(Clusters \ bitmap) = Cardinality(Clusters \ (bitmap \cup Range(r))) + Len(r)
      /\ Cardinality(Clusters \ (bitmap \cup Range(r))) \in Nat
  BY <1>1, <1>5, RunTaken
<1> QED
  BY <1>1, <1>3, <1>4, <1>6

LEMMA AddFileAllocationStep ==
    ASSUME DiskInv, NEW f \in Chained, NEW n \in 1 .. MaxSize, AddFileAllocation(f, n)
    PROVE  DiskInv'
<1> DEFINE F == fcb[f]
           grow == [NoOp EXCEPT !.kind = "grow", !.promised = n]
<1>1. /\ op[f].pc = "idle" /\ F.torn # "chain"
      /\ n <= freeClusters /\ freeClusters' = freeClusters - n
      /\ fat' = fat /\ fcb' = fcb
      /\ \/ \E r \in RunsAtOnce(f, n) :
               /\ bitmap' = bitmap \cup Range(r)
               /\ op' = [op EXCEPT ![f] = [grow EXCEPT !.pc = "reserved", !.run = r]]
         \/ /\ bitmap' = bitmap
            /\ op' = [op EXCEPT ![f] = [grow EXCEPT !.pc = "exclusive"]]
  BY DEF AddFileAllocation, MayBegin, Step
<1>2. op[f] = NoOp /\ Entire(F, fat) /\ Distinct(F.mcb)
  BY <1>1, DiskFacts, PcSays DEF FileInv, Sound
<1>3. n \in Nat \ {0} /\ freeClusters' \in Nat /\ n \in 0 .. MaxSize
  <2>1. freeClusters \in Nat /\ MaxSize \in Nat
    BY DiskFacts
  <2>2. n \in Nat \ {0} /\ n \in 0 .. MaxSize
    BY <2>1
  <2>3. n <= freeClusters /\ freeClusters' = freeClusters - n
    BY <1>1
  <2> QED
    BY <2>1, <2>2, <2>3
<1>4. /\ grow \in DiskOps /\ grow.kind = "grow" /\ grow.promised = n
      /\ grow.got = <<>> /\ grow.run = <<>>
  <2>1. grow \in DiskOps
    BY <1>3, OpTypes, Zenon DEF DiskKinds
  <2> QED
    BY <2>1 DEF NoOp
<1> HIDE DEF grow
<1>5. fcb' = [fcb EXCEPT ![f] = F]
  BY <1>1, DiskFacts
<1>6. Held(f) = Range(F.mcb) /\ Due(op[f]) = 0 /\ Held(f) \subseteq bitmap
  <2>1. Held(f) = HeldBy(F, op[f]) /\ Held(f) \subseteq bitmap
    BY DiskFacts
  <2>2. op[f].got = <<>> /\ op[f].run = <<>>
    BY <1>2 DEF NoOp
  <2>3. Due(op[f]) = 0
    BY <1>1, DueIs
  <2> QED
    BY <1>1, <2>1, <2>2, <2>3, EmptyFacts DEF HeldBy
<1>7. ASSUME NEW r \in RunsAtOnce(f, n), bitmap' = bitmap \cup Range(r),
             op' = [op EXCEPT ![f] = [grow EXCEPT !.pc = "reserved", !.run = r]]
      PROVE  DiskInv'
  <2>1. PICK c \in Clusters : r = Run(c, n) /\ IsFree(r)
    BY DEF RunsAtOnce, FreeRuns
  <2>2. /\ r \in Runs /\ Len(r) = n /\ r # <<>> /\ Distinct(r) /\ Consecutive(r)
        /\ Range(r) \subseteq Clusters \ bitmap
        /\ Apart(F.mcb, r) /\ Empty(fat, Range(r))
        /\ Cardinality(Clusters \ bitmap) = Cardinality(Clusters \ (bitmap \cup Range(r))) + n
        /\ Cardinality(Clusters \ (bitmap \cup Range(r))) \in Nat
    BY <1>1, <1>3, <2>1, FreeRunFacts
  <2> DEFINE o == [grow EXCEPT !.pc = "reserved", !.run = r]
  <2>3. o \in DiskOps
    BY <1>4, <2>2, OpTypes, Zenon DEF DiskPcs
  <2>4. /\ o.pc = "reserved" /\ o.kind = "grow" /\ o.promised = n /\ o.got = <<>> /\ o.run = r
    BY <1>4 DEF DiskOps
  <2>5. op' = [op EXCEPT ![f] = o]
    BY <1>7
  <2> HIDE DEF o, F
  <2>6. FileInv(F, o, fat')
    <3>1. Growing(F, o, fat)
      BY <1>2, <2>2, <2>4, EmptyFacts DEF Growing
    <3> QED
      BY <1>1, <1>2, <2>2, <2>4, <3>1, EmptyFacts DEF FileInv
  <2>7. Due(o) = 0
    BY <2>4, DueIs
  <2>8. HeldBy(F, o) = Range(F.mcb) \cup Range(r)
    BY <2>4, EmptyFacts DEF HeldBy
  <2>9. freeClusters' + Due(o) + Cardinality(Clusters \ bitmap)
            <= freeClusters + Due(op[f]) + Cardinality(Clusters \ bitmap')
    <3>1. freeClusters \in Nat
      BY DiskFacts
    <3>2. /\ freeClusters' = freeClusters - n /\ bitmap' = bitmap \cup Range(r)
          /\ Due(op[f]) = 0 /\ n \in Nat
      BY <1>1, <1>3, <1>6, <1>7
    <3> QED
      BY <2>2, <2>7, <3>1, <3>2
  <2>10. F \in Fcbs /\ fat' \in [Clusters -> Nat] /\ bitmap' \subseteq Clusters
    BY <1>1, <1>7, <2>2, DiskFacts DEF F
  <2> QED
    BY <1>1, <1>3, <1>5, <1>6, <1>7, <2>2, <2>3, <2>5, <2>6, <2>8, <2>9, <2>10, DiskStep
<1>8. ASSUME bitmap' = bitmap, op' = [op EXCEPT ![f] = [grow EXCEPT !.pc = "exclusive"]]
      PROVE  DiskInv'
  <2> DEFINE o == [grow EXCEPT !.pc = "exclusive"]
  <2>3. o \in DiskOps
    BY <1>4, OpTypes, Zenon DEF DiskPcs
  <2>4. o.pc = "exclusive" /\ o.kind = "grow" /\ o.promised = n /\ o.got = <<>> /\ o.run = <<>>
    BY <1>4 DEF DiskOps
  <2>5. op' = [op EXCEPT ![f] = o]
    BY <1>8
  <2> HIDE DEF o, F
  <2>6. FileInv(F, o, fat')
    <3>1. Growing(F, o, fat)
      BY <1>2, <1>3, <2>4, EmptyFacts DEF Growing
    <3> QED
      BY <1>1, <1>2, <2>4, <3>1, EmptyFacts DEF FileInv
  <2>7. Due(o) = n
    BY <1>3, <2>4, EmptyFacts, DueIs
  <2>8. HeldBy(F, o) = Range(F.mcb)
    BY <2>4, EmptyFacts DEF HeldBy
  <2>9. freeClusters' + Due(o) <= freeClusters + Due(op[f])
    <3>1. freeClusters \in Nat
      BY DiskFacts
    <3>2. freeClusters' = freeClusters - n /\ Due(op[f]) = 0 /\ n \in Nat
      BY <1>1, <1>3, <1>6
    <3> QED
      BY <2>7, <3>1, <3>2
  <2>10. F \in Fcbs
    BY DiskFacts DEF F
  <2> QED
    BY <1>1, <1>3, <1>5, <1>6, <1>8, <2>3, <2>5, <2>6, <2>8, <2>9, <2>10, QuietStep
<1> QED
  BY <1>1, <1>7, <1>8

\* The bitmap stays as it is, and the FAT but for the clusters of f.
LEMMA FatStep ==
    ASSUME DiskInv, NEW f \in Chained, NEW o \in DiskOps, NEW F \in Fcbs,
           op' = [op EXCEPT ![f] = o], fcb' = [fcb EXCEPT ![f] = F],
           fat' \in [Clusters -> Nat], \A c \in Clusters \ Held(f) : fat'[c] = fat[c],
           bitmap' = bitmap, freeClusters' = freeClusters,
           HeldBy(F, o) \subseteq Held(f), FileInv(F, o, fat'), Due(o) <= Due(op[f])
    PROVE  DiskInv'
<1>1. /\ Held(f) \subseteq bitmap /\ bitmap \subseteq Clusters
      /\ freeClusters \in Nat /\ Cardinality(Clusters \ bitmap) \in Nat
      /\ Due(op[f]) \in Nat /\ MaxSize \in Nat
  BY DiskFacts
<1>2. Due(o) \in Nat
  BY <1>1, DueIsNat
<1>3. freeClusters' + Due(o) + Cardinality(Clusters \ bitmap)
          <= freeClusters + Due(op[f]) + Cardinality(Clusters \ bitmap')
  BY <1>1, <1>2
<1>4. /\ bitmap' \subseteq Clusters /\ freeClusters' \in Nat
      /\ HeldBy(F, o) \subseteq Held(f) \cup (Clusters \ bitmap)
      /\ HeldBy(F, o) \subseteq bitmap'
      /\ bitmap \ Held(f) \subseteq bitmap'
      /\ \A c \in Clusters \ bitmap' : c \in Held(f) => fat'[c] = Available
  BY <1>1
<1> QED
  BY <1>3, <1>4, DiskStep

LEMMA AllocateClustersStep ==
    ASSUME DiskInv, NEW f \in Chained, AllocateClusters(f)
    PROVE  DiskInv'
<1> DEFINE F == fcb[f]
           p == op[f]
           o == [op[f] EXCEPT !.pc = "got", !.got = op[f].run, !.run = <<>>]
<1>1. /\ p.pc = "reserved" /\ fat' = Allocated(fat, p.run)
      /\ op' = [op EXCEPT ![f] = o] /\ fcb' = fcb
      /\ bitmap' = bitmap /\ freeClusters' = freeClusters
  BY DEF AllocateClusters, Step
<1>2. /\ p \in DiskOps /\ F \in Fcbs /\ FileInv(F, p, fat)
      /\ F.mcb \in Runs /\ p.run \in Runs /\ fat \in [Clusters -> Nat]
      /\ fcb = [fcb EXCEPT ![f] = F] /\ Held(f) = HeldBy(F, p) /\ Held(f) \subseteq Clusters
      /\ Due(p) \in Nat
  BY DiskFacts
<1>3. o \in DiskOps
  BY <1>2, EmptyFacts, OpTypes, Zenon DEF DiskPcs
<1>4. /\ o.pc = "got" /\ o.kind = p.kind /\ o.promised = p.promised /\ o.got = p.run
      /\ o.run = <<>> /\ o.at = p.at
  BY <1>2 DEF DiskOps
<1> HIDE DEF o, F, p
<1>5. /\ Distinct(F.mcb) /\ Distinct(p.run) /\ Apart(F.mcb, p.run) /\ Consecutive(p.run)
      /\ Growing(F, p, fat) \/ Moving(F, p, fat)
  <2>1. Growing(F, p, fat) \/ Moving(F, p, fat)
    BY <1>1, <1>2, PcSays
  <2> QED
    BY <1>1, <1>2, <2>1 DEF FileInv
<1>6. Entire(F, fat) /\ p.run # <<>>
  <2>1. CASE Growing(F, p, fat)
    BY <1>1, <2>1 DEF Growing
  <2>2. CASE Moving(F, p, fat)
    <3>1. Len(p.run) = 1 /\ Entire(F, fat)
      BY <1>1, <2>2 DEF Moving
    <3> QED
      BY <3>1, EmptyFacts
  <2> QED
    BY <1>5, <2>1, <2>2
<1>7. /\ fat' \in [Clusters -> Nat] /\ \A c \in Clusters : c \notin Range(p.run) => fat'[c] = fat[c]
      /\ Chains(fat', p.run)
  BY <1>1, <1>2, <1>5, <1>6, AllocatedFacts
<1>8. Entire(F, fat')
  <2>1. \A c \in Range(F.mcb) : fat'[c] = fat[c]
    BY <1>2, <1>5, <1>7, RunType DEF Apart
  <2> QED
    BY <1>6, <2>1, EntireElsewhere
<1>9. FileInv(F, o, fat')
  <2>1. CASE Growing(F, p, fat)
    <3>1. p.promised = Len(p.run) /\ p.kind = "grow"
      BY <1>1, <2>1 DEF Growing
    <3>2. Growing(F, o, fat')
      BY <1>4, <1>5, <1>6, <1>7, <1>8, <3>1 DEF Growing
    <3> QED
      BY <1>4, <1>5, <3>2, EmptyFacts DEF FileInv
  <2>2. CASE Moving(F, p, fat)
    <3>1. Len(p.run) = 1 /\ p.kind = "move" /\ p.at \in DOMAIN F.mcb
      BY <1>1, <2>2 DEF Moving
    <3>2. Moving(F, o, fat')
      BY <1>4, <1>5, <1>6, <1>7, <1>8, <3>1 DEF Moving
    <3> QED
      BY <1>4, <1>5, <3>2, EmptyFacts DEF FileInv
  <2> QED
    BY <1>5, <2>1, <2>2
<1>10. HeldBy(F, o) \subseteq Held(f) /\ Range(p.run) \subseteq Held(f)
  BY <1>1, <1>2, <1>4, EmptyFacts DEF HeldBy
<1>11. Due(o) <= Due(p)
  <2>1. Due(o) = 0
    BY <1>4, DueIs
  <2> QED
    BY <1>2, <2>1
<1>12. \A c \in Clusters \ Held(f) : fat'[c] = fat[c]
  BY <1>7, <1>10
<1>13. op' = [op EXCEPT ![f] = o] /\ fcb' = [fcb EXCEPT ![f] = F] /\ Due(o) <= Due(op[f])
  BY <1>1, <1>2, <1>11 DEF p
<1> QED
  BY <1>1, <1>2, <1>3, <1>7, <1>9, <1>10, <1>12, <1>13, FatStep

\* Bits that are cleared again, with as many counted.
LEMMA GiveBackStep ==
    ASSUME DiskInv, NEW f \in Chained, NEW o \in DiskOps, NEW F \in Fcbs, NEW r \in Runs,
           op' = [op EXCEPT ![f] = o], fcb' = [fcb EXCEPT ![f] = F], fat' = fat,
           Distinct(r), Range(r) \subseteq Held(f), Empty(fat, Range(r)),
           bitmap' = bitmap \ Range(r), freeClusters' = freeClusters + Len(r),
           HeldBy(F, o) \subseteq Held(f) \ Range(r), FileInv(F, o, fat'), Due(o) <= Due(op[f])
    PROVE  DiskInv'
<1>1. /\ Held(f) \subseteq bitmap /\ bitmap \in SUBSET Clusters /\ fat \in [Clusters -> Nat]
      /\ freeClusters \in Nat /\ Cardinality(Clusters \ bitmap) \in Nat
      /\ Due(op[f]) \in Nat /\ MaxSize \in Nat
  BY DiskFacts
<1>2. Due(o) \in Nat
  BY <1>1, DueIsNat
<1>3. Cardinality(Clusters \ bitmap') = Cardinality(Clusters \ bitmap) + Len(r) /\ Len(r) \in Nat
  <2>1. Range(r) \subseteq bitmap
    BY <1>1
  <2> QED
    BY <1>1, <2>1, RunReturned
<1>4. freeClusters' = freeClusters + Len(r) /\ Due(o) <= Due(op[f])
  OBVIOUS
<1>5. freeClusters' \in Nat /\ freeClusters' + Due(o) + Cardinality(Clusters \ bitmap)
                                   <= freeClusters + Due(op[f]) + Cardinality(Clusters \ bitmap')
  BY <1>1, <1>2, <1>3, <1>4
<1>6. /\ fat' \in [Clusters -> Nat] /\ bitmap' \subseteq Clusters
      /\ HeldBy(F, o) \subseteq Held(f) \cup (Clusters \ bitmap)
      /\ HeldBy(F, o) \subseteq bitmap'
      /\ \A c \in Clusters \ Held(f) : fat'[c] = fat[c]
      /\ bitmap \ Held(f) \subseteq bitmap'
      /\ \A c \in Clusters \ bitmap' : c \in Held(f) => fat'[c] = Available
  BY <1>1 DEF Empty
<1> QED
  BY <1>5, <1>6, DiskStep

LEMMA AllocateRaisesStep ==
    ASSUME DiskInv, NEW f \in Chained, AllocateRaises(f)
    PROVE  DiskInv'
<1> DEFINE F == fcb[f]
           p == op[f]
<1>1. /\ p.pc = "reserved" /\ fat' = fat /\ op' = [op EXCEPT ![f] = NoOp] /\ fcb' = fcb
      /\ bitmap' = bitmap \ Range(p.run) /\ freeClusters' = freeClusters + p.promised
  BY DEF AllocateRaises, Step
<1>2. /\ p \in DiskOps /\ F \in Fcbs /\ FileInv(F, p, fat)
      /\ F.mcb \in Runs /\ p.run \in Runs
      /\ fcb = [fcb EXCEPT ![f] = F] /\ Held(f) = HeldBy(F, p)
      /\ Due(p) \in Nat
  BY DiskFacts
<1> HIDE DEF F, p
<1>5. /\ Distinct(F.mcb) /\ Distinct(p.run) /\ Apart(F.mcb, p.run) /\ Empty(fat, Range(p.run))
      /\ Growing(F, p, fat) \/ Moving(F, p, fat)
  <2>1. Growing(F, p, fat) \/ Moving(F, p, fat)
    BY <1>1, <1>2, PcSays
  <2> QED
    BY <1>1, <1>2, <2>1 DEF FileInv
<1>6. Entire(F, fat) /\ p.promised = Len(p.run)
  BY <1>1, <1>5, EmptyFacts DEF Growing, Moving
<1>7. NoOp \in DiskOps /\ NoOp.pc = "idle" /\ NoOp.got = <<>> /\ NoOp.run = <<>>
  BY OpTypes DEF NoOp
<1>8. FileInv(F, NoOp, fat')
  BY <1>1, <1>5, <1>6, <1>7, EmptyFacts DEF FileInv, Sound
<1>9. Due(NoOp) <= Due(p)
  <2>1. Due(NoOp) = 0
    BY <1>7, DueIs
  <2> QED
    BY <1>2, <2>1
<1>10. HeldBy(F, NoOp) \subseteq Held(f) \ Range(p.run) /\ Range(p.run) \subseteq Held(f)
  BY <1>1, <1>2, <1>5, <1>7, EmptyFacts DEF HeldBy, Apart
<1>11. /\ op' = [op EXCEPT ![f] = NoOp] /\ fcb' = [fcb EXCEPT ![f] = F]
       /\ Due(NoOp) <= Due(op[f]) /\ freeClusters' = freeClusters + Len(p.run)
  BY <1>1, <1>2, <1>6, <1>9 DEF p
<1> QED
  BY <1>1, <1>2, <1>5, <1>7, <1>8, <1>10, <1>11, GiveBackStep

LEMMA AcquireExclusiveStep ==
    ASSUME DiskInv, NEW f \in Chained, AcquireExclusive(f)
    PROVE  DiskInv'
<1> DEFINE F == fcb[f]
           p == op[f]
           o == [op[f] EXCEPT !.pc = "looping"]
<1>1. /\ p.pc = "exclusive" /\ fat' = fat /\ op' = [op EXCEPT ![f] = o] /\ fcb' = fcb
      /\ bitmap' = bitmap /\ freeClusters' = freeClusters
  BY DEF AcquireExclusive, Step
<1>2. /\ p \in DiskOps /\ F \in Fcbs /\ FileInv(F, p, fat) /\ fat \in [Clusters -> Nat]
      /\ fcb = [fcb EXCEPT ![f] = F] /\ Held(f) = HeldBy(F, p)
      /\ Due(p) \in Nat /\ p.promised \in Nat
  BY DiskFacts
<1>3. o \in DiskOps
  BY <1>2, OpTypes, Zenon DEF DiskPcs
<1>4. /\ o.pc = "looping" /\ o.kind = p.kind /\ o.promised = p.promised /\ o.got = p.got
      /\ o.run = p.run
  BY <1>2 DEF DiskOps
<1> HIDE DEF o, F, p
<1>5. Growing(F, p, fat)
  BY <1>1, <1>2, PcSays
<1>6. p.got = <<>> /\ p.run = <<>> /\ p.promised # 0 /\ p.kind = "grow" /\ Entire(F, fat)
  BY <1>1, <1>5 DEF Growing
<1>7. Len(o.got) < o.promised
  BY <1>2, <1>4, <1>6, EmptyFacts
<1>8. FileInv(F, o, fat')
  <2>1. Growing(F, o, fat')
    BY <1>1, <1>4, <1>6, <1>7, EmptyFacts DEF Growing
  <2> QED
    BY <1>2, <1>4, <1>6, <2>1, EmptyFacts DEF FileInv
<1>9. Due(o) = Due(p) /\ HeldBy(F, o) = HeldBy(F, p)
  BY <1>1, <1>4 DEF Due, HeldBy
<1>10. op' = [op EXCEPT ![f] = o] /\ fcb' = [fcb EXCEPT ![f] = F] /\ Due(o) <= Due(op[f])
  BY <1>1, <1>2, <1>9 DEF p
<1>11. /\ fat' \in [Clusters -> Nat] /\ \A c \in Clusters \ Held(f) : fat'[c] = fat[c]
       /\ HeldBy(F, o) \subseteq Held(f)
  BY <1>1, <1>2, <1>9
<1> QED
  BY <1>1, <1>2, <1>3, <1>8, <1>10, <1>11, FatStep

\* Who waits for clusters finds one: he is promised one whose bit is clear.
LEMMA ClearBit ==
    ASSUME DiskInv, NEW f \in Chained, Due(op[f]) # 0
    PROVE  \E c \in Clusters : c \notin bitmap
<1>1. \A g \in Chained : Due(op[g]) \in 0 .. MaxSize /\ Outstanding(g) = Due(op[g])
  <2> SUFFICES ASSUME NEW g \in Chained
               PROVE  Due(op[g]) \in 0 .. MaxSize /\ Outstanding(g) = Due(op[g])
    OBVIOUS
  <2>1. fcb[g] \in Fcbs /\ op[g] \in DiskOps /\ FileInv(fcb[g], op[g], fat)
    BY DiskFacts
  <2> QED
    BY <2>1, DueIsNat DEF Outstanding, Due
<1>2. Promises = PromisesIn(op)
  BY <1>1 DEF Promises, PromisesIn
<1>3. MaxSize \in Nat
  BY MaxSizeAssumption
<1>4. IsFiniteSet(Promises)
  <2>1. IsFiniteSet(1 .. MaxSize)
    <3>1. 1 \in Int /\ MaxSize \in Int
      BY <1>3
    <3> QED
      BY <3>1, FS_Interval
  <2>2. IsFiniteSet(Chained \X (1 .. MaxSize))
    BY <2>1, ChainedAssumption, FS_Product
  <2>3. ASSUME NEW g \in Chained PROVE {g} \X (1 .. Due(op[g])) \subseteq Chained \X (1 .. MaxSize)
    BY <1>1, <1>3
  <2>4. PromisesIn(op) \subseteq Chained \X (1 .. MaxSize)
    BY <2>3 DEF PromisesIn
  <2> QED
    BY <1>2, <2>2, <2>4, FS_Subset
<1>5. <<f, 1>> \in Promises
  <2>1. 1 \in 1 .. Due(op[f])
    BY <1>1, <1>3
  <2> QED
    BY <1>2, <2>1 DEF PromisesIn
<1>6. Cardinality(Promises) # 0 /\ Cardinality(Promises) \in Nat
  BY <1>4, <1>5, FS_EmptySet, FS_CardinalityType
<1>7. freeClusters \in Nat /\ Cardinality(Clusters \ bitmap) \in Nat
  BY DiskFacts
<1>8. freeClusters + Cardinality(Promises) <= Cardinality(Clusters \ bitmap)
  BY DEF DiskInv, PromisesKept
<1>9. Cardinality(Clusters \ bitmap) # 0
  BY <1>6, <1>7, <1>8
<1>10. Cardinality({}) = 0
  BY FS_EmptySet
<1>11. Clusters \ bitmap # {}
  BY <1>9, <1>10, Zenon
<1> QED
  BY <1>11

\* Then there is one of the largest free runs that are not too large.
LEMMA LongestRun ==
    ASSUME NEW k \in Nat \ {0}, NEW c \in Clusters, c \notin bitmap
    PROVE  \E n \in 1 .. k : \E r \in FreeRuns(n) : \A m \in n + 1 .. k : FreeRuns(m) = {}
<1> DEFINE T == {i \in 0 .. k - 1 : FreeRuns(k - i) # {}}
<1>1. Run(c, 1) \in FreeRuns(1)
  <2>1. c \in Nat
    BY ClusterFacts
  <2>2. Range(Run(c, 1)) = {c}
    BY <2>1 DEF Run, Range
  <2>3. IsFree(Run(c, 1))
    BY <2>2 DEF IsFree
  <2> QED
    BY <2>3 DEF FreeRuns
<1>2. k - 1 \in T
  <2>1. k - 1 \in 0 .. k - 1 /\ k - (k - 1) = 1
    OBVIOUS
  <2> QED
    BY <1>1, <2>1
<1>3. T \subseteq Nat /\ T # {}
  BY <1>2
<1>4. PICK i \in T : \A j \in T : ~ (<<j, i>> \in OpToRel(<, Nat))
  <2> HIDE DEF T
  <2> QED
    BY <1>3, WFMin, NatLessThanWellFounded
<1>5. \A j \in T : ~ (j < i)
  BY <1>3, <1>4 DEF OpToRel
<1>6. k - i \in 1 .. k /\ FreeRuns(k - i) # {} /\ i \in Nat
  BY DEF T
<1>7. ASSUME NEW m \in (k - i) + 1 .. k PROVE FreeRuns(m) = {}
  <2>1. k - m \in 0 .. k - 1 /\ k - m < i /\ k - (k - m) = m
    BY <1>6
  <2>2. k - m \notin T
    BY <1>5, <2>1
  <2> QED
    BY <2>1, <2>2
<1> QED
  BY <1>6, <1>7

LEMMA RunsInLoopFacts ==
    ASSUME DiskInv, NEW f \in Chained, NEW k \in Nat \ {0}, k = op[f].promised - Len(op[f].got)
    PROVE  /\ \A r \in RunsInLoop(f) :
                  \E c \in Clusters : \E n \in 1 .. k : r = Run(c, n) /\ IsFree(r)
           /\ Due(op[f]) # 0 => RunsInLoop(f) # {}
<1> DEFINE long == {r \in UNION {FreeRuns(n) : n \in 1 .. k} :
                       \A n \in Len(r) + 1 .. k : FreeRuns(n) = {}}
           tail(h) == Run(h, IF h + k \in Clusters THEN k ELSE NumberOfClusters + 2 - h)
<1>1. RunsInLoop(f) = IF op[f].got # <<>> THEN long
                      ELSE UNION {IF IsFree(tail(h)) THEN {tail(h)} ELSE long : h \in Hints(f)}
  BY DEF RunsInLoop
<1>2. \A r \in long : \E c \in Clusters : \E n \in 1 .. k : r = Run(c, n) /\ IsFree(r)
  BY DEF FreeRuns
<1>3. ASSUME NEW h \in Clusters
      PROVE  \E n \in 1 .. k : tail(h) = Run(h, n)
  <2>1. h \in Nat /\ h >= 2 /\ h <= NumberOfClusters + 1 /\ NumberOfClusters \in Nat
    BY NumberOfClustersAssumption DEF Clusters
  <2>2. CASE h + k \in Clusters
    BY <2>2
  <2>3. CASE h + k \notin Clusters
    <3>1. ~ (h + k <= NumberOfClusters + 1)
      BY <2>1, <2>3 DEF Clusters
    <3>2. NumberOfClusters + 2 - h \in 1 .. k
      BY <2>1, <3>1
    <3> QED
      BY <2>3, <3>2
  <2> QED
    BY <2>2, <2>3
<1>4. Hints(f) \subseteq Clusters /\ Hints(f) # {}
  <2>1. 2 \in Clusters
    BY NumberOfClustersAssumption DEF Clusters
  <2> QED
    BY <2>1 DEF Hints
<1>5. ASSUME Due(op[f]) # 0 PROVE long # {}
  <2>1. PICK c \in Clusters : c \notin bitmap
    BY <1>5, ClearBit
  <2>2. PICK n \in 1 .. k : \E r \in FreeRuns(n) : \A m \in n + 1 .. k : FreeRuns(m) = {}
    BY <2>1, LongestRun
  <2>3. PICK r \in FreeRuns(n) : \A m \in n + 1 .. k : FreeRuns(m) = {}
    BY <2>2
  <2>4. PICK d \in Clusters : r = Run(d, n) /\ IsFree(r)
    BY <2>3 DEF FreeRuns
  <2>5. n \in Nat \ {0}
    OBVIOUS
  <2>6. Len(r) = n
    BY <2>4, <2>5, RunFacts
  <2> QED
    BY <2>3, <2>6
<1> HIDE DEF long, tail
<1>6. ASSUME NEW r \in RunsInLoop(f), r \notin long
      PROVE  \E c \in Clusters : \E n \in 1 .. k : r = Run(c, n) /\ IsFree(r)
  <2>1. PICK h \in Hints(f) : r = tail(h) /\ IsFree(tail(h))
    BY <1>1, <1>6
  <2>2. h \in Clusters
    BY <1>4
  <2>3. PICK n \in 1 .. k : tail(h) = Run(h, n)
    BY <1>3, <2>2
  <2> QED
    BY <2>1, <2>2, <2>3
<1>7. ASSUME Due(op[f]) # 0 PROVE RunsInLoop(f) # {}
  <2>1. long # {}
    BY <1>5, <1>7
  <2>2. CASE op[f].got # <<>>
    BY <1>1, <2>1, <2>2
  <2>3. CASE op[f].got = <<>>
    <3>1. PICK h \in Hints(f) : TRUE
      BY <1>4
    <3>2. PICK x : x \in IF IsFree(tail(h)) THEN {tail(h)} ELSE long
      BY <2>1
    <3>3. x \in RunsInLoop(f)
      BY <1>1, <2>3, <3>1, <3>2
    <3> QED
      BY <3>3
  <2> QED
    BY <2>2, <2>3
<1> QED
  BY <1>2, <1>6, <1>7

LEMMA ReserveInLoopStep ==
    ASSUME DiskInv, NEW f \in Chained, ReserveInLoop(f)
    PROVE  DiskInv'
<1> DEFINE F == fcb[f]
           p == op[f]
<1>1. /\ p.pc = "looping" /\ fat' = fat /\ fcb' = fcb /\ freeClusters' = freeClusters
      /\ \/ \E r \in RunsInLoop(f) :
               /\ bitmap' = bitmap \cup Range(r)
               /\ op' = [op EXCEPT ![f] = [op[f] EXCEPT !.pc = "found", !.run = r]]
         \/ RunsInLoop(f) = {}
  BY DEF ReserveInLoop, Step
<1>2. /\ p \in DiskOps /\ F \in Fcbs /\ FileInv(F, p, fat) /\ F.mcb \in Runs
      /\ p.got \in Runs /\ p.promised \in Nat
      /\ fcb = [fcb EXCEPT ![f] = F] /\ Held(f) = HeldBy(F, p) /\ Held(f) \subseteq bitmap
      /\ bitmap \subseteq Clusters /\ fat \in [Clusters -> Nat]
  BY DiskFacts
<1>3. freeClusters \in Nat /\ Cardinality(Clusters \ bitmap) \in Nat
  BY DiskFacts
<1>4. /\ p.kind = "grow" /\ p.run = <<>> /\ Len(p.got) < p.promised
      /\ Entire(F, fat) /\ Chains(fat, p.got) /\ Apart(F.mcb, p.got)
      /\ Distinct(F.mcb) /\ Distinct(p.got)
  <2>1. Growing(F, p, fat)
    BY <1>1, <1>2, PcSays
  <2> QED
    BY <1>1, <1>2, <2>1 DEF Growing, FileInv
<1> DEFINE k == p.promised - Len(p.got)
<1>5. Len(p.got) \in Nat /\ k \in Nat \ {0} /\ Due(op[f]) = k
  <2>1. Len(p.got) \in Nat
    BY <1>2, RunType
  <2>2. Due(op[f]) = p.promised - Len(p.got) - 0
    BY <1>1, <1>4, EmptyFacts, DueIs
  <2> QED
    BY <1>2, <1>4, <2>1, <2>2
<1>6. /\ \A r \in RunsInLoop(f) : \E c \in Clusters : \E n \in 1 .. k : r = Run(c, n) /\ IsFree(r)
      /\ RunsInLoop(f) # {}
  BY <1>5, RunsInLoopFacts
<1>7. PICK r \in RunsInLoop(f) :
          /\ bitmap' = bitmap \cup Range(r)
          /\ op' = [op EXCEPT ![f] = [op[f] EXCEPT !.pc = "found", !.run = r]]
  BY <1>1, <1>6
<1>8. PICK c \in Clusters, n \in 1 .. k : r = Run(c, n) /\ IsFree(r)
  BY <1>6
<1>9. n \in Nat \ {0} /\ n <= k
  BY <1>5
<1>10. /\ r \in Runs /\ Len(r) = n /\ r # <<>> /\ Distinct(r) /\ Consecutive(r)
       /\ Range(r) \subseteq Clusters \ bitmap
       /\ Apart(F.mcb, r) /\ Apart(p.got, r) /\ Empty(fat, Range(r))
       /\ Cardinality(Clusters \ bitmap) = Cardinality(Clusters \ (bitmap \cup Range(r))) + n
       /\ Cardinality(Clusters \ (bitmap \cup Range(r))) \in Nat
  BY <1>1, <1>8, <1>9, FreeRunFacts
<1> DEFINE o == [op[f] EXCEPT !.pc = "found", !.run = r]
<1>11. o \in DiskOps
  BY <1>2, <1>10, OpTypes, Zenon DEF DiskPcs
<1>12. /\ o.pc = "found" /\ o.kind = "grow" /\ o.promised = p.promised /\ o.got = p.got /\ o.run = r
  BY <1>2, <1>4 DEF DiskOps
<1>13. op' = [op EXCEPT ![f] = o] /\ fcb' = [fcb EXCEPT ![f] = F]
  BY <1>1, <1>2, <1>7
<1>14. Due(o) = k - n
  <2>1. Due(o) = p.promised - Len(p.got) - n
    BY <1>10, <1>12, DueIs
  <2> QED
    BY <2>1
<1>15. Len(p.got) + n <= p.promised
  BY <1>2, <1>5, <1>9
<1> HIDE DEF o, F, p, k
<1>16. FileInv(F, o, fat')
  <2>1. Growing(F, o, fat)
    BY <1>4, <1>10, <1>12, <1>15 DEF Growing
  <2> QED
    BY <1>1, <1>4, <1>10, <1>12, <2>1 DEF FileInv
<1>17. HeldBy(F, o) = Held(f) \cup Range(r)
  BY <1>1, <1>2, <1>4, <1>12, EmptyFacts DEF HeldBy
<1>18. freeClusters' + Due(o) + Cardinality(Clusters \ bitmap)
            <= freeClusters + Due(op[f]) + Cardinality(Clusters \ bitmap')
  <2>1. freeClusters' = freeClusters /\ bitmap' = bitmap \cup Range(r) /\ k \in Nat
    BY <1>1, <1>5, <1>7
  <2> QED
    BY <1>3, <1>5, <1>9, <1>10, <1>14, <2>1
<1>19. /\ fat' \in [Clusters -> Nat] /\ bitmap' \subseteq Clusters /\ freeClusters' \in Nat
       /\ HeldBy(F, o) \subseteq Held(f) \cup (Clusters \ bitmap)
       /\ HeldBy(F, o) \subseteq bitmap'
       /\ \A d \in Clusters \ Held(f) : fat'[d] = fat[d]
       /\ bitmap \ Held(f) \subseteq bitmap'
       /\ \A d \in Clusters \ bitmap' : d \in Held(f) => fat'[d] = Available
  BY <1>1, <1>2, <1>3, <1>7, <1>10, <1>17
<1> QED
  BY <1>2, <1>11, <1>13, <1>16, <1>18, <1>19, DiskStep

LEMMA AllocateInLoopStep ==
    ASSUME DiskInv, NEW f \in Chained, AllocateInLoop(f)
    PROVE  DiskInv'
<1> DEFINE F == fcb[f]
           p == op[f]
           mid == Linked(p.got, p.run[1])
           all == p.got \o p.run
           to == IF Len(all) = p.promised THEN "got" ELSE "looping"
           o == [op[f] EXCEPT !.pc = to, !.got = all, !.run = <<>>]
<1>1. /\ p.pc = "found" /\ fat' = Allocated(mid, p.run)
      /\ op' = [op EXCEPT ![f] = o] /\ fcb' = fcb
      /\ bitmap' = bitmap /\ freeClusters' = freeClusters
  BY DEF AllocateInLoop, Step
<1>2. /\ p \in DiskOps /\ F \in Fcbs /\ FileInv(F, p, fat)
      /\ F.mcb \in Runs /\ p.run \in Runs /\ p.got \in Runs /\ fat \in [Clusters -> Nat]
      /\ fcb = [fcb EXCEPT ![f] = F] /\ Held(f) = HeldBy(F, p)
      /\ Due(p) \in Nat /\ p.promised \in Nat
  BY DiskFacts
<1>3. all \in Runs /\ to \in DiskPcs
  BY <1>2, ConcatFacts DEF DiskPcs
<1>4. o \in DiskOps
  BY <1>2, <1>3, EmptyFacts, OpTypes, Zenon
<1>5. /\ o.pc = to /\ o.kind = p.kind /\ o.promised = p.promised /\ o.got = all /\ o.run = <<>>
  BY <1>2 DEF DiskOps
<1>6. to \in {"got", "looping"} /\ (to = "got") = (Len(all) = p.promised)
  OBVIOUS
<1>7. /\ p.kind = "grow" /\ p.run # <<>> /\ Len(p.got) + Len(p.run) <= p.promised
      /\ Entire(F, fat) /\ Chains(fat, p.got) /\ Apart(F.mcb, p.got)
      /\ Distinct(F.mcb) /\ Distinct(p.got) /\ Distinct(p.run) /\ Consecutive(p.run)
      /\ Apart(F.mcb, p.run) /\ Apart(p.got, p.run)
  <2>1. Growing(F, p, fat)
    BY <1>1, <1>2, PcSays
  <2> QED
    BY <1>1, <1>2, <2>1 DEF Growing, FileInv
<1>8. p.run[1] \in Nat /\ p.run[1] \in Range(p.run) /\ 1 \in DOMAIN p.run
  <2>1. DOMAIN p.run = 1 .. Len(p.run) /\ Len(p.run) \in Nat \ {0}
    BY <1>2, <1>7, EmptySeq DEF Runs
  <2>2. 1 \in DOMAIN p.run
    BY <2>1
  <2> QED
    BY <1>2, <2>2, RunType, ClusterFacts
<1> HIDE DEF o, F, p, mid, all, to
<1>9. /\ mid \in [Clusters -> Nat]
      /\ \A d \in Clusters : d \notin Range(p.got) => mid[d] = fat[d]
      /\ p.got # <<>> => mid[Last(p.got)] = p.run[1]
      /\ p.got # <<>> => \A d \in Clusters : d # Last(p.got) => mid[d] = fat[d]
  <2>1. p.got \in Runs /\ p.run[1] \in Nat /\ fat \in [Clusters -> Nat]
    BY <1>2, <1>8
  <2> QED
    BY <2>1, LinkedFacts DEF mid
<1>10. /\ fat' \in [Clusters -> Nat]
       /\ \A c \in Clusters : c \notin Range(p.run) => fat'[c] = mid[c]
       /\ Chains(fat', p.run)
  BY <1>1, <1>2, <1>7, <1>9, AllocatedFacts
<1>11. Entire(F, fat')
  <2>1. \A c \in Range(F.mcb) : fat'[c] = fat[c]
    BY <1>2, <1>7, <1>9, <1>10, RunType DEF Apart
  <2> QED
    BY <1>7, <2>1, EntireElsewhere
<1>12. Chains(fat', all)
  <2>1. p.got # <<>> => fat'[Last(p.got)] = p.run[1]
    <3>1. ASSUME p.got # <<>> PROVE fat'[Last(p.got)] = p.run[1]
      <4>1. Last(p.got) \in Range(p.got) /\ Last(p.got) \in Clusters
        BY <1>2, <3>1, LastFacts
      <4>2. Last(p.got) \notin Range(p.run)
        BY <1>7, <4>1 DEF Apart
      <4> QED
        BY <1>9, <1>10, <3>1, <4>1, <4>2
    <3> QED
      BY <3>1
  <2>2. ASSUME NEW i \in DOMAIN p.got, i # Len(p.got) PROVE fat'[p.got[i]] = fat[p.got[i]]
    <3>1. /\ p.got[i] \in Clusters /\ p.got[i] \in Range(p.got) /\ p.got # <<>>
          /\ Last(p.got) = p.got[Len(p.got)] /\ Len(p.got) \in DOMAIN p.got
      <4>1. p.got # <<>>
        BY EmptyFacts DEF Range
      <4> QED
        BY <1>2, <4>1, RunType, LastFacts
    <3>2. p.got[i] # Last(p.got)
      BY <1>7, <2>2, <3>1 DEF Distinct
    <3>3. p.got[i] \notin Range(p.run)
      BY <1>7, <3>1 DEF Apart
    <3> QED
      BY <1>9, <1>10, <3>1, <3>2, <3>3
  <2>3. /\ p.got \in Runs /\ p.run \in Runs /\ p.run # <<>>
        /\ Chains(fat, p.got) /\ Chains(fat', p.run)
    BY <1>2, <1>7, <1>10
  <2> QED
    BY <2>1, <2>2, <2>3, ChainsConcat DEF all
<1>13. /\ Len(all) = Len(p.got) + Len(p.run) /\ Range(all) = Range(p.got) \cup Range(p.run)
       /\ all # <<>> /\ Distinct(all) /\ Len(p.got) \in Nat /\ Len(p.run) \in Nat
  BY <1>2, <1>7, ConcatFacts, RunType DEF all
<1>14. Apart(F.mcb, all)
  <2>1. /\ Range(F.mcb) \cap Range(p.got) = {} /\ Range(F.mcb) \cap Range(p.run) = {}
        /\ Range(all) = Range(p.got) \cup Range(p.run)
    BY <1>7, <1>13 DEF Apart
  <2>2. Range(F.mcb) \cap Range(all) = {}
    BY <2>1
  <2> QED
    BY <2>2 DEF Apart
<1>15. Len(all) <= p.promised /\ Len(all) \in Nat
  <2>1. Len(p.got) + Len(p.run) <= p.promised
    BY <1>7
  <2>2. Len(all) = Len(p.got) + Len(p.run)
    BY <1>13
  <2>3. Len(all) \in Nat
    BY <1>3, RunType DEF all
  <2> QED
    BY <2>1, <2>2, <2>3, Zenon
<1>16. FileInv(F, o, fat')
  <2>1. CASE to = "got"
    <3>1. Growing(F, o, fat')
      BY <1>5, <1>6, <1>7, <1>11, <1>12, <1>13, <1>14, <2>1 DEF Growing
    <3> QED
      BY <1>5, <1>7, <1>13, <2>1, <3>1, EmptyFacts DEF FileInv
  <2>2. CASE to = "looping"
    <3>1. Len(all) < p.promised
      BY <1>2, <1>6, <1>15, <2>2
    <3>2. Growing(F, o, fat')
      BY <1>5, <1>7, <1>11, <1>12, <1>14, <2>2, <3>1 DEF Growing
    <3> QED
      BY <1>5, <1>7, <1>13, <2>2, <3>2, EmptyFacts DEF FileInv
  <2> QED
    BY <1>6, <2>1, <2>2
<1>17. HeldBy(F, o) = Held(f) /\ Range(p.got) \subseteq Held(f) /\ Range(p.run) \subseteq Held(f)
  BY <1>1, <1>2, <1>5, <1>6, <1>13, EmptyFacts DEF HeldBy
<1>18. Due(o) <= Due(p)
  <2>1. CASE to = "got"
    BY <1>2, <1>5, <2>1, DueIs
  <2>2. CASE to = "looping"
    <3>1. Due(o) = p.promised - Len(all) - 0
      BY <1>5, <2>2, EmptyFacts, DueIs
    <3>2. Due(p) = p.promised - Len(p.got) - Len(p.run)
      BY <1>1, DueIs
    <3>3. /\ p.promised \in Nat /\ Len(p.got) \in Nat /\ Len(p.run) \in Nat
          /\ Len(all) = Len(p.got) + Len(p.run)
      BY <1>2, <1>13
    <3>4. \A x, y, z \in Nat : x - (y + z) - 0 <= x - y - z
      OBVIOUS
    <3>5. Due(o) = p.promised - (Len(p.got) + Len(p.run)) - 0
      BY <3>1, <3>3
    <3> QED
      BY <3>2, <3>3, <3>4, <3>5
  <2> QED
    BY <1>6, <2>1, <2>2
<1>19. \A c \in Clusters \ Held(f) : fat'[c] = fat[c]
  BY <1>9, <1>10, <1>17
<1>20. op' = [op EXCEPT ![f] = o] /\ fcb' = [fcb EXCEPT ![f] = F] /\ Due(o) <= Due(op[f])
  BY <1>1, <1>2, <1>18 DEF p
<1> QED
  BY <1>1, <1>2, <1>4, <1>10, <1>16, <1>17, <1>19, <1>20, FatStep

LEMMA LoopRaisesStep ==
    ASSUME DiskInv, NEW f \in Chained, LoopRaises(f)
    PROVE  DiskInv'
<1> DEFINE F == fcb[f]
           p == op[f]
           mid == Linked(p.got, p.run[1])
           o == [op[f] EXCEPT !.pc = "unwinding"]
<1>1. /\ p.pc = "found" /\ fat' \in {fat, mid}
      /\ op' = [op EXCEPT ![f] = o] /\ fcb' = fcb
      /\ bitmap' = bitmap /\ freeClusters' = freeClusters
  BY DEF LoopRaises, Step
<1>2. /\ p \in DiskOps /\ F \in Fcbs /\ FileInv(F, p, fat)
      /\ F.mcb \in Runs /\ p.run \in Runs /\ p.got \in Runs /\ fat \in [Clusters -> Nat]
      /\ fcb = [fcb EXCEPT ![f] = F] /\ Held(f) = HeldBy(F, p)
      /\ Due(p) \in Nat
  BY DiskFacts
<1>3. o \in DiskOps
  BY <1>2, OpTypes, Zenon DEF DiskPcs
<1>4. o.pc = "unwinding" /\ o.kind = p.kind /\ o.got = p.got /\ o.run = p.run
  BY <1>2 DEF DiskOps
<1>5. /\ p.kind = "grow" /\ p.run # <<>> /\ Entire(F, fat) /\ Apart(F.mcb, p.got)
      /\ Distinct(F.mcb) /\ Distinct(p.got) /\ Distinct(p.run)
      /\ Apart(F.mcb, p.run) /\ Apart(p.got, p.run) /\ Empty(fat, Range(p.run))
  <2>1. Growing(F, p, fat)
    BY <1>1, <1>2, PcSays
  <2> QED
    BY <1>1, <1>2, <2>1 DEF Growing, FileInv
<1>6. p.run[1] \in Nat
  <2>1. DOMAIN p.run = 1 .. Len(p.run) /\ Len(p.run) \in Nat \ {0}
    BY <1>2, <1>5, EmptySeq DEF Runs
  <2>2. 1 \in DOMAIN p.run
    BY <2>1
  <2> QED
    BY <1>2, <2>2, RunType, ClusterFacts
<1> HIDE DEF o, F, p, mid
<1>7. /\ fat' \in [Clusters -> Nat]
      /\ \A d \in Clusters : d \notin Range(p.got) => fat'[d] = fat[d]
  <2>1. p.got \in Runs /\ p.run[1] \in Nat /\ fat \in [Clusters -> Nat]
    BY <1>2, <1>6
  <2>2. /\ mid \in [Clusters -> Nat]
        /\ \A d \in Clusters : d \notin Range(p.got) => mid[d] = fat[d]
    BY <2>1, LinkedFacts DEF mid
  <2> QED
    BY <1>1, <1>2, <2>2
<1>8. Entire(F, fat')
  <2>1. \A c \in Range(F.mcb) : fat'[c] = fat[c]
    BY <1>2, <1>5, <1>7, RunType DEF Apart
  <2> QED
    BY <1>5, <2>1, EntireElsewhere
<1>9. Empty(fat', Range(p.run))
  <2>1. \A c \in Range(p.run) : c \in Clusters /\ c \notin Range(p.got)
    BY <1>2, <1>5, RunType DEF Apart
  <2> QED
    BY <1>5, <1>7, <2>1 DEF Empty
<1>10. FileInv(F, o, fat')
  <2>1. Growing(F, o, fat')
    BY <1>4, <1>5, <1>8 DEF Growing
  <2> QED
    BY <1>4, <1>5, <1>9, <2>1 DEF FileInv
<1>11. HeldBy(F, o) = Held(f) /\ Range(p.got) \subseteq Held(f)
  BY <1>1, <1>2, <1>4 DEF HeldBy
<1>12. Due(o) <= Due(p)
  <2>1. Due(o) = 0
    BY <1>4, DueIs
  <2> QED
    BY <1>2, <2>1
<1>13. \A c \in Clusters \ Held(f) : fat'[c] = fat[c]
  BY <1>7, <1>11
<1>14. op' = [op EXCEPT ![f] = o] /\ fcb' = [fcb EXCEPT ![f] = F] /\ Due(o) <= Due(op[f])
  BY <1>1, <1>2, <1>12 DEF p
<1> QED
  BY <1>1, <1>2, <1>3, <1>7, <1>10, <1>11, <1>13, <1>14, FatStep

LEMMA NoOpFacts ==
    /\ NoOp \in DiskOps /\ NoOp.pc = "idle" /\ NoOp.got = <<>> /\ NoOp.run = <<>>
    /\ Due(NoOp) = 0
    /\ \A F : HeldBy(F, NoOp) = Range(F.mcb)
    /\ \A F, table : Sound(F, table) /\ Distinct(F.mcb) => FileInv(F, NoOp, table)
    /\ \A F, table : Entire(F, table) /\ Distinct(F.mcb) => FileInv(F, NoOp, table)
<1>1. NoOp \in DiskOps /\ NoOp.pc = "idle" /\ NoOp.got = <<>> /\ NoOp.run = <<>>
  BY OpTypes DEF NoOp
<1>2. Due(NoOp) = 0
  BY <1>1, DueIs
<1>3. \A F : HeldBy(F, NoOp) = Range(F.mcb)
  BY <1>1, EmptyFacts DEF HeldBy
<1>4. \A F, table : Sound(F, table) /\ Distinct(F.mcb) => FileInv(F, NoOp, table)
  BY <1>1, EmptyFacts DEF FileInv
<1>5. \A F, table : Entire(F, table) => Sound(F, table)
  BY DEF Sound
<1> QED
  BY <1>1, <1>2, <1>3, <1>4, <1>5

LEMMA GiveBackClusters ==
    ASSUME DiskInv, NEW f \in Chained, GiveBack(f)
    PROVE  DiskInv'
<1> DEFINE F == fcb[f]
           p == op[f]
           undo == [op[f] EXCEPT !.pc = "freeing", !.kind = "undo", !.run = <<>>]
           o == IF op[f].got = <<>> THEN NoOp ELSE undo
<1>1. /\ p.pc = "unwinding" /\ fat' = fat
      /\ op' = [op EXCEPT ![f] = o] /\ fcb' = fcb
      /\ bitmap' = bitmap \ Range(p.run) /\ freeClusters' = freeClusters + Len(p.run)
  BY DEF GiveBack, Step
<1>2. /\ p \in DiskOps /\ F \in Fcbs /\ FileInv(F, p, fat)
      /\ F.mcb \in Runs /\ p.run \in Runs /\ p.got \in Runs
      /\ fcb = [fcb EXCEPT ![f] = F] /\ Held(f) = HeldBy(F, p)
      /\ Due(p) \in Nat
  BY DiskFacts
<1>3. undo \in DiskOps
  BY <1>2, EmptyFacts, OpTypes, Zenon DEF DiskPcs, DiskKinds
<1>4. undo.pc = "freeing" /\ undo.kind = "undo" /\ undo.got = p.got /\ undo.run = <<>>
  BY <1>2 DEF DiskOps
<1>5. /\ Entire(F, fat) /\ Apart(F.mcb, p.got)
      /\ Distinct(F.mcb) /\ Distinct(p.got) /\ Distinct(p.run)
      /\ Apart(F.mcb, p.run) /\ Apart(p.got, p.run) /\ Empty(fat, Range(p.run))
  <2>1. Growing(F, p, fat)
    BY <1>1, <1>2, PcSays
  <2> QED
    BY <1>1, <1>2, <2>1 DEF Growing, FileInv
<1>6. o \in {NoOp, undo}
  OBVIOUS
<1> HIDE DEF undo, o, F, p
<1>7. FileInv(F, undo, fat')
  <2>1. Freeing(F, undo, fat')
    BY <1>1, <1>4, <1>5 DEF Freeing, Sound
  <2> QED
    BY <1>4, <1>5, <2>1, EmptyFacts DEF FileInv
<1>8. FileInv(F, NoOp, fat')
  BY <1>1, <1>5, NoOpFacts
<1>9. o \in DiskOps /\ FileInv(F, o, fat')
  BY <1>3, <1>6, <1>7, <1>8, NoOpFacts
<1>10. Due(o) = 0
  <2>1. Due(undo) = 0
    BY <1>4, DueIs
  <2> QED
    BY <1>6, <2>1, NoOpFacts
<1>11. HeldBy(F, o) \subseteq Held(f) \ Range(p.run) /\ Range(p.run) \subseteq Held(f)
  <2>1. HeldBy(F, undo) = Range(F.mcb) \cup Range(p.got)
    BY <1>4, EmptyFacts DEF HeldBy
  <2>2. HeldBy(F, NoOp) = Range(F.mcb)
    BY NoOpFacts
  <2>3. Held(f) = Range(F.mcb) \cup Range(p.got) \cup Range(p.run)
    BY <1>1, <1>2 DEF HeldBy
  <2>4. Range(F.mcb) \cap Range(p.run) = {} /\ Range(p.got) \cap Range(p.run) = {}
    BY <1>5 DEF Apart
  <2> QED
    BY <1>6, <2>1, <2>2, <2>3, <2>4
<1>12. /\ op' = [op EXCEPT ![f] = o] /\ fcb' = [fcb EXCEPT ![f] = F] /\ Due(o) <= Due(op[f])
  BY <1>1, <1>2, <1>10 DEF p
<1> QED
  BY <1>1, <1>2, <1>5, <1>9, <1>11, <1>12, GiveBackStep

\* What raises where nothing is to be given back at once: the new clusters are freed.
LEMMA UndoStep ==
    ASSUME DiskInv, NEW f \in Chained, MergeRaises(f) \/ MoveRaises(f)
    PROVE  DiskInv'
<1> DEFINE F == fcb[f]
           p == op[f]
           o == [op[f] EXCEPT !.pc = "freeing", !.kind = "undo"]
<1>1. /\ \/ p.pc = "got" /\ p.kind = "grow"
         \/ p.pc \in {"got", "spliced"} /\ p.kind = "move"
      /\ fat' = fat /\ op' = [op EXCEPT ![f] = o] /\ fcb' = fcb
      /\ bitmap' = bitmap /\ freeClusters' = freeClusters
  BY DEF MergeRaises, MoveRaises, Step
<1>2. /\ p \in DiskOps /\ F \in Fcbs /\ FileInv(F, p, fat) /\ fat \in [Clusters -> Nat]
      /\ fcb = [fcb EXCEPT ![f] = F] /\ Held(f) = HeldBy(F, p)
      /\ Due(p) \in Nat
  BY DiskFacts
<1>3. o \in DiskOps
  BY <1>2, OpTypes, Zenon DEF DiskPcs, DiskKinds
<1>4. o.pc = "freeing" /\ o.kind = "undo" /\ o.got = p.got /\ o.run = p.run
  BY <1>2 DEF DiskOps
<1> HIDE DEF o, F, p
<1>5. Growing(F, p, fat) \/ Moving(F, p, fat)
  BY <1>1, <1>2, PcSays
<1>6. Entire(F, fat) /\ Apart(F.mcb, p.got) /\ p.run = <<>>
  BY <1>1, <1>5 DEF Growing, Moving
<1>7. FileInv(F, o, fat')
  <2>1. Freeing(F, o, fat')
    BY <1>1, <1>4, <1>6 DEF Freeing, Sound
  <2> QED
    BY <1>2, <1>4, <1>6, <2>1, EmptyFacts DEF FileInv
<1>8. HeldBy(F, o) = Held(f)
  BY <1>1, <1>2, <1>4 DEF HeldBy
<1>9. Due(o) <= Due(p)
  <2>1. Due(o) = 0
    BY <1>4, DueIs
  <2> QED
    BY <1>2, <2>1
<1>10. /\ op' = [op EXCEPT ![f] = o] /\ fcb' = [fcb EXCEPT ![f] = F] /\ Due(o) <= Due(op[f])
       /\ fat' \in [Clusters -> Nat] /\ \A c \in Clusters \ Held(f) : fat'[c] = fat[c]
  BY <1>1, <1>2, <1>9 DEF p
<1> QED
  BY <1>1, <1>2, <1>3, <1>7, <1>8, <1>10, FatStep

LEMMA MergeAllocationStep ==
    ASSUME DiskInv, NEW f \in Chained, MergeAllocation(f)
    PROVE  DiskInv'
<1> DEFINE F == fcb[f]
           p == op[f]
           first == IF F.size = 0 THEN p.got[1] ELSE F.first
           entry == IF F.size = 0 THEN p.got[1] ELSE F.entry
           G == [F EXCEPT !.mcb = F.mcb \o p.got, !.size = F.size + p.promised,
                          !.first = first, !.entry = entry]
<1>1. /\ p.pc = "got" /\ p.kind = "grow" /\ fat' = Linked(F.mcb, p.got[1])
      /\ op' = [op EXCEPT ![f] = NoOp]
      /\ fcb' = [fcb EXCEPT ![f] =
                    IF F.size = 0
                    THEN [[F EXCEPT !.mcb = @ \o p.got, !.size = @ + p.promised]
                              EXCEPT !.first = p.got[1], !.entry = p.got[1]]
                    ELSE [F EXCEPT !.mcb = @ \o p.got, !.size = @ + p.promised]]
      /\ bitmap' = bitmap /\ freeClusters' = freeClusters
  BY DEF MergeAllocation, Step
<1>2. /\ p \in DiskOps /\ F \in Fcbs /\ FileInv(F, p, fat)
      /\ F.mcb \in Runs /\ p.got \in Runs /\ fat \in [Clusters -> Nat]
      /\ Held(f) = HeldBy(F, p)
      /\ Due(p) \in Nat /\ p.promised \in Nat
  BY DiskFacts
<1>3. /\ Entire(F, fat) /\ Chains(fat, p.got) /\ Apart(F.mcb, p.got) /\ p.got # <<>>
      /\ p.run = <<>> /\ p.promised = Len(p.got)
      /\ Distinct(F.mcb) /\ Distinct(p.got)
  <2>1. Growing(F, p, fat)
    BY <1>1, <1>2, PcSays
  <2> QED
    BY <1>1, <1>2, <2>1 DEF Growing, FileInv
<1>4. /\ p.got[1] \in Clusters /\ p.got[1] \in Nat /\ p.got[1] \in Range(p.got)
      /\ Len(p.got) # 0
  <2>1. DOMAIN p.got = 1 .. Len(p.got) /\ Len(p.got) \in Nat \ {0}
    BY <1>2, <1>3, EmptySeq DEF Runs
  <2>2. 1 \in DOMAIN p.got
    BY <2>1
  <2> QED
    BY <1>2, <2>1, <2>2, RunType, ClusterFacts
<1>5. F.size \in Nat /\ F.first \in Nat /\ F.entry \in Nat /\ F.torn \in {"no", "entry", "chain"}
  BY <1>2 DEF Fcbs
<1>6. /\ F.mcb \o p.got \in Runs /\ Range(F.mcb \o p.got) = Range(F.mcb) \cup Range(p.got)
      /\ F.mcb = <<>> => F.mcb \o p.got = p.got
      /\ F.mcb \o p.got # <<>>
      /\ F.mcb # <<>> => (F.mcb \o p.got)[1] = F.mcb[1]
      /\ Distinct(F.mcb \o p.got)
  BY <1>2, <1>3, ConcatFacts
<1>7. G \in Fcbs /\ fcb' = [fcb EXCEPT ![f] = G]
  <2>1. first \in Nat /\ entry \in Nat /\ F.size + p.promised \in Nat
    BY <1>2, <1>4, <1>5
  <2>2. fcb' = [fcb EXCEPT ![f] = G]
    <3> HIDE DEF F, p
    <3>1. F = [mcb |-> F.mcb, size |-> F.size, first |-> F.first, entry |-> F.entry,
               torn |-> F.torn]
      BY <1>2 DEF Fcbs
    <3> QED
      BY <1>1, <3>1
  <2> HIDE DEF first, entry
  <2> QED
    BY <1>2, <1>6, <2>1, <2>2 DEF Fcbs
<1>8. /\ G.mcb = F.mcb \o p.got /\ G.first = first /\ G.size = F.size + p.promised
      /\ G.entry = entry /\ G.torn = F.torn
  BY <1>2 DEF Fcbs
<1>19. F.torn = "no" => entry = first
  BY <1>3 DEF Entire
<1>9. F.mcb = <<>> => F.size = 0 /\ first = p.got[1]
  BY <1>3 DEF Entire
<1>10. F.mcb # <<>> => F.size # 0 /\ first = F.mcb[1]
  BY <1>3 DEF Entire
<1>11. F.size + p.promised # 0
  <2>1. p.promised # 0
    BY <1>3, <1>4
  <2> QED
    BY <1>2, <1>5, <2>1
<1> HIDE DEF G, F, p, first, entry
<1>12. /\ fat' \in [Clusters -> Nat]
       /\ \A d \in Clusters : d \notin Range(F.mcb) => fat'[d] = fat[d]
       /\ F.mcb # <<>> => fat'[Last(F.mcb)] = p.got[1]
       /\ F.mcb # <<>> => \A d \in Clusters : d # Last(F.mcb) => fat'[d] = fat[d]
  <2>1. F.mcb \in Runs /\ p.got[1] \in Nat /\ fat \in [Clusters -> Nat]
        /\ fat' = Linked(F.mcb, p.got[1])
    BY <1>1, <1>2, <1>4
  <2> QED
    BY <2>1, LinkedFacts
<1>13. Chains(fat', F.mcb \o p.got)
  <2>1. \A c \in Range(p.got) : fat'[c] = fat[c]
    BY <1>2, <1>3, <1>12, RunType DEF Apart
  <2>2. Chains(fat', p.got)
    BY <1>3, <2>1, ChainsElsewhere
  <2>3. ASSUME NEW i \in DOMAIN F.mcb, i # Len(F.mcb) PROVE fat'[F.mcb[i]] = fat[F.mcb[i]]
    <3>1. /\ F.mcb[i] \in Clusters /\ F.mcb # <<>>
          /\ Last(F.mcb) = F.mcb[Len(F.mcb)] /\ Len(F.mcb) \in DOMAIN F.mcb
      <4>1. F.mcb # <<>>
        BY EmptyFacts DEF Range
      <4> QED
        BY <1>2, <4>1, RunType, LastFacts
    <3>2. F.mcb[i] # Last(F.mcb)
      BY <1>3, <2>3, <3>1 DEF Distinct
    <3> QED
      BY <1>12, <3>1, <3>2
  <2>4. /\ F.mcb \in Runs /\ p.got \in Runs /\ p.got # <<>> /\ Chains(fat, F.mcb)
        /\ F.mcb # <<>> => fat'[Last(F.mcb)] = p.got[1]
    BY <1>2, <1>3, <1>12 DEF Entire
  <2> QED
    BY <2>2, <2>3, <2>4, ChainsConcat
<1>14. Entire(G, fat') /\ Distinct(G.mcb)
  <2>1. G.first = G.mcb[1]
    BY <1>6, <1>8, <1>9, <1>10
  <2>2. G.mcb # <<>> /\ G.size # 0 /\ Chains(fat', G.mcb) /\ Distinct(G.mcb)
    BY <1>6, <1>8, <1>11, <1>13
  <2>3. G.torn = "no" => G.entry = G.first
    BY <1>8, <1>19
  <2> QED
    BY <2>1, <2>2, <2>3 DEF Entire
<1>15. FileInv(G, NoOp, fat')
  BY <1>14, NoOpFacts
<1>16. HeldBy(G, NoOp) = Held(f) /\ Range(F.mcb) \subseteq Held(f)
  <2>1. HeldBy(G, NoOp) = Range(F.mcb) \cup Range(p.got)
    BY <1>6, <1>8, NoOpFacts
  <2> QED
    BY <1>1, <1>2, <1>3, <2>1, EmptyFacts DEF HeldBy
<1>17. Due(NoOp) <= Due(op[f])
  BY <1>2, NoOpFacts DEF p
<1>18. \A c \in Clusters \ Held(f) : fat'[c] = fat[c]
  BY <1>12, <1>16
<1> QED
  BY <1>1, <1>7, <1>12, <1>15, <1>16, <1>17, <1>18, NoOpFacts, FatStep

-----------------------------------------------------------------------------
(* FatDeallocateDiskSpace *)

LEMMA MovedFacts ==
    ASSUME NEW F \in Fcbs, NEW o \in DiskOps, Len(o.run) = 1, o.at \in DOMAIN F.mcb,
           Distinct(F.mcb), Apart(F.mcb, o.run)
    PROVE  /\ Moved(F, o) \in Fcbs /\ Distinct(Moved(F, o).mcb)
           /\ Range(Moved(F, o).mcb) \subseteq (Range(F.mcb) \cup Range(o.run)) \ {F.mcb[o.at]}
<1> DEFINE M == Moved(F, o)
           c == o.run[1]
<1>1. F.mcb \in Runs /\ o.run \in Runs
  BY DEF Fcbs, DiskOps
<1>2. DOMAIN F.mcb = 1 .. Len(F.mcb) /\ \A i \in DOMAIN F.mcb : F.mcb[i] \in Clusters
  BY <1>1, RunType
<1>3. c \in Clusters /\ c \in Range(o.run)
  <2>1. 1 \in DOMAIN o.run
    BY <1>1, RunType
  <2> QED
    BY <1>1, <2>1, RunType
<1> DEFINE s == [F.mcb EXCEPT ![o.at] = c]
<1>4. M = [F EXCEPT !.mcb = s]
  BY DEF Moved
<1>5. s \in Runs
  BY <1>1, <1>3, ExceptSeq DEF Runs
<1>6. M \in Fcbs /\ M.mcb = s
  <2> HIDE DEF M, s
  <2> QED
    BY <1>4, <1>5 DEF Fcbs
<1>7. /\ DOMAIN s = DOMAIN F.mcb /\ s[o.at] = c
      /\ \A i \in DOMAIN s : i # o.at => s[i] = F.mcb[i]
  OBVIOUS
<1>8. \A i \in DOMAIN F.mcb : F.mcb[i] # c
  BY <1>3 DEF Apart, Range
<1> HIDE DEF M, s, c
<1>9. Distinct(s)
  BY <1>7, <1>8 DEF Distinct
<1>10. \A i \in DOMAIN s : /\ s[i] \in Range(F.mcb) \cup Range(o.run)
                           /\ s[i] # F.mcb[o.at]
  BY <1>3, <1>7, <1>8 DEF Distinct, Range
<1>11. Range(s) \subseteq (Range(F.mcb) \cup Range(o.run)) \ {F.mcb[o.at]}
  BY <1>10 DEF Range
<1> QED
  BY <1>6, <1>9, <1>11 DEF M

\* What stays with a file whose clusters are freed is apart from them and a chain.
LEMMA SettledFacts ==
    ASSUME NEW f \in Chained, fcb[f] \in Fcbs, op[f] \in DiskOps,
           NEW table, FileInv(fcb[f], op[f], table), op[f].pc \in {"freeing", "freed"},
           NEW failed \in BOOLEAN, NEW S, S = Settled(fcb[f], op[f], failed)
    PROVE  /\ S \in Fcbs /\ Sound(S, table) /\ Distinct(S.mcb)
           /\ Range(S.mcb) \subseteq HeldBy(fcb[f], op[f]) \ Range(op[f].got)
<1> DEFINE F == fcb[f]
           p == op[f]
<1>1. F.mcb \in Runs /\ p.got \in Runs /\ p.run \in Runs /\ p.at \in Nat
  BY DEF Fcbs, DiskOps
<1>2. Freeing(F, p, table) /\ Distinct(F.mcb) /\ Apart(F.mcb, p.run)
  BY PcSays DEF FileInv
<1>3. S = CASE p.kind = "move" -> [F EXCEPT !.mcb[p.at] = p.run[1]]
            [] p.kind = "truncate" /\ F.size = 0 -> [F EXCEPT !.mcb = <<>>]
            [] p.kind = "truncate" /\ F.size # 0 /\ failed -> [F EXCEPT !.size = p.at]
            [] OTHER -> F
  BY DEF Settled
<1>9. HeldBy(F, p) = Range(F.mcb) \cup Range(p.got) \cup Range(p.run)
  BY HeldIs
<1>4. ASSUME Sound(F, table), Apart(F.mcb, p.got), S = F
      PROVE  /\ S \in Fcbs /\ Sound(S, table) /\ Distinct(S.mcb)
             /\ Range(S.mcb) \subseteq HeldBy(F, p) \ Range(p.got)
  BY <1>2, <1>4, <1>9 DEF Apart
<1>5. CASE p.kind = "undo" /\ Sound(F, table) /\ Apart(F.mcb, p.got)
  <2>1. S = F
    BY <1>3, <1>5
  <2> QED
    BY <1>4, <1>5, <2>1
<1>6. CASE p.kind = "truncate" /\ F.size = 0 /\ F.first = 0 /\ F.entry = 0
  <2>1. S = [F EXCEPT !.mcb = <<>>]
    BY <1>3, <1>6
  <2>2. /\ S \in Fcbs /\ S.mcb = <<>> /\ S.size = F.size /\ S.first = F.first
        /\ S.entry = F.entry
    BY <2>1, EmptyFacts DEF Fcbs
  <2> QED
    BY <1>6, <2>2, EmptyFacts DEF Sound, Entire
<1>7. CASE /\ p.kind = "truncate" /\ p.at # 0
           /\ F.size # 0 /\ Entire(F, table) /\ Apart(F.mcb, p.got)
  <2>1. S = F \/ S = [F EXCEPT !.size = p.at]
    BY <1>3, <1>7
  <2>2. CASE S = F
    BY <1>4, <1>7, <2>2 DEF Sound
  <2>3. CASE S = [F EXCEPT !.size = p.at]
    <3>1. /\ S \in Fcbs /\ S.mcb = F.mcb /\ S.size = p.at /\ S.first = F.first
          /\ S.entry = F.entry /\ S.torn = F.torn
      BY <1>1, <2>3 DEF Fcbs
    <3>2. /\ F.mcb # <<>> /\ Chains(table, F.mcb) /\ F.first = F.mcb[1]
          /\ F.torn = "no" => F.entry = F.first
      BY <1>7 DEF Entire
    <3>3. Sound(S, table)
      BY <1>7, <3>1, <3>2 DEF Entire, Sound
    <3> QED
      BY <1>2, <1>7, <1>9, <3>1, <3>3 DEF Apart
  <2> QED
    BY <2>1, <2>2, <2>3
<1>8. CASE /\ p.kind = "move" /\ Len(p.run) = 1 /\ p.at \in DOMAIN F.mcb
           /\ p.got = <<F.mcb[p.at]>> /\ Entire(Moved(F, p), table)
  <2>1. S = Moved(F, p)
    BY <1>3, <1>8 DEF Moved
  <2>2. F.mcb[p.at] \in Clusters
    BY <1>1, <1>8, RunType
  <2>3. Range(p.got) = {F.mcb[p.at]}
    BY <1>8, <2>2, OneFacts
  <2>4. /\ Moved(F, p) \in Fcbs /\ Distinct(Moved(F, p).mcb)
        /\ Range(Moved(F, p).mcb) \subseteq (Range(F.mcb) \cup Range(p.run)) \ {F.mcb[p.at]}
    BY <1>2, <1>8, MovedFacts
  <2>5. (Range(F.mcb) \cup Range(p.run)) \ {F.mcb[p.at]} \subseteq HeldBy(F, p) \ Range(p.got)
    BY <1>9, <2>3
  <2> HIDE DEF F, p
  <2> QED
    BY <1>8, <2>1, <2>4, <2>5 DEF F, p, Sound
<1> QED
  BY <1>2, <1>5, <1>6, <1>7, <1>8 DEF Freeing

LEMMA FreedFacts ==
    ASSUME fat \in [Clusters -> Nat], NEW S \in SUBSET Clusters, NEW new, new = Freed(S)
    PROVE  /\ new \in [Clusters -> Nat] /\ Empty(new, S)
           /\ \A c \in Clusters : c \notin S => new[c] = fat[c]
BY ClusterFacts DEF Freed, Empty

LEMMA FreeClustersStep ==
    ASSUME DiskInv, NEW f \in Chained, FreeClusters(f)
    PROVE  DiskInv'
<1> DEFINE F == fcb[f]
           p == op[f]
           o == [op[f] EXCEPT !.pc = "freed"]
<1>1. /\ p.pc = "freeing" /\ fat' = Freed(Range(p.got))
      /\ op' = [op EXCEPT ![f] = o] /\ fcb' = fcb
      /\ bitmap' = bitmap /\ freeClusters' = freeClusters
  BY DEF FreeClusters, Step
<1>2. /\ p \in DiskOps /\ F \in Fcbs /\ FileInv(F, p, fat)
      /\ F.mcb \in Runs /\ p.run \in Runs /\ p.got \in Runs /\ fat \in [Clusters -> Nat]
      /\ fcb = [fcb EXCEPT ![f] = F] /\ Held(f) = HeldBy(F, p)
      /\ Due(p) \in Nat
  BY DiskFacts
<1>3. o \in DiskOps
  BY <1>2, OpTypes, Zenon DEF DiskPcs
<1>4. o.pc = "freed" /\ o.kind = p.kind /\ o.got = p.got /\ o.run = p.run /\ o.at = p.at
  BY <1>2 DEF DiskOps
<1> HIDE DEF o, F, p
<1>5. /\ Freeing(F, p, fat) /\ Distinct(F.mcb) /\ Distinct(p.got) /\ Distinct(p.run)
      /\ Apart(F.mcb, p.run) /\ Apart(p.got, p.run)
  <2>1. Freeing(F, p, fat)
    BY <1>1, <1>2, PcSays
  <2> QED
    BY <1>2, <2>1 DEF FileInv
<1>6. /\ fat' \in [Clusters -> Nat] /\ Empty(fat', Range(p.got))
      /\ \A c \in Clusters : c \notin Range(p.got) => fat'[c] = fat[c]
  <2>1. Range(p.got) \in SUBSET Clusters
    BY <1>2, RunType
  <2> QED
    BY <1>1, <1>2, <2>1, FreedFacts
<1>7. ASSUME NEW G, G.mcb \in Runs, Entire(G, fat), Range(G.mcb) \cap Range(p.got) = {}
      PROVE  Entire(G, fat')
  <2>1. \A c \in Range(G.mcb) : fat'[c] = fat[c]
    BY <1>6, <1>7, RunType
  <2> QED
    BY <1>7, <2>1, EntireElsewhere
<1>8. /\ Entire(F, fat) /\ Apart(F.mcb, p.got) => Entire(F, fat')
      /\ Sound(F, fat) /\ Apart(F.mcb, p.got) => Sound(F, fat')
  BY <1>2, <1>7 DEF Apart, Sound
<1>9. ASSUME Len(p.run) = 1, p.at \in DOMAIN F.mcb, p.got = <<F.mcb[p.at]>>,
             Entire(Moved(F, p), fat)
      PROVE  Entire(Moved(F, o), fat')
  <2>1. F.mcb[p.at] \in Clusters
    BY <1>2, <1>9, RunType
  <2>2. Range(p.got) = {F.mcb[p.at]}
    BY <1>9, <2>1, OneFacts
  <2>3. /\ Moved(F, p) \in Fcbs
        /\ Range(Moved(F, p).mcb) \subseteq (Range(F.mcb) \cup Range(p.run)) \ {F.mcb[p.at]}
    BY <1>2, <1>5, <1>9, MovedFacts
  <2>4. Moved(F, p).mcb \in Runs /\ Range(Moved(F, p).mcb) \cap Range(p.got) = {}
    BY <2>2, <2>3 DEF Fcbs
  <2>5. Moved(F, o) = Moved(F, p)
    BY <1>4 DEF Moved
  <2> QED
    BY <1>7, <1>9, <2>4, <2>5
<1>10. Freeing(F, o, fat')
  <2>1. CASE p.kind = "undo" /\ p.run = <<>> /\ Sound(F, fat) /\ Apart(F.mcb, p.got)
    BY <1>4, <1>8, <2>1 DEF Freeing
  <2>2. CASE /\ p.kind = "truncate" /\ p.run = <<>>
             /\ F.size = 0 /\ F.first = 0 /\ F.entry = 0 /\ p.got = F.mcb
    BY <1>4, <2>2 DEF Freeing
  <2>3. CASE /\ p.kind = "truncate" /\ p.run = <<>> /\ p.at # 0
             /\ F.size # 0 /\ Entire(F, fat) /\ Apart(F.mcb, p.got)
    BY <1>4, <1>8, <2>3 DEF Freeing
  <2>4. CASE /\ p.kind = "move" /\ Len(p.run) = 1 /\ p.at \in DOMAIN F.mcb
             /\ p.got = <<F.mcb[p.at]>> /\ Entire(Moved(F, p), fat)
    BY <1>4, <1>9, <2>4 DEF Freeing
  <2> QED
    BY <1>5, <2>1, <2>2, <2>3, <2>4 DEF Freeing
<1>11. FileInv(F, o, fat')
  BY <1>4, <1>5, <1>6, <1>10 DEF FileInv
<1>12. HeldBy(F, o) = Held(f) /\ Range(p.got) \subseteq Held(f)
  BY <1>1, <1>2, <1>4 DEF HeldBy
<1>13. Due(o) <= Due(p)
  <2>1. Due(o) = 0
    BY <1>4, DueIs
  <2> QED
    BY <1>2, <2>1
<1>14. \A c \in Clusters \ Held(f) : fat'[c] = fat[c]
  BY <1>6, <1>12
<1>15. op' = [op EXCEPT ![f] = o] /\ fcb' = [fcb EXCEPT ![f] = F] /\ Due(o) <= Due(op[f])
  BY <1>1, <1>2, <1>13 DEF p
<1> QED
  BY <1>1, <1>2, <1>3, <1>6, <1>11, <1>12, <1>14, <1>15, FatStep

LEMMA HeadFacts ==
    \A s \in Runs : \A n \in Nat : n < Len(s) => Range(SubSeq(s, 1, n)) \subseteq Range(s)
<1> SUFFICES ASSUME NEW s \in Runs, NEW n \in Nat, n < Len(s)
             PROVE  Range(SubSeq(s, 1, n)) \subseteq Range(s)
  OBVIOUS
<1>1. DOMAIN s = 1 .. Len(s) /\ Len(s) \in Nat /\ \A i \in DOMAIN s : s[i] \in Clusters
  BY RunType
<1>2. /\ SubSeq(s, 1, n) \in Runs /\ Len(SubSeq(s, 1, n)) = n
      /\ \A i \in 1 .. n : SubSeq(s, 1, n)[i] = s[i]
  BY <1>1, SubSeqProperties DEF Runs
<1>3. DOMAIN SubSeq(s, 1, n) = 1 .. n
  BY <1>2, RunType
<1>4. \A i \in 1 .. n : i \in DOMAIN s
  BY <1>1
<1> QED
  BY <1>2, <1>3, <1>4 DEF Range

LEMMA FreeRaisesStep ==
    ASSUME DiskInv, NEW f \in Chained, FreeRaises(f)
    PROVE  DiskInv'
<1> DEFINE F == fcb[f]
           p == op[f]
           S == Settled(fcb[f], op[f], TRUE)
<1>1. /\ p.pc = "freeing" /\ fat' \in {fat} \cup {Freed(Range(r)) : r \in RunsBefore(p.got)}
      /\ op' = [op EXCEPT ![f] = NoOp] /\ fcb' = [fcb EXCEPT ![f] = S]
      /\ bitmap' = bitmap /\ freeClusters' = freeClusters
  BY DEF FreeRaises, Step
<1>2. /\ p \in DiskOps /\ F \in Fcbs /\ FileInv(F, p, fat)
      /\ p.got \in Runs /\ fat \in [Clusters -> Nat] /\ Held(f) = HeldBy(F, p)
      /\ Held(f) \subseteq Clusters /\ Due(p) \in Nat
  BY DiskFacts
<1>3. /\ S \in Fcbs /\ Sound(S, fat) /\ Distinct(S.mcb)
      /\ Range(S.mcb) \subseteq HeldBy(F, p) \ Range(p.got)
  BY <1>1, <1>2, SettledFacts
<1> HIDE DEF F, S, p
<1>4. /\ fat' \in [Clusters -> Nat]
      /\ \A c \in Clusters : c \notin Range(p.got) => fat'[c] = fat[c]
  <2>1. CASE fat' = fat
    BY <1>2, <2>1
  <2>2. CASE fat' \in {Freed(Range(r)) : r \in RunsBefore(p.got)}
    <3>1. PICK r \in RunsBefore(p.got) : fat' = Freed(Range(r))
      BY <2>2
    <3>2. PICK n \in 1 .. Len(p.got) - 1 : r = SubSeq(p.got, 1, n)
      BY <3>1 DEF RunsBefore
    <3>3. Len(p.got) \in Nat /\ n \in Nat /\ n < Len(p.got)
      <4>1. Len(p.got) \in Nat
        BY <1>2, RunType
      <4> QED
        BY <4>1
    <3>5. Range(r) \subseteq Range(p.got)
      <4>1. p.got \in Runs
        BY <1>2
      <4> QED
        BY <3>2, <3>3, <4>1, HeadFacts
    <3>6. Range(r) \in SUBSET Clusters
      BY <1>2, <3>5, RunType
    <3> QED
      BY <1>2, <3>1, <3>5, <3>6, FreedFacts
  <2> QED
    BY <1>1, <2>1, <2>2
<1>5. Sound(S, fat')
  <2>1. \A c \in Range(S.mcb) : fat'[c] = fat[c]
    BY <1>2, <1>3, <1>4
  <2> QED
    BY <1>3, <2>1, SoundElsewhere
<1>6. FileInv(S, NoOp, fat') /\ HeldBy(S, NoOp) = Range(S.mcb)
  BY <1>3, <1>5, NoOpFacts
<1>7. HeldBy(S, NoOp) \subseteq Held(f) /\ Range(p.got) \subseteq Held(f)
  <2>1. HeldBy(F, p) = Range(F.mcb) \cup Range(p.got) \cup Range(p.run)
    BY <1>1, HeldIs
  <2> QED
    BY <1>2, <1>3, <1>6, <2>1
<1>8. Due(NoOp) <= Due(op[f])
  BY <1>2, NoOpFacts DEF p
<1>9. \A c \in Clusters \ Held(f) : fat'[c] = fat[c]
  BY <1>4, <1>7
<1> QED
  BY <1>1, <1>3, <1>4, <1>6, <1>7, <1>8, <1>9, NoOpFacts, FatStep

LEMMA UnreserveClustersStep ==
    ASSUME DiskInv, NEW f \in Chained, UnreserveClusters(f)
    PROVE  DiskInv'
<1> DEFINE F == fcb[f]
           p == op[f]
           S == Settled(fcb[f], op[f], FALSE)
           o == [op[f] EXCEPT !.pc = "given"]
<1>1. /\ p.pc = "freed" /\ fat' = fat
      /\ op' = [op EXCEPT ![f] = o] /\ fcb' = fcb
      /\ bitmap' = bitmap \ Range(p.got) /\ freeClusters' = freeClusters + Len(p.got)
  BY DEF UnreserveClusters, Step
<1>2. /\ p \in DiskOps /\ F \in Fcbs /\ FileInv(F, p, fat)
      /\ p.got \in Runs /\ Held(f) = HeldBy(F, p) /\ Due(p) \in Nat
      /\ fcb = [fcb EXCEPT ![f] = F]
  BY DiskFacts
<1>3. /\ S \in Fcbs /\ Sound(S, fat) /\ Distinct(S.mcb)
      /\ Range(S.mcb) \subseteq HeldBy(F, p) \ Range(p.got)
  BY <1>1, <1>2, SettledFacts
<1>4. o \in DiskOps
  BY <1>2, OpTypes, Zenon DEF DiskPcs
<1>5. o.pc = "given" /\ o.kind = p.kind /\ o.got = p.got /\ o.run = p.run /\ o.at = p.at
  BY <1>2 DEF DiskOps
<1>6. S = Settled(F, p, FALSE)
  OBVIOUS
<1> HIDE DEF F, S, p, o
<1>7. Settled(F, o, FALSE) = S
  BY <1>5, <1>6 DEF Settled
<1>8. FileInv(F, o, fat')
  <2>1. Given(F, o, fat')
    BY <1>1, <1>3, <1>5, <1>7 DEF Given
  <2> QED
    BY <1>2, <1>5, <2>1 DEF FileInv
<1>9. Distinct(p.got) /\ Empty(fat, Range(p.got))
  BY <1>1, <1>2 DEF FileInv
<1>10. HeldBy(F, o) \subseteq Held(f) \ Range(p.got) /\ Range(p.got) \subseteq Held(f)
  <2>1. HeldBy(F, p) = Range(F.mcb) \cup Range(p.got) \cup Range(p.run)
    BY <1>1, HeldIs
  <2>2. HeldBy(F, o) = Range(S.mcb)
    BY <1>5, <1>7, HeldIs
  <2> QED
    BY <1>2, <1>3, <2>1, <2>2
<1>11. Due(o) <= Due(op[f])
  <2>1. Due(o) = 0
    BY <1>5, DueIs
  <2> QED
    BY <1>2, <2>1 DEF p
<1>12. op' = [op EXCEPT ![f] = o] /\ fcb' = [fcb EXCEPT ![f] = F]
  BY <1>1, <1>2
<1> QED
  BY <1>1, <1>2, <1>4, <1>8, <1>9, <1>10, <1>11, <1>12, GiveBackStep

LEMMA SettleMcbStep ==
    ASSUME DiskInv, NEW f \in Chained, SettleMcb(f)
    PROVE  DiskInv'
<1> DEFINE p == op[f]
           S == Settled(fcb[f], op[f], FALSE)
<1>1. /\ p.pc = "given" /\ fat' = fat
      /\ op' = [op EXCEPT ![f] = NoOp] /\ fcb' = [fcb EXCEPT ![f] = S]
      /\ bitmap' = bitmap /\ freeClusters' = freeClusters
  BY DEF SettleMcb, Step
<1>2. /\ p \in DiskOps /\ FileInv(fcb[f], p, fat) /\ Held(f) = HeldBy(fcb[f], p)
      /\ Due(p) \in Nat /\ freeClusters \in Nat
  BY DiskFacts
<1>3. S \in Fcbs /\ Sound(S, fat) /\ Distinct(S.mcb)
  <2>1. Given(fcb[f], p, fat)
    BY <1>1, <1>2, PcSays
  <2> QED
    BY <2>1 DEF Given
<1>4. Held(f) = Range(S.mcb)
  BY <1>1, <1>2, HeldIs
<1> HIDE DEF S
<1>5. FileInv(S, NoOp, fat') /\ HeldBy(S, NoOp) \subseteq Held(f)
  BY <1>1, <1>3, <1>4, NoOpFacts
<1>6. freeClusters' \in Nat /\ freeClusters' + Due(NoOp) <= freeClusters + Due(op[f])
  <2>1. Due(NoOp) = 0
    BY NoOpFacts
  <2> QED
    BY <1>1, <1>2, <2>1
<1> QED
  BY <1>1, <1>3, <1>5, <1>6, NoOpFacts, QuietStep

-----------------------------------------------------------------------------
(* FatTruncateFileAllocation *)

LEMMA EmptiedFacts ==
    ASSUME NEW F \in Fcbs, NEW G,
           G = [F EXCEPT !.size = 0, !.first = 0, !.entry = 0, !.torn = "no"]
    PROVE  G \in Fcbs /\ G.mcb = F.mcb /\ G.size = 0 /\ G.first = 0 /\ G.entry = 0
<1>1. 0 \in Nat
  OBVIOUS
<1>2. G \in Fcbs
  BY <1>1, Zenon DEF Fcbs
<1> QED
  BY <1>2, Zenon DEF Fcbs

\* What an idle file is.
LEMMA IdleFacts ==
    ASSUME DiskInv, NEW f \in Chained, op[f].pc = "idle"
    PROVE  /\ op[f] = NoOp /\ Sound(fcb[f], fat) /\ Distinct(fcb[f].mcb)
           /\ fcb[f].torn # "chain" => Entire(fcb[f], fat)
           /\ Held(f) = Range(fcb[f].mcb) /\ Due(op[f]) = 0
           /\ fcb[f].size \in Nat /\ fcb[f].first \in Nat
<1>1. /\ op[f] \in DiskOps /\ fcb[f] \in Fcbs /\ FileInv(fcb[f], op[f], fat)
      /\ Held(f) = HeldBy(fcb[f], op[f])
  BY DiskFacts
<1>2. /\ op[f] = NoOp /\ Sound(fcb[f], fat)
      /\ fcb[f].torn # "chain" => Entire(fcb[f], fat)
  BY <1>1, PcSays DEF Sound
<1>3. Distinct(fcb[f].mcb)
  BY <1>1 DEF FileInv
<1>4. Held(f) = Range(fcb[f].mcb) /\ Due(op[f]) = 0
  BY <1>1, <1>2, NoOpFacts
<1>5. fcb[f].size \in Nat /\ fcb[f].first \in Nat
  BY <1>1 DEF Fcbs
<1> QED
  BY <1>2, <1>3, <1>4, <1>5

LEMMA TruncateToZeroStep ==
    ASSUME DiskInv, NEW f \in Chained, TruncateToZero(f)
    PROVE  DiskInv'
<1> DEFINE F == fcb[f]
           G == [fcb[f] EXCEPT !.size = 0, !.first = 0, !.entry = 0, !.torn = "no"]
           o == [NoOp EXCEPT !.pc = "freeing", !.kind = "truncate", !.got = fcb[f].mcb,
                             !.at = fcb[f].size]
<1>1. /\ op[f].pc = "idle" /\ fat' = fat /\ op' = [op EXCEPT ![f] = o]
      /\ fcb' = [fcb EXCEPT ![f].size = 0, ![f].first = 0, ![f].entry = 0, ![f].torn = "no"]
      /\ bitmap' = bitmap /\ freeClusters' = freeClusters
  BY DEF TruncateToZero, MayBegin, Step
<1>2. /\ F \in Fcbs /\ F.mcb \in Runs /\ fat \in [Clusters -> Nat]
      /\ fcb \in [Chained -> Fcbs]
  BY DiskFacts DEF DiskInv, TypeOKDisk
<1>3. /\ Distinct(F.mcb) /\ Held(f) = Range(F.mcb) /\ Due(op[f]) = 0 /\ F.size \in Nat
  BY <1>1, IdleFacts
<1>4. fcb' = [fcb EXCEPT ![f] = G]
  BY <1>1, <1>2
<1>5. G \in Fcbs /\ G.mcb = F.mcb /\ G.size = 0 /\ G.first = 0 /\ G.entry = 0
  BY <1>2, EmptiedFacts, Zenon
<1>6. o \in DiskOps
  <2>1. NoOp \in DiskOps /\ "freeing" \in DiskPcs /\ "truncate" \in DiskKinds
    BY OpTypes DEF DiskPcs, DiskKinds
  <2> QED
    BY <1>2, <1>3, <2>1, OpTypes, Zenon
<1>7. o.pc = "freeing" /\ o.kind = "truncate" /\ o.got = F.mcb /\ o.run = <<>>
  BY NoOpFacts DEF DiskOps
<1> HIDE DEF F, G, o
<1>8. FileInv(G, o, fat')
  <2>1. Freeing(G, o, fat')
    BY <1>5, <1>7 DEF Freeing
  <2> QED
    BY <1>3, <1>5, <1>7, <2>1, EmptyFacts DEF FileInv
<1>9. HeldBy(G, o) = Held(f)
  BY <1>3, <1>5, <1>7, EmptyFacts DEF HeldBy
<1>10. Due(o) <= Due(op[f])
  <2>1. Due(o) = 0
    BY <1>7, DueIs
  <2> QED
    BY <1>3, <2>1
<1>11. fat' \in [Clusters -> Nat] /\ \A c \in Clusters \ Held(f) : fat'[c] = fat[c]
  BY <1>1, <1>2
<1> QED
  BY <1>1, <1>4, <1>5, <1>6, <1>8, <1>9, <1>10, <1>11, FatStep

\* The chain that is kept.
LEMMA KeptChain ==
    ASSUME NEW s \in Runs, Distinct(s), Chains(fat, s), fat \in [Clusters -> Nat],
           NEW n \in Nat \ {0}, n <= Len(s), NEW kept \in Runs, Len(kept) = n,
           \A i \in 1 .. n : kept[i] = s[i], NEW new, new = Linked(kept, EndOfChain)
    PROVE  /\ new \in [Clusters -> Nat] /\ Chains(new, kept)
           /\ \A c \in Clusters : c \notin Range(kept) => new[c] = fat[c]
<1>1. DOMAIN s = 1 .. Len(s) /\ Len(s) \in Nat /\ DOMAIN kept = 1 .. n
      /\ \A i \in DOMAIN s : s[i] \in Clusters
  BY RunType
<1>2. kept # <<>> /\ EndOfChain \in Nat
  BY EmptyFacts, ClusterFacts
<1>3. Last(kept) = kept[n]
  BY <1>2, LastFacts
<1>4. /\ new \in [Clusters -> Nat] /\ new[kept[n]] = EndOfChain
      /\ \A d \in Clusters : d # kept[n] => new[d] = fat[d]
      /\ \A c \in Clusters : c \notin Range(kept) => new[c] = fat[c]
  BY <1>2, <1>3, LinkedFacts
<1>5. ASSUME NEW i \in 1 .. n, i # n PROVE new[kept[i]] = kept[i + 1]
  <2>1. i \in DOMAIN s /\ n \in DOMAIN s /\ i + 1 \in 1 .. n /\ i # Len(s)
    <3>1. DOMAIN s = 1 .. Len(s) /\ Len(s) \in Nat
      BY <1>1
    <3>2. \A k \in Nat : n <= k => n \in 1 .. k /\ i \in 1 .. k /\ i + 1 \in 1 .. n /\ i # k
      BY <1>5
    <3>3. n <= Len(s)
      OBVIOUS
    <3> QED
      BY <3>1, <3>2, <3>3, Zenon
  <2>2. kept[i] = s[i] /\ kept[n] = s[n] /\ kept[i + 1] = s[i + 1]
    BY <2>1
  <2>3. kept[i] \in Clusters /\ kept[i] # kept[n]
    BY <1>1, <1>5, <2>1, <2>2 DEF Distinct
  <2>4. fat[s[i]] = s[i + 1]
    BY <2>1 DEF Chains
  <2> QED
    BY <1>4, <2>2, <2>3, <2>4
<1> QED
  BY <1>1, <1>4, <1>5 DEF Chains

LEMMA SplitParts ==
    \A s \in Runs : \A n \in Nat : \A kept, rest :
        /\ Distinct(s) /\ n < Len(s)
        /\ kept = SubSeq(s, 1, n) /\ rest = SubSeq(s, n + 1, Len(s))
        => /\ rest \in Runs /\ Distinct(rest) /\ Range(rest) \subseteq Range(s)
           /\ Apart(kept, rest)
BY SplitFacts

LEMMA TruncateStep ==
    ASSUME DiskInv, NEW f \in Chained, NEW n \in 1 .. MaxSize, Truncate(f, n)
    PROVE  DiskInv'
<1> DEFINE F == fcb[f]
           m == IF n < Len(F.mcb) THEN n ELSE Len(F.mcb)
           kept == SubSeq(F.mcb, 1, m)
           rest == SubSeq(F.mcb, n + 1, Len(F.mcb))
           G == [fcb[f] EXCEPT !.size = n, !.mcb = kept]
           cut == [NoOp EXCEPT !.pc = "freeing", !.kind = "truncate", !.got = rest,
                               !.at = F.size]
           o == IF kept = F.mcb THEN NoOp ELSE cut
<1>1. /\ op[f].pc = "idle" /\ F.torn # "chain"
      /\ n < F.size /\ fat' = Linked(kept, EndOfChain)
      /\ op' = [op EXCEPT ![f] = o] /\ fcb' = [fcb EXCEPT ![f].size = n, ![f].mcb = kept]
      /\ bitmap' = bitmap /\ freeClusters' = freeClusters
  BY DEF Truncate, MayBegin, Step
<1>2. /\ F \in Fcbs /\ F.mcb \in Runs /\ fat \in [Clusters -> Nat]
      /\ fcb \in [Chained -> Fcbs]
  BY DiskFacts DEF DiskInv, TypeOKDisk
<1>3. /\ Distinct(F.mcb) /\ Held(f) = Range(F.mcb) /\ Due(op[f]) = 0 /\ F.size \in Nat
      /\ Entire(F, fat)
  BY <1>1, IdleFacts
<1>4. n \in Nat \ {0} /\ F.size # 0
  <2>1. n \in Nat \ {0}
    BY MaxSizeAssumption
  <2> QED
    BY <1>1, <1>3, <2>1
<1>5. /\ F.mcb # <<>> /\ F.first = F.mcb[1] /\ Chains(fat, F.mcb)
      /\ F.torn = "no" => F.entry = F.first
  BY <1>3, <1>4 DEF Entire
<1>6. /\ Len(F.mcb) \in Nat \ {0} /\ DOMAIN F.mcb = 1 .. Len(F.mcb)
      /\ \A i \in 1 .. Len(F.mcb) : F.mcb[i] \in Clusters
  BY <1>2, <1>5, EmptySeq DEF Runs
<1>7. m \in Nat \ {0} /\ m <= Len(F.mcb)
  BY <1>4, <1>6
<1>8. /\ kept \in Runs /\ Len(kept) = m /\ \A i \in 1 .. m : kept[i] = F.mcb[i]
  <2> HIDE DEF m
  <2>1. \A i \in 1 .. m : F.mcb[i] \in Clusters
    BY <1>6, <1>7
  <2> QED
    BY <1>7, <2>1, SubSeqProperties DEF Runs
<1>9. fcb' = [fcb EXCEPT ![f] = G]
  BY <1>1, <1>2
<1>10. /\ G \in Fcbs /\ G.mcb = kept /\ G.size = n /\ G.first = F.first
       /\ G.entry = F.entry /\ G.torn = F.torn
  <2> HIDE DEF kept
  <2> QED
    BY <1>2, <1>4, <1>8 DEF Fcbs
<1>11. o \in {NoOp, cut} /\ (kept = F.mcb => o = NoOp) /\ (kept # F.mcb => o = cut)
  OBVIOUS
<1>12. n >= Len(F.mcb) => m = Len(F.mcb)
  BY <1>4, <1>6
<1>13. n < Len(F.mcb) => m = n
  OBVIOUS
<1>14. rest \in Runs => cut \in DiskOps
  <2>1. NoOp \in DiskOps /\ "freeing" \in DiskPcs /\ "truncate" \in DiskKinds
    BY OpTypes DEF DiskPcs, DiskKinds
  <2> HIDE DEF rest
  <2> QED
    BY <1>3, <2>1, OpTypes, Zenon
<1>15. /\ cut.pc = "freeing" /\ cut.kind = "truncate" /\ cut.got = rest
       /\ cut.run = <<>> /\ cut.at = F.size
  <2> HIDE DEF rest
  <2> QED
    BY NoOpFacts DEF DiskOps
<1>16. rest = SubSeq(F.mcb, n + 1, Len(F.mcb)) /\ kept = SubSeq(F.mcb, 1, m)
  OBVIOUS
<1>17. n >= Len(F.mcb) => kept = F.mcb
  <2>1. ASSUME n >= Len(F.mcb) PROVE kept = F.mcb
    <3>1. Len(kept) = Len(F.mcb) /\ \A i \in 1 .. Len(F.mcb) : kept[i] = F.mcb[i]
      BY <1>8, <1>12, <2>1
    <3> HIDE DEF kept, m
    <3> QED
      BY <1>2, <1>8, <3>1, SeqEqual DEF Runs
  <2> QED
    BY <2>1
<1> HIDE DEF F, m, kept, rest, G, cut, o
<1>24. ASSUME n < Len(F.mcb)
       PROVE  /\ rest \in Runs /\ Distinct(rest) /\ Range(rest) \subseteq Range(F.mcb)
              /\ Apart(kept, rest)
  <2>1. /\ F.mcb \in Runs /\ Distinct(F.mcb) /\ n \in Nat
        /\ kept = SubSeq(F.mcb, 1, n) /\ rest = SubSeq(F.mcb, n + 1, Len(F.mcb))
    BY <1>2, <1>3, <1>4, <1>13, <1>16, <1>24
  <2>2. Distinct(F.mcb) /\ n < Len(F.mcb)
    BY <1>24, <2>1
  <2>3. \A a, b : /\ a = SubSeq(F.mcb, 1, n) /\ b = SubSeq(F.mcb, n + 1, Len(F.mcb))
        => /\ b \in Runs /\ Distinct(b) /\ Range(b) \subseteq Range(F.mcb)
           /\ Apart(a, b)
    BY <2>1, <2>2, SplitParts
  <2> QED
    BY <2>1, <2>3
<1>18. /\ fat' \in [Clusters -> Nat] /\ Chains(fat', kept)
       /\ \A c \in Clusters : c \notin Range(kept) => fat'[c] = fat[c]
  <2>1. /\ F.mcb \in Runs /\ Distinct(F.mcb) /\ Chains(fat, F.mcb) /\ fat \in [Clusters -> Nat]
        /\ fat' = Linked(kept, EndOfChain)
    BY <1>1, <1>2, <1>3, <1>5
  <2> QED
    BY <1>7, <1>8, <2>1, KeptChain
<1>19. Range(kept) \subseteq Range(F.mcb) /\ Distinct(kept)
  <2>1. DOMAIN kept = 1 .. m /\ \A i \in DOMAIN kept : i \in DOMAIN F.mcb
    BY <1>6, <1>7, <1>8, RunType
  <2> QED
    BY <1>3, <1>8, <2>1 DEF Distinct, Range
<1>20. Entire(G, fat')
  <2>1. kept # <<>> /\ kept[1] = F.mcb[1]
    BY <1>7, <1>8, EmptyFacts
  <2> QED
    BY <1>4, <1>5, <1>10, <1>18, <2>1 DEF Entire
<1>21. /\ o \in DiskOps /\ FileInv(G, o, fat') /\ Due(o) = 0 /\ HeldBy(G, o) \subseteq Held(f)
  <2>1. CASE kept = F.mcb
    <3>1. o = NoOp
      BY <1>11, <2>1
    <3> QED
      BY <1>3, <1>10, <1>19, <1>20, <3>1, NoOpFacts
  <2>2. CASE kept # F.mcb
    <3>1. n < Len(F.mcb)
      BY <1>4, <1>6, <1>17, <2>2
    <3>2. o = cut /\ o \in DiskOps
      BY <1>11, <1>14, <1>24, <2>2, <3>1
    <3>3. /\ o.pc = "freeing" /\ o.kind = "truncate" /\ o.got = rest /\ o.run = <<>> /\ o.at # 0
      BY <1>4, <1>15, <3>2
    <3>4. Freeing(G, o, fat')
      BY <1>4, <1>10, <1>24, <1>20, <3>1, <3>3 DEF Freeing
    <3>5. FileInv(G, o, fat')
      BY <1>10, <1>24, <1>19, <3>1, <3>3, <3>4, EmptyFacts DEF FileInv
    <3>6. Due(o) = 0
      BY <3>3, DueIs
    <3>7. HeldBy(G, o) \subseteq Held(f)
      BY <1>3, <1>10, <1>24, <1>19, <3>1, <3>3, EmptyFacts DEF HeldBy
    <3> QED
      BY <3>2, <3>5, <3>6, <3>7
  <2> QED
    BY <2>1, <2>2
<1>22. Due(o) <= Due(op[f])
  BY <1>3, <1>21
<1>23. \A c \in Clusters \ Held(f) : fat'[c] = fat[c]
  BY <1>3, <1>18, <1>19
<1> QED
  BY <1>1, <1>9, <1>10, <1>18, <1>21, <1>22, <1>23, FatStep

-----------------------------------------------------------------------------
(* FatMoveFile *)

LEMMA OneRun ==
    ASSUME DiskInv, NEW f \in Chained, NEW c \in Clusters, c \notin bitmap,
           op[f].pc # "given"
    PROVE  /\ Apart(fcb[f].mcb, <<c>>) /\ Empty(fat, Range(<<c>>))
           /\ Cardinality(Clusters \ bitmap)
                  = Cardinality(Clusters \ (bitmap \cup {c})) + 1
           /\ Cardinality(Clusters \ (bitmap \cup {c})) \in Nat
<1>1. /\ <<c>> \in Runs /\ Len(<<c>>) = 1 /\ Range(<<c>>) = {c} /\ Distinct(<<c>>)
  BY OneFacts
<1>2. Range(fcb[f].mcb) \subseteq bitmap /\ fat[c] = Available /\ bitmap \in SUBSET Clusters
  BY DiskFacts DEF HeldBy
<1>3. Apart(fcb[f].mcb, <<c>>) /\ Empty(fat, Range(<<c>>))
  BY <1>1, <1>2 DEF Apart, Empty
<1>4. Range(<<c>>) \subseteq Clusters \ bitmap
  BY <1>1
<1>5. /\ Cardinality(Clusters \ bitmap) = Cardinality(Clusters \ (bitmap \cup Range(<<c>>))) + 1
      /\ Cardinality(Clusters \ (bitmap \cup Range(<<c>>))) \in Nat
  BY <1>1, <1>2, <1>4, RunTaken
<1> QED
  BY <1>1, <1>3, <1>5

LEMMA MoveStep ==
    ASSUME DiskInv, NEW f \in Chained, NEW i \in 1 .. MaxSize, NEW c \in Clusters, Move(f, i, c)
    PROVE  DiskInv'
<1> DEFINE F == fcb[f]
           r == <<c>>
           o == [NoOp EXCEPT !.pc = "reserved", !.kind = "move", !.promised = 1,
                             !.run = r, !.at = i]
<1>1. /\ op[f].pc = "idle" /\ F.torn # "chain"
      /\ fat' = fat /\ fcb' = fcb /\ i \in DOMAIN F.mcb
      /\ freeClusters > 0 /\ freeClusters' = freeClusters - 1
      /\ IF c \notin bitmap THEN bitmap' = bitmap \cup {c} /\ op' = [op EXCEPT ![f] = o]
         ELSE bitmap' = bitmap /\ op' = op
  BY DEF Move, MayBegin, Step
<1>2. /\ F \in Fcbs /\ F.mcb \in Runs /\ fat \in [Clusters -> Nat]
      /\ fcb = [fcb EXCEPT ![f] = F] /\ op = [op EXCEPT ![f] = op[f]]
      /\ bitmap \subseteq Clusters /\ Held(f) \subseteq bitmap
  BY DiskFacts
<1>3. /\ Distinct(F.mcb) /\ Held(f) = Range(F.mcb) /\ Due(op[f]) = 0 /\ Entire(F, fat)
      /\ op[f] = NoOp
  BY <1>1, IdleFacts
<1>4. freeClusters \in Nat /\ freeClusters - 1 \in Nat
  <2>1. freeClusters \in Nat
    BY DiskFacts
  <2>2. freeClusters > 0
    BY <1>1
  <2> QED
    BY <2>1, <2>2
<1>5. r \in Runs /\ Len(r) = 1 /\ Range(r) = {c} /\ Distinct(r) /\ Consecutive(r) /\ r # <<>>
  BY OneFacts
<1>6. 1 \in 0 .. MaxSize /\ i \in Nat
  BY MaxSizeAssumption
<1>7. o \in DiskOps
  <2>1. NoOp \in DiskOps /\ "reserved" \in DiskPcs /\ "move" \in DiskKinds
    BY OpTypes DEF DiskPcs, DiskKinds
  <2> HIDE DEF r
  <2> QED
    BY <1>5, <1>6, <2>1, OpTypes, Zenon
<1>8. /\ o.pc = "reserved" /\ o.kind = "move" /\ o.promised = 1 /\ o.got = <<>>
      /\ o.run = r /\ o.at = i
  <2> HIDE DEF r
  <2> QED
    BY NoOpFacts DEF DiskOps
<1>9. c \notin bitmap =>
          /\ Apart(F.mcb, r) /\ Empty(fat, Range(r))
          /\ Cardinality(Clusters \ bitmap)
                  = Cardinality(Clusters \ (bitmap \cup {c})) + 1
          /\ Cardinality(Clusters \ (bitmap \cup {c})) \in Nat
  BY <1>1, OneRun
<1> HIDE DEF F, r, o
<1>10. CASE c \notin bitmap
  <2>1. /\ Apart(F.mcb, r) /\ Empty(fat, Range(r))
        /\ bitmap' = bitmap \cup {c} /\ op' = [op EXCEPT ![f] = o]
    BY <1>1, <1>9, <1>10
  <2>2. FileInv(F, o, fat')
    <3>1. Moving(F, o, fat)
      BY <1>1, <1>3, <1>5, <1>8, EmptyFacts DEF Moving
    <3> QED
      BY <1>1, <1>3, <1>5, <1>8, <2>1, <3>1, EmptyFacts DEF FileInv
  <2>3. HeldBy(F, o) = Held(f) \cup {c}
    BY <1>3, <1>5, <1>8, EmptyFacts DEF HeldBy
  <2>4. freeClusters' + Due(o) + Cardinality(Clusters \ bitmap)
            <= freeClusters + Due(op[f]) + Cardinality(Clusters \ bitmap')
    <3>1. Due(o) = 0
      BY <1>8, DueIs
    <3>2. freeClusters' = freeClusters - 1 /\ bitmap' = bitmap \cup {c}
      BY <1>1, <2>1
    <3>3. /\ Cardinality(Clusters \ bitmap) = Cardinality(Clusters \ (bitmap \cup {c})) + 1
          /\ Cardinality(Clusters \ (bitmap \cup {c})) \in Nat
      BY <1>9, <1>10
    <3>4. freeClusters \in Nat /\ Due(op[f]) = 0
      BY <1>3, <1>4
    <3> QED
      BY <3>1, <3>2, <3>3, <3>4
  <2>5. /\ fat' \in [Clusters -> Nat] /\ bitmap' \subseteq Clusters /\ freeClusters' \in Nat
        /\ HeldBy(F, o) \subseteq Held(f) \cup (Clusters \ bitmap)
        /\ HeldBy(F, o) \subseteq bitmap'
        /\ \A d \in Clusters \ Held(f) : fat'[d] = fat[d]
        /\ bitmap \ Held(f) \subseteq bitmap'
        /\ \A d \in Clusters \ bitmap' : d \in Held(f) => fat'[d] = Available
    BY <1>1, <1>2, <1>4, <1>10, <2>1, <2>3
  <2> QED
    BY <1>1, <1>2, <1>7, <2>1, <2>2, <2>4, <2>5, DiskStep
<1>11. CASE c \in bitmap
  <2>1. bitmap' = bitmap /\ op' = [op EXCEPT ![f] = NoOp] /\ fcb' = [fcb EXCEPT ![f] = F]
    BY <1>1, <1>2, <1>3, <1>11
  <2>2. FileInv(F, NoOp, fat') /\ HeldBy(F, NoOp) \subseteq Held(f)
    BY <1>1, <1>3, NoOpFacts
  <2>3. freeClusters' \in Nat /\ freeClusters' + Due(NoOp) <= freeClusters + Due(op[f])
    <3>1. freeClusters' = freeClusters - 1 /\ Due(op[f]) = 0 /\ Due(NoOp) = 0
      BY <1>1, <1>3, NoOpFacts
    <3> QED
      BY <1>4, <3>1
  <2> QED
    BY <1>1, <1>2, <2>1, <2>2, <2>3, NoOpFacts, QuietStep
<1> QED
  BY <1>10, <1>11

LEMMA OneOnly ==
    ASSUME NEW s \in Runs, Len(s) = 1
    PROVE  /\ s # <<>> /\ Last(s) = s[1] /\ s[1] \in Clusters /\ s[1] \in Range(s)
           /\ Range(s) = {s[1]} /\ s = <<s[1]>>
<1>1. s # <<>> /\ DOMAIN s = {1}
  BY RunType, EmptyFacts
<1>2. Last(s) = s[1] /\ s[1] \in Clusters /\ s[1] \in Range(s)
  BY <1>1, RunType, LastFacts
<1>3. Range(s) = {s[1]}
  BY <1>1 DEF Range
<1>4. s = <<s[1]>>
  <2>1. <<s[1]>> \in Runs /\ Len(<<s[1]>>) = 1 /\ <<s[1]>>[1] = s[1]
    BY <1>2, OneFacts
  <2> DEFINE t == <<s[1]>>
  <2>2. t \in Seq(Clusters) /\ s \in Seq(Clusters) /\ Len(s) = Len(t)
        /\ \A i \in 1 .. Len(s) : s[i] = t[i]
    BY <2>1 DEF Runs
  <2> HIDE DEF t
  <2>3. s = t
    BY <2>2, SeqEqual
  <2> QED
    BY <2>3 DEF t
<1> QED
  BY <1>1, <1>2, <1>3, <1>4

LEMMA SecondSpliceStep ==
    ASSUME DiskInv, NEW f \in Chained, SecondSplice(f)
    PROVE  DiskInv'
<1> DEFINE F == fcb[f]
           p == op[f]
           next == IF p.at = Len(F.mcb) THEN EndOfChain ELSE F.mcb[p.at + 1]
           o == [op[f] EXCEPT !.pc = "spliced"]
<1>1. /\ p.pc = "got" /\ p.kind = "move" /\ fat' = Linked(p.got, next)
      /\ op' = [op EXCEPT ![f] = o] /\ fcb' = fcb
      /\ bitmap' = bitmap /\ freeClusters' = freeClusters
  BY DEF SecondSplice, Step
<1>2. /\ p \in DiskOps /\ F \in Fcbs /\ FileInv(F, p, fat)
      /\ F.mcb \in Runs /\ p.got \in Runs /\ fat \in [Clusters -> Nat]
      /\ fcb = [fcb EXCEPT ![f] = F] /\ Held(f) = HeldBy(F, p)
      /\ Due(p) \in Nat
  BY DiskFacts
<1>3. o \in DiskOps
  BY <1>2, OpTypes, Zenon DEF DiskPcs
<1>4. o.pc = "spliced" /\ o.kind = p.kind /\ o.got = p.got /\ o.run = p.run /\ o.at = p.at
  BY <1>2 DEF DiskOps
<1>5. /\ Entire(F, fat) /\ Apart(F.mcb, p.got) /\ p.at \in DOMAIN F.mcb
      /\ p.run = <<>> /\ Len(p.got) = 1 /\ Distinct(F.mcb) /\ Distinct(p.got)
  <2>1. Moving(F, p, fat)
    BY <1>1, <1>2, PcSays
  <2> QED
    BY <1>1, <1>2, <2>1 DEF Moving, FileInv
<1>6. next \in Nat
  <2>1. /\ DOMAIN F.mcb = 1 .. Len(F.mcb) /\ Len(F.mcb) \in Nat
        /\ \A j \in DOMAIN F.mcb : F.mcb[j] \in Clusters
    BY <1>2, RunType
  <2>2. ASSUME p.at # Len(F.mcb) PROVE F.mcb[p.at + 1] \in Nat
    <3>1. p.at + 1 \in DOMAIN F.mcb
      BY <1>5, <2>1, <2>2
    <3> QED
      BY <2>1, <3>1, ClusterFacts
  <2> QED
    BY <2>2, ClusterFacts
<1>7. next = IF o.at = Len(F.mcb) THEN EndOfChain ELSE F.mcb[o.at + 1]
  BY <1>4
<1> HIDE DEF F, p, next, o
<1>8. /\ p.got # <<>> /\ Last(p.got) = p.got[1] /\ p.got[1] \in Clusters
      /\ Range(p.got) = {p.got[1]}
  BY <1>2, <1>5, OneOnly
<1>9. /\ fat' \in [Clusters -> Nat] /\ fat'[p.got[1]] = next
      /\ \A d \in Clusters : d \notin Range(p.got) => fat'[d] = fat[d]
  <2>1. p.got \in Runs /\ fat \in [Clusters -> Nat] /\ fat' = Linked(p.got, next)
    BY <1>1, <1>2
  <2> QED
    BY <1>6, <1>8, <2>1, LinkedFacts
<1>10. Entire(F, fat')
  <2>1. \A c \in Range(F.mcb) : fat'[c] = fat[c]
    BY <1>2, <1>5, <1>9, RunType DEF Apart
  <2> QED
    BY <1>5, <2>1, EntireElsewhere
<1>11. FileInv(F, o, fat')
  <2>1. Moving(F, o, fat')
    BY <1>1, <1>4, <1>5, <1>7, <1>9, <1>10 DEF Moving
  <2> QED
    BY <1>4, <1>5, <2>1, EmptyFacts DEF FileInv
<1>12. HeldBy(F, o) = Held(f) /\ Range(p.got) \subseteq Held(f)
  BY <1>1, <1>2, <1>4 DEF HeldBy
<1>13. Due(o) <= Due(p)
  <2>1. Due(o) = 0
    BY <1>4, DueIs
  <2> QED
    BY <1>2, <2>1
<1>14. \A c \in Clusters \ Held(f) : fat'[c] = fat[c]
  BY <1>9, <1>12
<1>15. op' = [op EXCEPT ![f] = o] /\ fcb' = [fcb EXCEPT ![f] = F] /\ Due(o) <= Due(op[f])
  BY <1>1, <1>2, <1>13 DEF p
<1> QED
  BY <1>1, <1>2, <1>3, <1>9, <1>11, <1>12, <1>14, <1>15, FatStep

\* In table and t, c has taken the place of the i-th cluster of s: the one before it leads
\* to c, and c to the one behind.
Replaced(s, i, c, table, t) ==
    /\ t \in Runs /\ Len(t) = Len(s) /\ t[i] = c /\ \A j \in DOMAIN s : j # i => t[j] = s[j]
    /\ i # 1 => table[s[i - 1]] = c
    /\ \A d \in Clusters : (i # 1 => d # s[i - 1]) => table[d] = fat[d]
    /\ fat[c] = IF i = Len(s) THEN EndOfChain ELSE s[i + 1]

LEMMA ReplacedChain ==
    ASSUME NEW s \in Runs, Distinct(s), Chains(fat, s), NEW i \in DOMAIN s,
           NEW c \in Clusters, c \notin Range(s), NEW new, NEW t, Replaced(s, i, c, new, t)
    PROVE  /\ Chains(new, t) /\ t[1] = IF i = 1 THEN c ELSE s[1]
           /\ \A d \in Clusters : d \notin Range(s) => new[d] = fat[d]
<1>0. t \in Runs /\ Len(t) = Len(s) /\ fat[c] = IF i = Len(s) THEN EndOfChain ELSE s[i + 1]
  BY DEF Replaced
<1>1. /\ DOMAIN s = 1 .. Len(s) /\ Len(s) \in Nat
      /\ \A j \in DOMAIN s : s[j] \in Clusters /\ s[j] \in Range(s)
  BY RunType
<1>2. /\ DOMAIN t = DOMAIN s /\ t[i] = c /\ \A j \in DOMAIN s : j # i => t[j] = s[j]
  BY <1>0, RunType DEF Replaced
<1>4. i # 1 => i - 1 \in DOMAIN s /\ i - 1 # i /\ (i - 1) + 1 = i /\ i - 1 # Len(s)
  BY <1>1
<1>5. /\ i # 1 => new[s[i - 1]] = c
      /\ \A d \in Clusters : (i # 1 => d # s[i - 1]) => new[d] = fat[d]
  BY DEF Replaced
<1>7. \A d \in Clusters : d \notin Range(s) => new[d] = fat[d]
  BY <1>1, <1>4, <1>5
<1>8. ASSUME NEW j \in DOMAIN s PROVE new[t[j]] = IF j = Len(s) THEN EndOfChain ELSE t[j + 1]
  <2>0. j # Len(s) => j + 1 \in DOMAIN s
    BY <1>1
  <2>1. CASE j = i
    <3>1. new[t[j]] = fat[c]
      BY <1>2, <1>7, <2>1
    <3>2. i # Len(s) => t[i + 1] = s[i + 1]
      <4>1. i + 1 # i
        BY <1>1
      <4> QED
        BY <1>2, <2>0, <2>1, <4>1
    <3> QED
      BY <1>0, <2>1, <3>1, <3>2
  <2>2. CASE j # i /\ i # 1 /\ j = i - 1
    <3>1. t[j] = s[j] /\ new[s[j]] = c /\ j # Len(s) /\ j + 1 = i
      BY <1>2, <1>4, <1>5, <2>2
    <3> QED
      BY <1>2, <3>1
  <2>3. CASE j # i /\ ~ (i # 1 /\ j = i - 1)
    <3>1. t[j] = s[j] /\ s[j] \in Clusters
      BY <1>1, <1>2, <2>3
    <3>2. i # 1 => s[j] # s[i - 1]
      BY <1>4, <2>3 DEF Distinct
    <3>3. new[s[j]] = fat[s[j]]
      BY <1>5, <3>1, <3>2
    <3>4. fat[s[j]] = IF j = Len(s) THEN EndOfChain ELSE s[j + 1]
      BY DEF Chains
    <3>5. j # Len(s) => t[j + 1] = s[j + 1]
      <4>1. j # Len(s) => j + 1 # i
        BY <1>1, <2>3
      <4> QED
        BY <1>2, <2>0, <4>1
    <3> QED
      BY <3>1, <3>3, <3>4, <3>5
  <2> QED
    BY <2>1, <2>2, <2>3
<1>9. Chains(new, t)
  BY <1>0, <1>2, <1>8 DEF Chains
<1>10. t[1] = IF i = 1 THEN c ELSE s[1]
  <2>1. 1 \in DOMAIN s
    BY <1>1
  <2> QED
    BY <1>2, <2>1
<1> QED
  BY <1>7, <1>9, <1>10

LEMMA FirstSpliceStep ==
    ASSUME DiskInv, NEW f \in Chained, FirstSplice(f)
    PROVE  DiskInv'
<1> DEFINE F == fcb[f]
           p == op[f]
           i == p.at
           c == p.got[1]
           new == <<c>>
           old == <<F.mcb[i]>>
           G == IF i = 1 THEN [F EXCEPT !.first = c, !.entry = c, !.torn = "no"] ELSE F
           o == [op[f] EXCEPT !.pc = "freeing", !.run = new, !.got = old]
<1>1. /\ p.pc = "spliced"
      /\ fat' = IF i = 1 THEN fat ELSE [fat EXCEPT ![F.mcb[i - 1]] = c]
      /\ op' = [op EXCEPT ![f] = o]
      /\ fcb' = IF i = 1 THEN [fcb EXCEPT ![f].first = c, ![f].entry = c, ![f].torn = "no"]
                ELSE fcb
      /\ bitmap' = bitmap /\ freeClusters' = freeClusters
  BY DEF FirstSplice, Step
<1>2. /\ p \in DiskOps /\ F \in Fcbs /\ FileInv(F, p, fat)
      /\ F.mcb \in Runs /\ p.got \in Runs /\ fat \in [Clusters -> Nat]
      /\ fcb = [fcb EXCEPT ![f] = F] /\ Held(f) = HeldBy(F, p)
      /\ Due(p) \in Nat /\ p.at \in Nat
  BY DiskFacts
<1>3. /\ Entire(F, fat) /\ Apart(F.mcb, p.got) /\ i \in DOMAIN F.mcb
      /\ p.run = <<>> /\ Len(p.got) = 1 /\ Distinct(F.mcb) /\ p.kind = "move"
      /\ fat[c] = IF i = Len(F.mcb) THEN EndOfChain ELSE F.mcb[i + 1]
  <2>1. Moving(F, p, fat)
    BY <1>1, <1>2, PcSays
  <2> QED
    BY <1>1, <1>2, <2>1 DEF Moving, FileInv
<1>4. c \in Clusters /\ Range(p.got) = {c} /\ c \notin Range(F.mcb) /\ c \in Nat
  <2>1. c \in Clusters /\ Range(p.got) = {c}
    BY <1>2, <1>3, OneOnly
  <2> QED
    BY <1>3, <2>1, ClusterFacts DEF Apart
<1>5. F.mcb[i] \in Clusters /\ F.mcb[i] \in Range(F.mcb)
  BY <1>2, <1>3, RunType
<1>6. /\ new \in Runs /\ Len(new) = 1 /\ new[1] = c /\ Range(new) = {c} /\ Distinct(new)
  BY <1>4, OneFacts
<1>7. old \in Runs /\ Range(old) = {F.mcb[i]} /\ Distinct(old)
  BY <1>5, OneFacts
<1>8. o \in DiskOps
  <2> HIDE DEF new, old
  <2> QED
    BY <1>2, <1>6, <1>7, OpTypes, Zenon DEF DiskPcs
<1>9. /\ o.pc = "freeing" /\ o.kind = "move" /\ o.got = old /\ o.run = new /\ o.at = i
  <2> HIDE DEF new, old
  <2> QED
    BY <1>2, <1>3 DEF DiskOps
<1>10. fcb' = [fcb EXCEPT ![f] = G]
  <2>1. fcb \in [Chained -> Fcbs]
    BY DEF DiskInv, TypeOKDisk
  <2> HIDE DEF c
  <2>2. CASE i = 1
    BY <1>1, <2>1, <2>2
  <2>3. CASE i # 1
    BY <1>1, <1>2, <2>3
  <2> QED
    BY <2>2, <2>3
<1>11. /\ G \in Fcbs /\ G.mcb = F.mcb /\ G.size = F.size
       /\ G.first = IF i = 1 THEN c ELSE F.first
       /\ G.torn = "no" => G.entry = G.first
  <2>1. F.torn = "no" => F.entry = F.first
    BY <1>3 DEF Entire
  <2> HIDE DEF c, i
  <2> QED
    BY <1>2, <1>4, <2>1 DEF Fcbs
<1>16. old = <<F.mcb[i]>>
  OBVIOUS
<1> DEFINE t == [F.mcb EXCEPT ![i] = c]
<1> HIDE DEF F, p, i, c, new, old, G, o
<1>12. /\ fat' \in [Clusters -> Nat] /\ Chains(fat', t) /\ t[1] = IF i = 1 THEN c ELSE F.mcb[1]
       /\ \A d \in Clusters : d \notin Range(F.mcb) => fat'[d] = fat[d]
  <2>1. /\ F.mcb \in Runs /\ Distinct(F.mcb) /\ Chains(fat, F.mcb) /\ fat \in [Clusters -> Nat]
        /\ i \in DOMAIN F.mcb /\ c \in Clusters /\ c \notin Range(F.mcb)
        /\ fat[c] = IF i = Len(F.mcb) THEN EndOfChain ELSE F.mcb[i + 1]
        /\ fat' = IF i = 1 THEN fat ELSE [fat EXCEPT ![F.mcb[i - 1]] = c]
    BY <1>1, <1>2, <1>3, <1>4 DEF Entire
  <2>2. /\ DOMAIN F.mcb = 1 .. Len(F.mcb) /\ Len(F.mcb) \in Nat
        /\ \A j \in DOMAIN F.mcb : F.mcb[j] \in Clusters
    BY <2>1, RunType
  <2>3. i # 1 => F.mcb[i - 1] \in Clusters
    <3>1. i # 1 => i - 1 \in DOMAIN F.mcb
      BY <2>1, <2>2
    <3> QED
      BY <2>2, <3>1
  <2>4. fat' \in [Clusters -> Nat]
    BY <1>4, <2>1, <2>3
  <2>5. i # 1 => fat'[F.mcb[i - 1]] = c
    BY <2>1, <2>3
  <2>6. \A d \in Clusters : (i # 1 => d # F.mcb[i - 1]) => fat'[d] = fat[d]
    BY <2>1, <2>3
  <2>7. /\ t \in Runs /\ Len(t) = Len(F.mcb) /\ t[i] = c
        /\ \A j \in DOMAIN F.mcb : j # i => t[j] = F.mcb[j]
    BY <2>1, <2>2, ExceptSeq DEF Runs
  <2> HIDE DEF t
  <2> QED
    <3>1. /\ F.mcb \in Runs /\ Distinct(F.mcb) /\ Chains(fat, F.mcb) /\ fat \in [Clusters -> Nat]
          /\ i \in DOMAIN F.mcb /\ c \in Clusters /\ c \notin Range(F.mcb)
          /\ fat[c] = IF i = Len(F.mcb) THEN EndOfChain ELSE F.mcb[i + 1]
      BY <2>1
    <3>2. /\ Chains(fat', t) /\ t[1] = IF i = 1 THEN c ELSE F.mcb[1]
          /\ \A d \in Clusters : d \notin Range(F.mcb) => fat'[d] = fat[d]
      <4>1. Replaced(F.mcb, i, c, fat', t)
        BY <2>5, <2>6, <2>7, <3>1 DEF Replaced
      <4> QED
        BY <3>1, <4>1, ReplacedChain
    <3> QED
      BY <2>4, <3>2
<1>13. Moved(G, o) = [G EXCEPT !.mcb = t]
  BY <1>6, <1>9, <1>11 DEF Moved
<1>14. /\ Moved(G, o).mcb = t /\ Moved(G, o).size = F.size /\ Moved(G, o).first = G.first
       /\ Moved(G, o).entry = G.entry /\ Moved(G, o).torn = G.torn
  <2> HIDE DEF t
  <2> QED
    BY <1>11, <1>13 DEF Fcbs
<1>15. F.mcb # <<>> /\ F.first = F.mcb[1] /\ F.size # 0
  <2>1. F.mcb # <<>>
    BY <1>3, EmptyFacts, EmptySeq
  <2> QED
    BY <1>3, <2>1 DEF Entire
<1>17. t # <<>>
  <2>1. DOMAIN t = DOMAIN F.mcb
    OBVIOUS
  <2>2. DOMAIN <<>> = {}
    BY EmptySeq
  <2> HIDE DEF t
  <2> QED
    BY <1>3, <2>1, <2>2
<1>18. Entire(Moved(G, o), fat')
  <2>1. Moved(G, o).first = t[1]
    BY <1>11, <1>12, <1>14, <1>15
  <2>2. Moved(G, o).torn = "no" => Moved(G, o).entry = Moved(G, o).first
    BY <1>11, <1>14
  <2> HIDE DEF t
  <2> QED
    BY <1>12, <1>14, <1>15, <1>17, <2>1, <2>2 DEF Entire
<1> HIDE DEF t
<1>19. FileInv(G, o, fat')
  <2>1. Freeing(G, o, fat')
    BY <1>3, <1>6, <1>9, <1>11, <1>16, <1>18 DEF Freeing
  <2>2. Apart(G.mcb, new) /\ Apart(old, new)
    <3>1. c # F.mcb[i]
      BY <1>4, <1>5
    <3> QED
      BY <1>4, <1>6, <1>7, <1>11, <3>1 DEF Apart
  <2> QED
    BY <1>3, <1>6, <1>7, <1>9, <1>11, <2>1, <2>2 DEF FileInv
<1>20. HeldBy(G, o) = Held(f) /\ Range(F.mcb) \subseteq Held(f)
  <2>1. HeldBy(G, o) = Range(F.mcb) \cup {F.mcb[i]} \cup {c}
    BY <1>6, <1>7, <1>9, <1>11 DEF HeldBy
  <2>2. Held(f) = Range(F.mcb) \cup {c}
    BY <1>1, <1>2, <1>3, <1>4, EmptyFacts DEF HeldBy
  <2> QED
    BY <1>5, <2>1, <2>2
<1>21. Due(o) <= Due(p)
  <2>1. Due(o) = 0
    BY <1>9, DueIs
  <2> QED
    BY <1>2, <2>1
<1>22. \A d \in Clusters \ Held(f) : fat'[d] = fat[d]
  BY <1>12, <1>20
<1>23. op' = [op EXCEPT ![f] = o] /\ Due(o) <= Due(op[f])
  BY <1>1, <1>21 DEF p
<1> QED
  BY <1>1, <1>8, <1>10, <1>11, <1>12, <1>19, <1>20, <1>22, <1>23, FatStep

LEMMA FirstSpliceRaisesStep ==
    ASSUME DiskInv, NEW f \in Chained, FirstSpliceRaises(f)
    PROVE  DiskInv'
<1> DEFINE F == fcb[f]
           p == op[f]
           i == p.at
           c == p.got[1]
           G == IF i = 1 THEN [F EXCEPT !.entry = c, !.torn = "entry"]
                ELSE [F EXCEPT !.torn = "chain"]
           o == [op[f] EXCEPT !.pc = "freeing", !.kind = "undo"]
<1>1. /\ p.pc = "spliced"
      /\ fat' = IF i = 1 THEN fat ELSE [fat EXCEPT ![F.mcb[i - 1]] = c]
      /\ op' = [op EXCEPT ![f] = o]
      /\ fcb' = IF i = 1 THEN [fcb EXCEPT ![f].entry = c, ![f].torn = "entry"]
                ELSE [fcb EXCEPT ![f].torn = "chain"]
      /\ bitmap' = bitmap /\ freeClusters' = freeClusters
  BY DEF FirstSpliceRaises, Step
<1>2. /\ p \in DiskOps /\ F \in Fcbs /\ FileInv(F, p, fat)
      /\ F.mcb \in Runs /\ p.got \in Runs /\ fat \in [Clusters -> Nat]
      /\ Held(f) = HeldBy(F, p) /\ Due(p) \in Nat
  BY DiskFacts
<1>3. /\ Entire(F, fat) /\ Apart(F.mcb, p.got) /\ i \in DOMAIN F.mcb
      /\ p.run = <<>> /\ Len(p.got) = 1 /\ Distinct(F.mcb) /\ Distinct(p.got)
  <2>1. Moving(F, p, fat)
    BY <1>1, <1>2, PcSays
  <2> QED
    BY <1>1, <1>2, <2>1 DEF Moving, FileInv
<1>4. c \in Nat
  <2>1. c \in Clusters
    BY <1>2, <1>3, OneOnly
  <2> QED
    BY <2>1, ClusterFacts
<1>5. i # 1 => F.mcb[i - 1] \in Clusters /\ F.mcb[i - 1] \in Range(F.mcb)
  <2>1. i # 1 => i - 1 \in DOMAIN F.mcb
    BY <1>2, <1>3, RunType
  <2> QED
    BY <1>2, <2>1, RunType
<1>6. o \in DiskOps
  BY <1>2, OpTypes, Zenon DEF DiskPcs, DiskKinds
<1>7. o.pc = "freeing" /\ o.kind = "undo" /\ o.got = p.got /\ o.run = p.run
  BY <1>2 DEF DiskOps
<1>8. fcb' = [fcb EXCEPT ![f] = G]
  <2>1. fcb \in [Chained -> Fcbs]
    BY DEF DiskInv, TypeOKDisk
  <2> HIDE DEF c
  <2>2. CASE i = 1
    BY <1>1, <2>1, <2>2
  <2>3. CASE i # 1
    BY <1>1, <2>1, <2>3
  <2> QED
    BY <2>2, <2>3
<1>9. /\ G \in Fcbs /\ G.mcb = F.mcb /\ G.size = F.size /\ G.first = F.first
      /\ G.torn = IF i = 1 THEN "entry" ELSE "chain"
  <2> HIDE DEF c, i
  <2> QED
    BY <1>2, <1>4 DEF Fcbs
<1> HIDE DEF F, p, i, c, G, o
<1>10. /\ fat' \in [Clusters -> Nat]
       /\ \A d \in Clusters : d \notin Range(F.mcb) => fat'[d] = fat[d]
  BY <1>1, <1>2, <1>4, <1>5
<1>11. Sound(G, fat')
  <2>1. CASE i = 1
    BY <1>1, <1>3, <1>9, <2>1 DEF Sound, Entire
  <2>2. CASE i # 1
    <3>1. F.mcb # <<>>
      BY <1>3, EmptyFacts, EmptySeq
    <3> QED
      BY <1>3, <1>9, <2>2, <3>1 DEF Sound, Entire
  <2> QED
    BY <2>1, <2>2
<1>12. FileInv(G, o, fat')
  <2>1. Freeing(G, o, fat')
    BY <1>3, <1>7, <1>9, <1>11 DEF Freeing
  <2> QED
    BY <1>3, <1>7, <1>9, <2>1, EmptyFacts DEF FileInv
<1>13. HeldBy(G, o) = Held(f) /\ Range(F.mcb) \subseteq Held(f)
  <2>1. HeldBy(F, p) = Range(F.mcb) \cup Range(p.got) \cup Range(p.run)
    BY <1>1, HeldIs
  <2>2. HeldBy(G, o) = Range(G.mcb) \cup Range(o.got) \cup Range(o.run)
    BY <1>7, HeldIs
  <2> QED
    BY <1>2, <1>7, <1>9, <2>1, <2>2
<1>14. Due(o) <= Due(op[f])
  <2>1. Due(o) = 0
    BY <1>7, DueIs
  <2> QED
    BY <1>2, <2>1 DEF p
<1>15. \A d \in Clusters \ Held(f) : fat'[d] = fat[d]
  BY <1>10, <1>13
<1> QED
  BY <1>1, <1>6, <1>8, <1>9, <1>10, <1>12, <1>13, <1>14, <1>15, FatStep

-----------------------------------------------------------------------------
(* The clusters of the volume *)

LEMMA InitDiskInv == InitDisk => DiskInv
<1> SUFFICES ASSUME InitDisk PROVE DiskInv
  OBVIOUS
<1>1. /\ fat = [c \in Clusters |-> Available] /\ bitmap = {} /\ freeClusters = NumberOfClusters
      /\ fcb = [f \in Chained |-> [mcb |-> <<>>, size |-> 0, first |-> 0, entry |-> 0,
                                   torn |-> "no"]]
      /\ op = [f \in Chained |-> NoOp]
  BY DEF InitDisk
<1>2. TypeOKDisk
  BY <1>1, ClusterFacts, EmptyFacts, NoOpFacts DEF TypeOKDisk, Fcbs
<1>3. ASSUME NEW f \in Chained
      PROVE  FileInv(fcb[f], op[f], fat) /\ Held(f) = {} /\ Outstanding(f) = 0
  <2>1. /\ fcb[f].mcb = <<>> /\ fcb[f].size = 0 /\ fcb[f].first = 0 /\ fcb[f].entry = 0
        /\ op[f] = NoOp
    BY <1>1
  <2>2. Entire(fcb[f], fat) /\ Distinct(fcb[f].mcb)
    BY <2>1, EmptyFacts DEF Entire
  <2>3. Held(f) = {}
    BY <2>1, NoOpFacts, EmptyFacts DEF Held
  <2>4. Outstanding(f) = 0
    BY <2>1, NoOpFacts DEF Outstanding
  <2> QED
    BY <2>1, <2>2, <2>3, <2>4, NoOpFacts
<1>4. OwnedOnce
  BY <1>1, <1>3 DEF OwnedOnce
<1>5. PromisesKept
  <2>1. Promises = {}
    <3>1. \A f \in Chained : {f} \X (1 .. Outstanding(f)) = {}
      BY <1>3
    <3> QED
      BY <3>1 DEF Promises
  <2>2. Cardinality(Promises) = 0
    BY <2>1, FS_EmptySet
  <2>3. Cardinality(Clusters \ bitmap) = NumberOfClusters /\ NumberOfClusters \in Nat
    <3>1. NumberOfClusters \in Nat /\ NumberOfClusters # 0
      BY NumberOfClustersAssumption
    <3>2. Cardinality(2 .. NumberOfClusters + 1)
              = IF 2 > NumberOfClusters + 1 THEN 0 ELSE (NumberOfClusters + 1) - 2 + 1
      <4>1. 2 \in Int /\ NumberOfClusters + 1 \in Int
        BY <3>1
      <4> QED
        BY <4>1, FS_Interval
    <3>3. Cardinality(2 .. NumberOfClusters + 1) = NumberOfClusters
      BY <3>1, <3>2
    <3>4. Clusters \ bitmap = 2 .. NumberOfClusters + 1
      BY <1>1 DEF Clusters
    <3> QED
      BY <3>1, <3>3, <3>4
  <2>4. \A f \in Chained : op[f].pc # "bugcheck"
    BY <1>1, NoOpFacts
  <2> QED
    BY <1>1, <2>2, <2>3, <2>4 DEF PromisesKept
<1> QED
  BY <1>2, <1>3, <1>4, <1>5 DEF DiskInv

LEMMA NextDiskInv == DiskInv /\ [NextDisk]_diskVars => DiskInv'
<1> SUFFICES ASSUME DiskInv, [NextDisk]_diskVars PROVE DiskInv'
  OBVIOUS
<1>1. CASE UNCHANGED diskVars
  <2>1. /\ fat' = fat /\ bitmap' = bitmap /\ freeClusters' = freeClusters
        /\ fcb' = fcb /\ op' = op
    BY <1>1 DEF diskVars
  <2>2. TypeOKDisk'
    BY <2>1 DEF DiskInv, TypeOKDisk
  <2>3. \A f \in Chained : FileInv(fcb'[f], op'[f], fat')
    BY <2>1 DEF DiskInv
  <2>4. OwnedOnce'
    BY <2>1 DEF DiskInv, OwnedOnce, Held
  <2>5. PromisesKept'
    <3>1. Promises' = Promises
      BY <2>1 DEF Promises, Outstanding
    <3> QED
      BY <2>1, <3>1 DEF DiskInv, PromisesKept
  <2> QED
    BY <2>2, <2>3, <2>4, <2>5 DEF DiskInv
<1>2. CASE NextDisk
  <2>1. PICK f \in Chained :
            \/ \E n \in 1 .. MaxSize : AddFileAllocation(f, n) \/ Truncate(f, n)
            \/ AllocateClusters(f) \/ AllocateRaises(f) \/ AcquireExclusive(f)
            \/ ReserveInLoop(f) \/ AllocateInLoop(f) \/ LoopRaises(f) \/ GiveBack(f)
            \/ MergeAllocation(f) \/ MergeRaises(f)
            \/ FreeClusters(f) \/ FreeRaises(f) \/ UnreserveClusters(f) \/ SettleMcb(f)
            \/ TruncateToZero(f)
            \/ \E i \in 1 .. MaxSize, c \in Clusters : Move(f, i, c)
            \/ SecondSplice(f) \/ FirstSplice(f) \/ FirstSpliceRaises(f) \/ MoveRaises(f)
    BY <1>2 DEF NextDisk
  <2>2. ASSUME NEW n \in 1 .. MaxSize, AddFileAllocation(f, n) \/ Truncate(f, n) PROVE DiskInv'
    BY <2>2, AddFileAllocationStep, TruncateStep
  <2>3. CASE \/ AllocateClusters(f) \/ AllocateRaises(f) \/ AcquireExclusive(f)
             \/ ReserveInLoop(f) \/ AllocateInLoop(f) \/ LoopRaises(f) \/ GiveBack(f)
    BY <2>3, AllocateClustersStep, AllocateRaisesStep, AcquireExclusiveStep,
       ReserveInLoopStep, AllocateInLoopStep, LoopRaisesStep, GiveBackClusters
  <2>4. CASE MergeAllocation(f) \/ MergeRaises(f) \/ MoveRaises(f)
    BY <2>4, MergeAllocationStep, UndoStep
  <2>5. CASE \/ FreeClusters(f) \/ FreeRaises(f) \/ UnreserveClusters(f) \/ SettleMcb(f)
             \/ TruncateToZero(f)
    BY <2>5, FreeClustersStep, FreeRaisesStep, UnreserveClustersStep, SettleMcbStep,
       TruncateToZeroStep
  <2>6. ASSUME NEW i \in 1 .. MaxSize, NEW c \in Clusters, Move(f, i, c) PROVE DiskInv'
    BY <2>6, MoveStep
  <2>7. CASE SecondSplice(f) \/ FirstSplice(f) \/ FirstSpliceRaises(f)
    BY <2>7, SecondSpliceStep, FirstSpliceStep, FirstSpliceRaisesStep
  <2> QED
    BY <2>1, <2>2, <2>3, <2>4, <2>5, <2>6, <2>7
<1> QED
  BY <1>1, <1>2

\* The invariant holds with any number of files and clusters and however many accesses
\* to the FAT fail.
THEOREM DiskInvariant == SpecDisk => []DiskInv
<1>1. InitDisk => DiskInv
  BY InitDiskInv
<1>2. DiskInv /\ [NextDisk]_diskVars => DiskInv'
  BY NextDiskInv
<1> QED
  BY <1>1, <1>2, PTL DEF SpecDisk

\* Who has had the count lowered finds his clusters: as many bits are clear as are counted
\* free or promised, whoever allocates, fails, gives back or frees at the same time, and
\* FatAllocateDiskSpace never comes to its bugcheck.
THEOREM PromisesAreKept == SpecDisk => []PromisesKept
<1>1. DiskInv => PromisesKept
  BY DEF DiskInv
<1> QED
  BY <1>1, DiskInvariant, PTL

\* A cluster is had by one file at most, and one whose bit is clear by none and is free in
\* the FAT, whatever raises and wherever a file stands between clearing the bits and
\* correcting its MCB.  What is had is what MCBs and operations name: a chain that a move has
\* torn leads to clusters that the file does not have.
THEOREM ClustersOwnedOnce == SpecDisk => []OwnedOnce
<1>1. DiskInv => OwnedOnce
  BY DEF DiskInv
<1> QED
  BY <1>1, DiskInvariant, PTL

\* The directory entry of a file that nobody works on names its first cluster, and its chain
\* is what its MCB says, unless a move of it raised after its first splice and has torn the
\* entry or the chain; then the FCB still agrees with the MCB.
THEOREM ChainsAgree == SpecDisk => []ChainIsMcb
<1>1. DiskInv => ChainIsMcb
  <2> SUFFICES ASSUME DiskInv, NEW f \in Chained, op[f].pc = "idle", NEW F, F = fcb[f]
               PROVE  /\ F.torn = "no" => F.entry = F.first
                      /\ (F.mcb = <<>>) = (F.first = 0)
                      /\ F.mcb # <<>> => F.first = F.mcb[1]
                      /\ F.torn # "chain" =>
                             \A i \in DOMAIN F.mcb :
                                 fat[F.mcb[i]] = IF i = Len(F.mcb) THEN EndOfChain
                                                 ELSE F.mcb[i + 1]
    BY DEF ChainIsMcb
  <2>1. F.mcb \in Runs /\ Sound(F, fat) /\ (F.torn # "chain" => Entire(F, fat))
    BY DiskFacts, IdleFacts
  <2>2. /\ F.mcb = <<>> => F.first = 0
        /\ F.mcb # <<>> => F.first = F.mcb[1]
        /\ F.torn = "no" => F.entry = F.first
        /\ F.torn # "chain" => Chains(fat, F.mcb)
    BY <2>1 DEF Sound, Entire
  <2>3. F.mcb # <<>> => F.first # 0
    <3>1. ASSUME F.mcb # <<>> PROVE F.mcb[1] # 0
      <4>1. 1 \in DOMAIN F.mcb
        BY <2>1, <3>1, EmptySeq DEF Runs
      <4> QED
        BY <2>1, <4>1, RunType, ClusterFacts
    <3> QED
      BY <2>2, <3>1
  <2> QED
    BY <2>2, <2>3 DEF Chains
<1> QED
  BY <1>1, DiskInvariant, PTL
=============================================================================
